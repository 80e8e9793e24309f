---------------------------- MODULE TransportProofs ----------------------------
(***************************************************************************)
(* Proofs about Transport for every set of clients and descriptors, every  *)
(* script, frame size and bound, and any number of calls of listen and     *)
(* shutdown.                                                               *)
(***************************************************************************)
EXTENDS Transport, FiniteSetTheorems, SequenceTheorems, WellFoundedInduction, TLAPS

\* Where the thread of a connection of the live set is, and where it has copied
\* a descriptor.
LivePc == {"open", "decode", "wait", "serve", "send", "closing", "shutting", "erase"}
HeldPc == {"wait", "send", "shutting"}

Socket == [handle : Fd \cup {None}, released : BOOLEAN]
Thread == [pc : WorkerPc, held : Fd \cup {None}]

\* Types of what the threads share.
ControlTypes ==
    /\ running \in BOOLEAN /\ listening \in BOOLEAN /\ locked \in BOOLEAN
    /\ setup \in Setups
    /\ IsFiniteSet(live) /\ Cardinality(live) <= setup.max_sessions
    /\ acceptor \in [pc : {"check", "accept", "got", "done"}, conn : Conn \cup {None}]
    /\ worker \in [Conn -> Thread]
    /\ stopper \in [pc : {"idle", "lock", "release", "join acceptor", "join workers", "done"},
                    closing : Fd \cup {None}]
    /\ sock \in [Conn -> Socket]
    /\ owner \in [Fd -> Conn \cup {Elsewhere, None}]

\* How far shutdown has come says which flags are set and what is left to stop.
ShutdownInOrder ==
    /\ running <=> stopper.pc = "idle"
    /\ listening <=> stopper.pc \in {"idle", "lock"}
    /\ locked <=> stopper.pc = "release"
    /\ stopper.pc # "release" => stopper.closing = None
    /\ stopper.pc \in {"join acceptor", "join workers"} => Unreleased = {}
    /\ stopper.pc \in {"join workers", "done"} => acceptor.pc = "done"
    /\ stopper.pc = "done" => \A c \in Conn : worker[c].pc = "none"

\* The acceptor has at most one connection in hand, and the live set is made of
\* those that are served.
ThreadsAccountedFor ==
    /\ acceptor.pc = "got" <=> acceptor.conn # None
    /\ \A c \in Conn : worker[c].pc = "accepted" <=> acceptor.conn = c
    /\ live = {c \in Conn : worker[c].pc \in LivePc}

\* A connection has a descriptor from accept to its end, unless shutdown has taken
\* it away; a copy of it is good until then, and after it stale: its number may be
\* a file's, but no other connection's, because the listener was closed before.
DescriptorOf(c) ==
    /\ worker[c].pc \in {"none", "queued"} => sock[c].handle = None /\ ~sock[c].released
    /\ worker[c].pc \notin {"none", "queued"} => (sock[c].released <=> sock[c].handle = None)
    /\ sock[c].handle # None => owner[sock[c].handle] = c
    /\ sock[c].released => ~listening /\ worker[c].pc # "accepted"
    /\ worker[c].pc \in HeldPc =>
          /\ worker[c].held \in Fd
          /\ IF sock[c].released THEN owner[worker[c].held] \notin Conn \ {c}
             ELSE worker[c].held = sock[c].handle

\* Every descriptor of a connection belongs to its socket, or shutdown is about to close it.
NoneLost ==
    /\ \A f \in Fd : owner[f] \in Conn =>
          sock[owner[f]].handle = f \/ stopper.closing = f
    /\ stopper.closing # None => /\ owner[stopper.closing] \in live
                                 /\ sock[owner[stopper.closing]].released

\* The control part of the invariant.
ControlInv ==
    /\ ControlTypes
    /\ ShutdownInOrder
    /\ ThreadsAccountedFor
    /\ \A c \in Conn : DescriptorOf(c)
    /\ NoneLost

\* The units of the stream of client c, whose script is sc, that it may have sent.
Sendable(c, sc) == {u \in {c} \X Nat \X Nat : /\ u[2] \in 1..Len(sc)
                                              /\ u[3] \in 1..sc[u[2]].size}

\* The unit that follows u.
Follower(c, sc, u) ==
    IF u[3] < sc[u[2]].size THEN <<c, u[2], u[3] + 1>> ELSE <<c, u[2] + 1, 1>>

\* The units of a come in order and without a gap from the beginning of frame n.
Chain(c, sc, a, n) ==
    /\ a[1] = <<c, n, 1>>
    /\ \A i \in 1..(Len(a) - 1) : a[i + 1] = Follower(c, sc, a[i])

LinkTypes(c, sc) ==
    [peer : {"open", "closed"}, ended : BOOLEAN, wire : Seq(Sendable(c, sc)),
     next : (Nat \ {0}) \X (Nat \ {0}), buffer : Seq(Sendable(c, sc)), delivered : Seq(Nat)]

\* What is buffered, what is in flight and the unit the client sends next.
AheadOf(c, l) == Append(l.buffer \o l.wire, <<c, l.next[1], l.next[2]>>)

\* One end of a stream to the other: it goes on where the delivered frames end.
Flowing(c, sc, l) ==
    /\ l \in LinkTypes(c, sc)
    /\ l.next[1] <= Len(sc) => l.next[2] <= sc[l.next[1]].size
    /\ l.delivered = [k \in 1..Len(l.delivered) |-> k]
    /\ Chain(c, sc, AheadOf(c, l), Len(l.delivered) + 1)

\* A read begins only on a buffer below the bound and adds at most one capacity.
BufferBounded(c) ==
    /\ Len(link[c].buffer) < 2 * ReadCapacity + PayloadMax + Header
    /\ worker[c].pc = "wait" => Len(link[c].buffer) < ReadCapacity + PayloadMax + Header

\* The part of the invariant that is about one connection's stream.
StreamInv(c) ==
    /\ Flowing(c, Script(c), link[c]) /\ BufferBounded(c)
    /\ worker[c].pc = "none" => link[c] = Fresh

\* The inductive invariant.
IInv ==
    /\ ControlInv
    /\ link = [c \in Conn |-> link[c]]
    /\ \A c \in Conn : StreamInv(c)

-----------------------------------------------------------------------------
(* Threads and descriptors.                                                *)

\* A descriptor number and a connection are not unset, and whatever else holds
\* descriptors is not a connection.
LEMMA NoneIsNone == /\ None \notin Conn /\ None \notin Fd
                    /\ Elsewhere \notin Conn /\ Elsewhere # None
  BY TransportAssumption

\* One thread goes on.
ThreadAt(c, pc, held) ==
    /\ worker' \in [Conn -> Thread]
    /\ worker'[c].pc = pc /\ worker'[c].held = held
    /\ \A d \in Conn \ {c} : worker'[d] = worker[d]

\* A thread goes on without a descriptor.
LEMMA AtMoves ==
    ASSUME ControlTypes, NEW c \in Conn, NEW pc \in WorkerPc, At(c, pc)
    PROVE  ThreadAt(c, pc, None)
  <1>1. PICK r : r = [pc |-> pc, held |-> None]
    OBVIOUS
  <1>2. r \in Thread /\ r.pc = pc /\ r.held = None
    BY <1>1 DEF Thread
  <1>3. worker' = [worker EXCEPT ![c] = r]
    BY <1>1 DEF At
  <1>4. QED
    BY <1>2, <1>3 DEF ControlTypes, ThreadAt

\* A thread copies its descriptor.
LEMMA HoldingMoves ==
    ASSUME ControlTypes, NEW c \in Conn, NEW pc \in WorkerPc, Holding(c, pc)
    PROVE  ThreadAt(c, pc, sock[c].handle)
  <1>1. PICK r : r = [pc |-> pc, held |-> sock[c].handle]
    OBVIOUS
  <1>2. sock[c].handle \in Fd \cup {None}
    BY DEF ControlTypes, Socket
  <1>3. r \in Thread /\ r.pc = pc /\ r.held = sock[c].handle
    BY <1>1, <1>2 DEF Thread
  <1>4. worker' = [worker EXCEPT ![c] = r]
    BY <1>1 DEF Holding
  <1>5. QED
    BY <1>3, <1>4 DEF ControlTypes, ThreadAt

\* The thread of a served connection goes on serving; a copy of the descriptor is
\* made only of one that shutdown has not taken.
LEMMA LiveStep ==
    ASSUME ControlInv, UNCHANGED <<serverVars, sock, owner>>,
           NEW c \in Conn, worker[c].pc \in LivePc,
           NEW pc \in LivePc, NEW held, ThreadAt(c, pc, held),
           pc \in HeldPc => held = sock[c].handle /\ ~sock[c].released
    PROVE  ControlInv'
  <1>1. /\ running' = running /\ listening' = listening /\ setup' = setup /\ locked' = locked
        /\ live' = live /\ acceptor' = acceptor /\ stopper' = stopper
        /\ sock' = sock /\ owner' = owner
    BY DEF serverVars, flags
  <1>2. /\ worker' \in [Conn -> Thread]
        /\ worker'[c].pc = pc /\ worker'[c].held = held
        /\ \A d \in Conn \ {c} : worker'[d] = worker[d]
    BY DEF ThreadAt
  <1>3. ControlTypes'
    BY <1>1, <1>2 DEF ControlInv, ControlTypes
  <1>4. /\ worker[c].pc \notin {"none", "queued", "accepted"}
        /\ worker'[c].pc \notin {"none", "queued", "accepted"}
    BY <1>2 DEF LivePc
  <1>5. ShutdownInOrder'
    BY <1>1, <1>2, <1>4 DEF ControlInv, ShutdownInOrder, Unreleased
  <1>6. ThreadsAccountedFor'
    BY <1>1, <1>2, <1>4 DEF ControlInv, ThreadsAccountedFor
  <1>7. \A d \in Conn : DescriptorOf(d)'
    <2>1. ASSUME NEW d \in Conn \ {c} PROVE DescriptorOf(d)'
      BY <1>1, <1>2, <2>1 DEF ControlInv, DescriptorOf
    <2>2. DescriptorOf(c)'
      <3>1. sock[c].handle \in Fd \cup {None}
        BY DEF ControlInv, ControlTypes, Socket
      <3>2. DescriptorOf(c)
        BY DEF ControlInv
      <3>3. pc \in HeldPc => held \in Fd /\ held = sock[c].handle /\ ~sock[c].released
        BY <1>4, <3>1, <3>2 DEF DescriptorOf
      <3>4. QED
        BY <1>1, <1>2, <1>4, <3>2, <3>3 DEF DescriptorOf
    <2>3. QED
      BY <2>1, <2>2
  <1>8. NoneLost'
    BY <1>1 DEF ControlInv, NoneLost
  <1>9. QED
    BY <1>3, <1>5, <1>6, <1>7, <1>8 DEF ControlInv

\* A step of a client's end of the stream.
LEMMA ControlUntouched ==
    ASSUME ControlInv, UNCHANGED <<serverVars, worker, sock, owner>>
    PROVE  ControlInv'
  <1>1. /\ running' = running /\ listening' = listening /\ setup' = setup /\ locked' = locked
        /\ live' = live /\ acceptor' = acceptor /\ stopper' = stopper
        /\ sock' = sock /\ owner' = owner /\ worker' = worker
    BY DEF serverVars, flags
  <1>2. ControlTypes'
    BY <1>1 DEF ControlInv, ControlTypes
  <1>3. ShutdownInOrder'
    BY <1>1 DEF ControlInv, ShutdownInOrder, Unreleased
  <1>4. ThreadsAccountedFor' /\ NoneLost'
    BY <1>1 DEF ControlInv, ThreadsAccountedFor, NoneLost
  <1>5. \A c \in Conn : DescriptorOf(c)'
    BY <1>1 DEF ControlInv, DescriptorOf
  <1>6. QED
    BY <1>2, <1>3, <1>4, <1>5 DEF ControlInv

\* A connection joins the backlog.
LEMMA ConnectControl ==
    ASSUME ControlInv, NEW c \in Conn, Connect(c)
    PROVE  ControlInv'
  <1>1. /\ listening /\ worker[c].pc = "none"
        /\ running' = running /\ listening' = listening /\ setup' = setup /\ locked' = locked
        /\ live' = live /\ acceptor' = acceptor /\ stopper' = stopper
        /\ sock' = sock /\ owner' = owner
    BY DEF Connect, serverVars, flags
  <1>2. /\ worker' \in [Conn -> Thread] /\ worker'[c].pc = "queued"
        /\ \A d \in Conn \ {c} : worker'[d] = worker[d]
    BY AtMoves DEF Connect, ControlInv, WorkerPc, ThreadAt
  <1>3. ControlTypes' /\ NoneLost'
    BY <1>1, <1>2 DEF ControlInv, ControlTypes, NoneLost
  <1>4. ShutdownInOrder'
    BY <1>1, <1>2 DEF ControlInv, ShutdownInOrder, Unreleased
  <1>5. ThreadsAccountedFor'
    BY <1>1, <1>2 DEF ControlInv, ThreadsAccountedFor, LivePc
  <1>6. \A d \in Conn : DescriptorOf(d)'
    BY <1>1, <1>2 DEF ControlInv, DescriptorOf, HeldPc
  <1>7. QED
    BY <1>3, <1>4, <1>5, <1>6 DEF ControlInv

\* The head of accept_loop, and accept on a closed listener.
LEMMA AcceptorControl ==
    ASSUME ControlInv, CheckListener \/ AcceptFails
    PROVE  ControlInv'
  <1>1. /\ acceptor.pc \in {"check", "accept"}
        /\ running' = running /\ listening' = listening /\ setup' = setup /\ locked' = locked
        /\ live' = live /\ stopper' = stopper
        /\ sock' = sock /\ owner' = owner /\ worker' = worker
    BY DEF CheckListener, AcceptFails, flags, connVars
  <1>2. PICK pc \in {"check", "accept", "done"} : acceptor' = [pc |-> pc, conn |-> None]
    BY DEF CheckListener, AcceptFails, AcceptorGoes
  <1>3. acceptor.conn = None
    BY <1>1 DEF ControlInv, ThreadsAccountedFor
  <1>4. ControlTypes' /\ NoneLost'
    BY <1>1, <1>2 DEF ControlInv, ControlTypes, NoneLost
  <1>5. ShutdownInOrder'
    BY <1>1, <1>2 DEF ControlInv, ShutdownInOrder, Unreleased
  <1>6. ThreadsAccountedFor'
    BY <1>1, <1>2, <1>3 DEF ControlInv, ThreadsAccountedFor
  <1>7. \A d \in Conn : DescriptorOf(d)'
    BY <1>1 DEF ControlInv, DescriptorOf
  <1>8. QED
    BY <1>4, <1>5, <1>6, <1>7 DEF ControlInv

\* A connection is accepted under a number that is free; while there is a listener
\* no descriptor was taken away, so nobody has a stale copy of the number.
LEMMA AcceptControl ==
    ASSUME ControlInv, NEW c \in Conn, Accept(c)
    PROVE  ControlInv'
  <1>1. /\ acceptor.pc = "accept" /\ listening /\ worker[c].pc = "queued"
        /\ acceptor' = [pc |-> "got", conn |-> c]
        /\ running' = running /\ listening' = listening /\ setup' = setup /\ locked' = locked
        /\ live' = live /\ stopper' = stopper
    BY DEF Accept, AcceptorGoes, flags
  <1>2. PICK f \in Fd : /\ owner[f] = None /\ owner' = [owner EXCEPT ![f] = c]
                        /\ sock' = [sock EXCEPT ![c] = [handle |-> f, released |-> FALSE]]
    BY DEF Accept, FreeFd
  <1>3. /\ worker' \in [Conn -> Thread] /\ worker'[c].pc = "accepted"
        /\ \A d \in Conn \ {c} : worker'[d] = worker[d]
    BY AtMoves DEF Accept, ControlInv, WorkerPc, ThreadAt
  <1>4. /\ sock' \in [Conn -> Socket] /\ sock'[c].handle = f /\ sock'[c].released = FALSE
        /\ \A d \in Conn \ {c} : sock'[d] = sock[d]
    <2>1. PICK s : s = [handle |-> f, released |-> FALSE]
      OBVIOUS
    <2>2. s \in Socket /\ s.handle = f /\ s.released = FALSE
      BY <2>1 DEF Socket
    <2>3. sock' = [sock EXCEPT ![c] = s] /\ sock \in [Conn -> Socket]
      BY <1>2, <2>1 DEF ControlInv, ControlTypes
    <2>4. QED
      BY <2>2, <2>3
  <1>5. /\ owner' \in [Fd -> Conn \cup {Elsewhere, None}] /\ owner'[f] = c
        /\ \A g \in Fd \ {f} : owner'[g] = owner[g]
    BY <1>2 DEF ControlInv, ControlTypes
  <1>6. acceptor.conn = None /\ stopper.closing = None
    BY <1>1 DEF ControlInv, ThreadsAccountedFor, ShutdownInOrder
  <1>7. ControlTypes'
    BY <1>1, <1>3, <1>4, <1>5 DEF ControlInv, ControlTypes
  <1>8. ShutdownInOrder'
    <2>1. stopper.pc \in {"idle", "lock"}
      BY <1>1 DEF ControlInv, ShutdownInOrder
    <2>2. QED
      BY <1>1, <2>1 DEF ControlInv, ShutdownInOrder
  <1>9. ThreadsAccountedFor'
    <2>1. acceptor'.pc = "got" /\ acceptor'.conn = c
      BY <1>1
    <2>2. QED
      BY <1>1, <1>3, <1>6, <2>1, NoneIsNone DEF ControlInv, ThreadsAccountedFor, LivePc
  <1>10. \A d \in Conn : DescriptorOf(d)'
    <2>1. ASSUME NEW d \in Conn \ {c} PROVE DescriptorOf(d)'
      <3>1. DescriptorOf(d) /\ ~sock[d].released
        BY <1>1 DEF ControlInv, DescriptorOf
      <3>2. sock[d].handle # None => sock[d].handle # f /\ sock[d].handle \in Fd
        BY <1>2, <3>1, NoneIsNone DEF DescriptorOf, ControlInv, ControlTypes, Socket
      <3>3. sock[d].handle # None => owner'[sock[d].handle] = owner[sock[d].handle]
        BY <1>5, <3>2
      <3>4. QED
        BY <1>1, <1>3, <1>4, <3>1, <3>3 DEF DescriptorOf
    <2>2. DescriptorOf(c)'
      BY <1>3, <1>4, <1>5, NoneIsNone DEF DescriptorOf, HeldPc
    <2>3. QED
      BY <2>1, <2>2
  <1>11. NoneLost'
    <2>1. sock[c].handle = None
      BY <1>1 DEF ControlInv, DescriptorOf
    <2>2. ASSUME NEW g \in Fd, owner'[g] \in Conn
          PROVE  sock'[owner'[g]].handle = g
      <3>1. CASE g = f
        BY <1>4, <1>5, <3>1
      <3>2. CASE g # f
        <4>1. owner'[g] = owner[g] /\ owner[g] \in Conn
          BY <1>5, <2>2, <3>2
        <4>2. sock[owner[g]].handle = g
          BY <1>6, <2>2, <4>1, NoneIsNone DEF ControlInv, NoneLost
        <4>3. owner[g] # c
          BY <2>1, <4>2, NoneIsNone
        <4>4. QED
          BY <1>4, <4>1, <4>2, <4>3
      <3>3. QED
        BY <3>1, <3>2
    <2>3. QED
      BY <1>1, <1>6, <2>2 DEF NoneLost
  <1>12. QED
    BY <1>7, <1>8, <1>9, <1>10, <1>11 DEF ControlInv

\* The connections in S are gone.
LEMMA Forgotten ==
    ASSUME ControlTypes, NEW S, Forget(S)
    PROVE  /\ worker' \in [Conn -> Thread] /\ sock' \in [Conn -> Socket]
           /\ link' = [c \in Conn |-> link'[c]]
           /\ \A c \in Conn :
                /\ c \in S => /\ worker'[c].pc = "none" /\ link'[c] = Fresh
                              /\ sock'[c].handle = None /\ sock'[c].released = FALSE
                /\ c \notin S => worker'[c] = worker[c] /\ sock'[c] = sock[c] /\ link'[c] = link[c]
  <1>1. NoSocket \in Socket /\ NoSocket.handle = None /\ NoSocket.released = FALSE
    BY DEF NoSocket, Socket
  <1>2. NoThread \in Thread /\ NoThread.pc = "none"
    BY DEF NoThread, Thread, WorkerPc
  <1>3. worker \in [Conn -> Thread] /\ sock \in [Conn -> Socket]
    BY DEF ControlTypes
  <1> HIDE DEF NoSocket, NoThread
  <1>4. /\ \A c \in Conn : sock'[c] = IF c \in S THEN NoSocket ELSE sock[c]
        /\ \A c \in Conn : worker'[c] = IF c \in S THEN NoThread ELSE worker[c]
        /\ \A c \in Conn : link'[c] = IF c \in S THEN Fresh ELSE link[c]
    BY DEF Forget
  <1>5. worker' \in [Conn -> Thread] /\ sock' \in [Conn -> Socket]
    BY <1>1, <1>2, <1>3 DEF Forget
  <1>6. link' = [c \in Conn |-> link'[c]]
    BY DEF Forget
  <1>7. QED
    BY <1>1, <1>2, <1>4, <1>5, <1>6

\* A connection that is not of the live set ends and its descriptor is closed.
LEMMA ConnectionEnds ==
    ASSUME ControlInv, NEW c \in Conn, worker[c].pc \in {"accepted", "exit"},
           IF sock[c].released THEN UNCHANGED owner ELSE Close(sock[c].handle),
           Forget({c}), UNCHANGED <<listening, stopper, live>>
    PROVE  /\ worker' \in [Conn -> Thread] /\ sock' \in [Conn -> Socket]
           /\ owner' \in [Fd -> Conn \cup {Elsewhere, None}]
           /\ worker'[c].pc = "none" /\ \A d \in Conn \ {c} : worker'[d] = worker[d]
           /\ \A d \in Conn \ {c} : sock'[d] = sock[d]
           /\ \A d \in Conn : DescriptorOf(d)'
           /\ NoneLost'
  <1>1. /\ worker' \in [Conn -> Thread] /\ sock' \in [Conn -> Socket]
        /\ worker'[c].pc = "none" /\ sock'[c].handle = None /\ sock'[c].released = FALSE
        /\ \A d \in Conn \ {c} : worker'[d] = worker[d] /\ sock'[d] = sock[d]
    BY Forgotten DEF ControlInv
  <1>2. owner \in [Fd -> Conn \cup {Elsewhere, None}] /\ sock \in [Conn -> Socket]
    BY DEF ControlInv, ControlTypes
  <1>3. DescriptorOf(c)
    BY DEF ControlInv
  <1>4. /\ owner' \in [Fd -> Conn \cup {Elsewhere, None}]
        /\ \A f \in Fd : \/ owner'[f] = owner[f] /\ sock[c].handle # f
                         \/ owner[f] = c /\ owner'[f] = None
    <2>1. CASE sock[c].released
      <3>1. sock[c].handle = None
        BY <1>3, <2>1 DEF DescriptorOf
      <3>2. QED
        BY <1>2, <2>1, <3>1, NoneIsNone
    <2>2. CASE ~sock[c].released
      <3>1. sock[c].handle # None /\ owner[sock[c].handle] = c
        BY <1>3, <2>2 DEF DescriptorOf
      <3>2. owner' = [owner EXCEPT ![sock[c].handle] = None]
        BY <2>2, <3>1 DEF Close
      <3>3. QED
        BY <1>2, <3>1, <3>2
    <2>3. QED
      BY <2>1, <2>2
  <1>5. c \notin live
    BY DEF ControlInv, ThreadsAccountedFor, LivePc
  <1>6. \A d \in Conn : DescriptorOf(d)'
    <2>1. ASSUME NEW d \in Conn \ {c} PROVE DescriptorOf(d)'
      <3>1. DescriptorOf(d) /\ worker'[d] = worker[d] /\ sock'[d] = sock[d]
        BY <1>1, <2>1 DEF ControlInv
      <3>2. sock[d].handle \in Fd \cup {None}
        BY <1>2 DEF Socket
      <3>3. sock[d].handle # None => owner'[sock[d].handle] = d
        BY <1>4, <2>1, <3>1, <3>2 DEF DescriptorOf
      <3>4. worker[d].pc \in HeldPc => worker[d].held \in Fd
        BY <3>1 DEF DescriptorOf
      <3>5. worker[d].pc \in HeldPc /\ sock[d].released => owner'[worker[d].held] \notin Conn \ {d}
        BY <1>4, <3>1, <3>4 DEF DescriptorOf
      <3>6. QED
        BY <3>1, <3>3, <3>4, <3>5 DEF DescriptorOf
    <2>2. DescriptorOf(c)'
      BY <1>1 DEF DescriptorOf, HeldPc
    <2>3. QED
      BY <2>1, <2>2
  <1>7. NoneLost'
    <2>1. ASSUME NEW f \in Fd, owner'[f] \in Conn
          PROVE  sock'[owner'[f]].handle = f \/ stopper'.closing = f
      <3>1. owner'[f] = owner[f] /\ sock[c].handle # f /\ owner[f] \in Conn
        BY <1>2, <1>4, <2>1, NoneIsNone
      <3>2. sock[owner[f]].handle = f \/ stopper.closing = f
        BY <3>1 DEF ControlInv, NoneLost
      <3>3. CASE stopper.closing = f
        BY <3>3
      <3>4. CASE sock[owner[f]].handle = f
        BY <1>1, <3>1, <3>4
      <3>5. QED
        BY <3>2, <3>3, <3>4
    <2>2. ASSUME stopper'.closing # None
          PROVE  owner'[stopper'.closing] \in live' /\ sock'[owner'[stopper'.closing]].released
      <3>1. /\ owner[stopper.closing] \in live /\ sock[owner[stopper.closing]].released
            /\ stopper.closing \in Fd
        BY <2>2 DEF ControlInv, NoneLost, ControlTypes
      <3>2. owner[stopper.closing] # c /\ owner[stopper.closing] \in Conn
        BY <1>2, <1>5, <3>1, NoneIsNone DEF ControlInv, ThreadsAccountedFor
      <3>3. owner'[stopper.closing] = owner[stopper.closing]
        BY <1>4, <3>1, <3>2
      <3>4. QED
        BY <1>1, <3>1, <3>2, <3>3
    <2>3. QED
      BY <2>1, <2>2 DEF NoneLost
  <1>8. QED
    BY <1>1, <1>4, <1>6, <1>7

\* The connection in the acceptor's hand is closed.
LEMMA RefuseControl ==
    ASSUME ControlInv, Refuse
    PROVE  ControlInv'
  <1> DEFINE c == acceptor.conn
  <1>1. /\ acceptor.pc = "got" /\ Close(sock[c].handle) /\ Forget({c})
        /\ running' = running /\ listening' = listening /\ setup' = setup /\ locked' = locked
        /\ live' = live /\ stopper' = stopper
    BY DEF Refuse, flags
  <1>2. PICK pc \in {"check", "done"} : acceptor' = [pc |-> pc, conn |-> None]
    BY DEF Refuse, AcceptorGoes
  <1>3. c \in Conn /\ worker[c].pc = "accepted"
    BY <1>1 DEF ControlInv, ControlTypes, ThreadsAccountedFor
  <1>4. ~sock[c].released
    BY <1>3 DEF ControlInv, DescriptorOf, ControlTypes, Socket, ShutdownInOrder
  <1> HIDE DEF c
  <1>5. /\ worker' \in [Conn -> Thread] /\ sock' \in [Conn -> Socket]
        /\ owner' \in [Fd -> Conn \cup {Elsewhere, None}]
        /\ worker'[c].pc = "none" /\ \A d \in Conn \ {c} : worker'[d] = worker[d]
        /\ \A d \in Conn \ {c} : sock'[d] = sock[d]
        /\ \A d \in Conn : DescriptorOf(d)'
        /\ NoneLost'
    BY <1>1, <1>3, <1>4, ConnectionEnds
  <1>6. acceptor'.pc = pc /\ acceptor'.conn = None
    BY <1>2
  <1>7. ControlTypes'
    BY <1>1, <1>2, <1>5 DEF ControlInv, ControlTypes
  <1>8. c \notin live
    BY <1>3 DEF ControlInv, ThreadsAccountedFor, LivePc
  <1>9. ShutdownInOrder'
    <2>1. Unreleased' = Unreleased
      BY <1>1, <1>5, <1>8 DEF Unreleased, ControlInv, ThreadsAccountedFor
    <2>2. stopper.pc \notin {"join workers", "done"}
      BY <1>1 DEF ControlInv, ShutdownInOrder
    <2>3. QED
      BY <1>1, <2>1, <2>2 DEF ControlInv, ShutdownInOrder
  <1>10. ThreadsAccountedFor'
    <2>1. \A d \in Conn : worker[d].pc = "accepted" <=> d = c
      BY <1>3 DEF ControlInv, ThreadsAccountedFor, c
    <2>2. QED
      BY <1>1, <1>3, <1>5, <1>6, <2>1, NoneIsNone DEF ControlInv, ThreadsAccountedFor, LivePc
  <1>11. QED
    BY <1>5, <1>7, <1>9, <1>10 DEF ControlInv

\* The connection in the acceptor's hand enters the live set, which has room.
LEMMA StartWorkerControl ==
    ASSUME ControlInv, StartWorker
    PROVE  ControlInv'
  <1> DEFINE c == acceptor.conn
  <1>1. /\ acceptor.pc = "got" /\ running /\ Cardinality(live) < setup.max_sessions
        /\ live' = live \cup {c} /\ acceptor' = [pc |-> "check", conn |-> None]
        /\ At(c, "open")
        /\ running' = running /\ listening' = listening /\ setup' = setup /\ locked' = locked
        /\ stopper' = stopper /\ sock' = sock /\ owner' = owner
    BY DEF StartWorker, MayServe, AcceptorGoes
  <1>2. c \in Conn /\ worker[c].pc = "accepted"
    BY <1>1 DEF ControlInv, ControlTypes, ThreadsAccountedFor
  <1> HIDE DEF c
  <1>3. /\ worker' \in [Conn -> Thread] /\ worker'[c].pc = "open"
        /\ \A d \in Conn \ {c} : worker'[d] = worker[d]
    BY <1>1, <1>2, AtMoves DEF ControlInv, WorkerPc, ThreadAt
  <1>4. IsFiniteSet(live') /\ Cardinality(live') <= setup'.max_sessions
    <2>1. IsFiniteSet(live) /\ Cardinality(live) \in Nat
      BY FS_CardinalityType DEF ControlInv, ControlTypes
    <2>2. /\ IsFiniteSet(live \cup {c})
          /\ Cardinality(live \cup {c})
               = IF c \in live THEN Cardinality(live) ELSE Cardinality(live) + 1
      BY <2>1, FS_AddElement
    <2>3. setup.max_sessions \in Nat
      BY TransportAssumption DEF ControlInv, ControlTypes
    <2>4. QED
      BY <1>1, <2>1, <2>2, <2>3
  <1>5. ControlTypes'
    BY <1>1, <1>3, <1>4 DEF ControlInv, ControlTypes
  <1>6. stopper.pc = "idle"
    BY <1>1 DEF ControlInv, ShutdownInOrder
  <1>7. ShutdownInOrder'
    BY <1>1, <1>6 DEF ControlInv, ShutdownInOrder
  <1>8. ThreadsAccountedFor'
    <2>1. \A d \in Conn : worker[d].pc = "accepted" <=> d = c
      BY <1>2 DEF ControlInv, ThreadsAccountedFor, c
    <2>2. acceptor'.pc = "check" /\ acceptor'.conn = None
      BY <1>1
    <2>3. live' = {d \in Conn : worker'[d].pc \in LivePc}
      BY <1>1, <1>2, <1>3 DEF ControlInv, ThreadsAccountedFor, LivePc
    <2>4. QED
      BY <1>3, <2>1, <2>2, <2>3, NoneIsNone DEF ThreadsAccountedFor
  <1>9. \A d \in Conn : DescriptorOf(d)'
    BY <1>1, <1>2, <1>3 DEF ControlInv, DescriptorOf, HeldPc
  <1>10. NoneLost'
    BY <1>1 DEF ControlInv, NoneLost
  <1>11. QED
    BY <1>5, <1>7, <1>8, <1>9, <1>10 DEF ControlInv

\* A connection leaves the live set; not while shutdown has the mutex.
LEMMA EraseControl ==
    ASSUME ControlInv, NEW c \in Conn, Erase(c)
    PROVE  ControlInv'
  <1>1. /\ worker[c].pc = "erase" /\ ~locked /\ live' = live \ {c}
        /\ running' = running /\ listening' = listening /\ setup' = setup /\ locked' = locked
        /\ acceptor' = acceptor /\ stopper' = stopper /\ sock' = sock /\ owner' = owner
    BY DEF Erase
  <1>2. /\ worker' \in [Conn -> Thread] /\ worker'[c].pc = "exit"
        /\ \A d \in Conn \ {c} : worker'[d] = worker[d]
    BY AtMoves DEF Erase, ControlInv, WorkerPc, ThreadAt
  <1>3. stopper.pc # "release" /\ stopper.closing = None
    BY <1>1 DEF ControlInv, ShutdownInOrder
  <1>4. IsFiniteSet(live') /\ Cardinality(live') <= setup'.max_sessions
    <2>1. IsFiniteSet(live) /\ live' \in SUBSET live
      BY <1>1 DEF ControlInv, ControlTypes
    <2>2. /\ IsFiniteSet(live') /\ Cardinality(live') <= Cardinality(live)
          /\ Cardinality(live') \in Nat /\ Cardinality(live) \in Nat
      BY <2>1, FS_Subset, FS_CardinalityType
    <2>3. setup.max_sessions \in Nat /\ Cardinality(live) <= setup.max_sessions
      BY TransportAssumption DEF ControlInv, ControlTypes
    <2>4. QED
      BY <1>1, <2>2, <2>3
  <1>5. ControlTypes'
    BY <1>1, <1>2, <1>4 DEF ControlInv, ControlTypes
  <1>6. ShutdownInOrder'
    <2>1. Unreleased' \subseteq Unreleased
      BY <1>1 DEF Unreleased
    <2>2. stopper.pc # "done"
      BY <1>1 DEF ControlInv, ShutdownInOrder
    <2>3. QED
      BY <1>1, <2>1, <2>2 DEF ControlInv, ShutdownInOrder
  <1>7. ThreadsAccountedFor'
    BY <1>1, <1>2 DEF ControlInv, ThreadsAccountedFor, LivePc
  <1>8. \A d \in Conn : DescriptorOf(d)'
    BY <1>1, <1>2 DEF ControlInv, DescriptorOf, HeldPc
  <1>9. NoneLost'
    BY <1>1, <1>3 DEF ControlInv, NoneLost
  <1>10. QED
    BY <1>5, <1>6, <1>7, <1>8, <1>9 DEF ControlInv

\* A thread ends.
LEMMA ExitControl ==
    ASSUME ControlInv, NEW c \in Conn, Exit(c)
    PROVE  ControlInv'
  <1>1. /\ worker[c].pc = "exit" /\ Forget({c})
        /\ IF sock[c].released THEN UNCHANGED owner ELSE Close(sock[c].handle)
        /\ running' = running /\ listening' = listening /\ setup' = setup /\ locked' = locked
        /\ live' = live /\ acceptor' = acceptor /\ stopper' = stopper
    BY DEF Exit, serverVars, flags
  <1>2. /\ worker' \in [Conn -> Thread] /\ sock' \in [Conn -> Socket]
        /\ owner' \in [Fd -> Conn \cup {Elsewhere, None}]
        /\ worker'[c].pc = "none" /\ \A d \in Conn \ {c} : worker'[d] = worker[d]
        /\ \A d \in Conn \ {c} : sock'[d] = sock[d]
        /\ \A d \in Conn : DescriptorOf(d)'
        /\ NoneLost'
    BY <1>1, ConnectionEnds
  <1>3. ControlTypes'
    BY <1>1, <1>2 DEF ControlInv, ControlTypes
  <1>4. c \notin live
    BY <1>1 DEF ControlInv, ThreadsAccountedFor, LivePc
  <1>5. ShutdownInOrder'
    <2>1. Unreleased' = Unreleased
      BY <1>1, <1>2, <1>4 DEF Unreleased, ControlInv, ThreadsAccountedFor
    <2>2. stopper.pc # "done"
      BY <1>1 DEF ControlInv, ShutdownInOrder
    <2>3. QED
      BY <1>1, <2>1, <2>2 DEF ControlInv, ShutdownInOrder
  <1>6. ThreadsAccountedFor'
    BY <1>1, <1>2 DEF ControlInv, ThreadsAccountedFor, LivePc
  <1>7. QED
    BY <1>2, <1>3, <1>5, <1>6 DEF ControlInv

\* Shutdown clears the flag, lets go of the mutex when nothing is left to release,
\* and joins the threads.
LEMMA StopperControl ==
    ASSUME ControlInv, Shutdown \/ Unlock \/ JoinAcceptor \/ JoinWorkers
    PROVE  ControlInv'
  <1>1. /\ listening' = listening /\ setup' = setup /\ acceptor' = acceptor
        /\ sock' = sock /\ owner' = owner /\ worker' = worker
    BY DEF Shutdown, Unlock, JoinAcceptor, JoinWorkers, flags, connVars
  <1>2. PICK pc \in {"lock", "join acceptor", "join workers", "done"} :
             stopper' = [pc |-> pc, closing |-> None]
    BY DEF Shutdown, Unlock, JoinAcceptor, JoinWorkers, StopperGoes
  <1>3. stopper'.pc = pc /\ stopper'.closing = None
    BY <1>2
  <1>4. live' = live
    <2>1. CASE JoinWorkers
      <3>1. live = {}
        BY <2>1 DEF JoinWorkers, ControlInv, ThreadsAccountedFor, LivePc
      <3>2. QED
        BY <2>1, <3>1 DEF JoinWorkers
    <2>2. QED
      BY <2>1 DEF Shutdown, Unlock, JoinAcceptor, flags
  <1>5. stopper.closing = None
    BY DEF Shutdown, Unlock, JoinAcceptor, JoinWorkers, ControlInv, ShutdownInOrder
  <1>6. ControlTypes'
    <2>1. running' \in BOOLEAN /\ locked' \in BOOLEAN
      BY DEF Shutdown, Unlock, JoinAcceptor, JoinWorkers, flags, ControlInv, ControlTypes
    <2>2. QED
      BY <1>1, <1>2, <1>4, <2>1 DEF ControlInv, ControlTypes
  <1>7. ShutdownInOrder'
    <2>1. Unreleased' = Unreleased
      BY <1>1, <1>4 DEF Unreleased
    <2>2. CASE Shutdown
      <3>1. /\ stopper.pc = "idle" /\ running' = FALSE /\ locked' = locked /\ stopper'.pc = "lock"
        BY <2>2 DEF Shutdown, StopperGoes
      <3>2. QED
        BY <1>1, <1>3, <3>1 DEF ControlInv, ShutdownInOrder
    <2>3. CASE Unlock
      <3>1. /\ stopper.pc = "release" /\ running' = running /\ locked' = FALSE
            /\ stopper'.pc = "join acceptor" /\ Unreleased = {}
        BY <2>3 DEF Unlock, StopperGoes, ToRelease
      <3>2. QED
        BY <1>1, <1>3, <2>1, <3>1 DEF ControlInv, ShutdownInOrder
    <2>4. CASE JoinAcceptor
      <3>1. /\ stopper.pc = "join acceptor" /\ running' = running /\ locked' = locked
            /\ stopper'.pc = "join workers" /\ acceptor.pc = "done"
        BY <2>4 DEF JoinAcceptor, StopperGoes, flags
      <3>2. QED
        BY <1>1, <1>3, <2>1, <3>1 DEF ControlInv, ShutdownInOrder
    <2>5. CASE JoinWorkers
      <3>1. /\ stopper.pc = "join workers" /\ running' = running /\ locked' = locked
            /\ stopper'.pc = "done" /\ \A c \in Conn : worker[c].pc = "none"
        BY <2>5 DEF JoinWorkers, StopperGoes
      <3>2. QED
        BY <1>1, <1>3, <3>1 DEF ControlInv, ShutdownInOrder
    <2>6. QED
      BY <2>2, <2>3, <2>4, <2>5
  <1>8. ThreadsAccountedFor'
    BY <1>1, <1>4 DEF ControlInv, ThreadsAccountedFor
  <1>9. \A c \in Conn : DescriptorOf(c)'
    BY <1>1 DEF ControlInv, DescriptorOf
  <1>10. NoneLost'
    BY <1>1, <1>3, <1>5 DEF ControlInv, NoneLost
  <1>11. QED
    BY <1>6, <1>7, <1>8, <1>9, <1>10 DEF ControlInv

\* The listener and its backlog go.
LEMMA LockControl ==
    ASSUME ControlInv, LockAndClose
    PROVE  ControlInv'
  <1> DEFINE Q == {c \in Conn : worker[c].pc = "queued"}
  <1>1. /\ stopper.pc = "lock" /\ locked' = TRUE /\ listening' = FALSE /\ Forget(Q)
        /\ stopper' = [pc |-> "release", closing |-> None]
        /\ running' = running /\ setup' = setup /\ live' = live /\ acceptor' = acceptor
        /\ owner' = owner
    BY DEF LockAndClose, CloseListener, StopperGoes
  <1>2. stopper'.pc = "release" /\ stopper'.closing = None
    BY <1>1
  <1>3. /\ worker' \in [Conn -> Thread] /\ sock' \in [Conn -> Socket]
        /\ \A c \in Conn :
             /\ c \in Q => /\ worker'[c].pc = "none"
                           /\ sock'[c].handle = None /\ sock'[c].released = FALSE
             /\ c \notin Q => worker'[c] = worker[c] /\ sock'[c] = sock[c]
    BY <1>1, Forgotten DEF ControlInv
  <1>4. ControlTypes'
    BY <1>1, <1>3 DEF ControlInv, ControlTypes
  <1>5. ShutdownInOrder'
    BY <1>1, <1>2 DEF ControlInv, ShutdownInOrder
  <1>6. ThreadsAccountedFor'
    BY <1>1, <1>3 DEF ControlInv, ThreadsAccountedFor, LivePc
  <1>7. stopper.closing = None
    BY <1>1 DEF ControlInv, ShutdownInOrder
  <1>8. \A c \in Conn : DescriptorOf(c)'
    <2> SUFFICES ASSUME NEW c \in Conn PROVE DescriptorOf(c)'
      OBVIOUS
    <2>1. CASE c \in Q
      BY <1>3, <2>1 DEF DescriptorOf, HeldPc
    <2>2. CASE c \notin Q
      <3>1. worker'[c] = worker[c] /\ sock'[c] = sock[c] /\ DescriptorOf(c)
        BY <1>3, <2>2 DEF ControlInv
      <3>2. QED
        BY <1>1, <3>1 DEF DescriptorOf
    <2>3. QED
      BY <2>1, <2>2
  <1>9. NoneLost'
    <2>1. \A c \in Q : sock[c].handle = None
      BY DEF ControlInv, DescriptorOf
    <2>2. ASSUME NEW f \in Fd, owner[f] \in Conn PROVE sock'[owner[f]].handle = f
      <3>1. owner[f] \in Conn /\ sock[owner[f]].handle = f
        BY <1>7, <2>2, NoneIsNone DEF ControlInv, NoneLost, ControlTypes
      <3>2. QED
        BY <1>3, <2>1, <3>1, NoneIsNone
    <2>3. QED
      BY <1>1, <1>2, <2>2 DEF NoneLost
  <1>10. QED
    BY <1>4, <1>5, <1>6, <1>8, <1>9 DEF ControlInv

\* Shutdown goes on to close descriptor h, or none.
LEMMA Closing ==
    ASSUME ControlTypes, stopper.pc = "release", NEW h \in Fd \cup {None},
           stopper' = [stopper EXCEPT !.closing = h]
    PROVE  /\ stopper' \in [pc : {"idle", "lock", "release", "join acceptor", "join workers", "done"},
                            closing : Fd \cup {None}]
           /\ stopper'.pc = "release" /\ stopper'.closing = h
  BY DEF ControlTypes

\* A socket's descriptor is taken away from it.
LEMMA MarkControl ==
    ASSUME ControlInv, NEW c \in Conn, MarkReleased(c)
    PROVE  ControlInv'
  <1> DEFINE h == sock[c].handle
  <1>1. /\ stopper.pc = "release" /\ stopper.closing = None /\ c \in live /\ ~sock[c].released
        /\ stopper' = [stopper EXCEPT !.closing = h]
        /\ sock' = [sock EXCEPT ![c] = [handle |-> None, released |-> TRUE]]
        /\ running' = running /\ listening' = listening /\ setup' = setup /\ locked' = locked
        /\ live' = live /\ acceptor' = acceptor /\ worker' = worker /\ owner' = owner
    BY DEF MarkReleased, ToRelease, Unreleased, flags
  <1>2. /\ worker[c].pc \in LivePc /\ worker[c].pc \notin {"none", "queued", "accepted"}
    BY <1>1 DEF ControlInv, ThreadsAccountedFor, LivePc
  <1>3. h \in Fd /\ owner[h] = c /\ h # None
    <2>1. DescriptorOf(c) /\ h \in Fd \cup {None}
      BY DEF ControlInv, ControlTypes, Socket
    <2>2. QED
      BY <1>1, <1>2, <2>1, NoneIsNone DEF DescriptorOf
  <1>4. /\ sock' \in [Conn -> Socket] /\ sock'[c].handle = None /\ sock'[c].released = TRUE
        /\ \A d \in Conn \ {c} : sock'[d] = sock[d]
    <2>1. PICK s : s = [handle |-> None, released |-> TRUE]
      OBVIOUS
    <2>2. s \in Socket /\ s.handle = None /\ s.released = TRUE
      BY <2>1 DEF Socket
    <2>3. sock' = [sock EXCEPT ![c] = s] /\ sock \in [Conn -> Socket]
      BY <1>1, <2>1 DEF ControlInv, ControlTypes
    <2>4. QED
      BY <2>2, <2>3
  <1> HIDE DEF h
  <1>5. /\ stopper' \in [pc : {"idle", "lock", "release", "join acceptor", "join workers", "done"},
                         closing : Fd \cup {None}]
        /\ stopper'.pc = "release" /\ stopper'.closing = h
    BY <1>1, <1>3, Closing DEF ControlInv
  <1>6. ControlTypes'
    BY <1>1, <1>4, <1>5 DEF ControlInv, ControlTypes
  <1>7. ShutdownInOrder'
    BY <1>1, <1>5 DEF ControlInv, ShutdownInOrder
  <1>8. ThreadsAccountedFor'
    BY <1>1 DEF ControlInv, ThreadsAccountedFor
  <1>9. \A d \in Conn : DescriptorOf(d)'
    <2>1. ASSUME NEW d \in Conn \ {c} PROVE DescriptorOf(d)'
      <3>1. DescriptorOf(d) /\ sock'[d] = sock[d]
        BY <1>4 DEF ControlInv
      <3>2. QED
        BY <1>1, <3>1 DEF DescriptorOf
    <2>2. DescriptorOf(c)'
      <3>1. DescriptorOf(c) /\ ~listening
        BY <1>1 DEF ControlInv, ShutdownInOrder
      <3>2. worker[c].pc \in HeldPc => worker[c].held = h
        BY <1>1, <3>1 DEF DescriptorOf, h
      <3>3. QED
        BY <1>1, <1>2, <1>3, <1>4, <3>1, <3>2 DEF DescriptorOf
    <2>3. QED
      BY <2>1, <2>2
  <1>10. NoneLost'
    <2>1. ASSUME NEW f \in Fd, owner[f] \in Conn
          PROVE  sock'[owner[f]].handle = f \/ h = f
      <3>1. owner[f] \in Conn /\ sock[owner[f]].handle = f
        BY <1>1, <2>1, NoneIsNone DEF ControlInv, NoneLost, ControlTypes
      <3>2. CASE owner[f] = c
        BY <3>1, <3>2 DEF h
      <3>3. CASE owner[f] # c
        BY <1>4, <3>1, <3>3
      <3>4. QED
        BY <3>2, <3>3
    <2>2. QED
      BY <1>1, <1>3, <1>4, <1>5, <2>1 DEF NoneLost
  <1>11. QED
    BY <1>6, <1>7, <1>8, <1>9, <1>10 DEF ControlInv

\* The descriptor that was taken away is closed.
LEMMA CloseControl ==
    ASSUME ControlInv, CloseReleased
    PROVE  ControlInv'
  <1> DEFINE h == stopper.closing
  <1>1. /\ stopper.pc = "release" /\ h # None /\ owner' = [owner EXCEPT ![h] = None]
        /\ stopper' = [stopper EXCEPT !.closing = None]
        /\ running' = running /\ listening' = listening /\ setup' = setup /\ locked' = locked
        /\ live' = live /\ acceptor' = acceptor /\ worker' = worker /\ sock' = sock
    BY DEF CloseReleased, Close, flags
  <1>2. /\ h \in Fd /\ owner[h] \in live /\ sock[owner[h]].released
    BY <1>1 DEF ControlInv, NoneLost, ControlTypes
  <1>3. owner[h] \in Conn
    BY <1>2 DEF ControlInv, ThreadsAccountedFor
  <1>4. /\ stopper' \in [pc : {"idle", "lock", "release", "join acceptor", "join workers", "done"},
                         closing : Fd \cup {None}]
        /\ stopper'.pc = "release" /\ stopper'.closing = None
    BY <1>1, Closing DEF ControlInv
  <1> HIDE DEF h
  <1>5. /\ owner' \in [Fd -> Conn \cup {Elsewhere, None}] /\ owner'[h] = None
        /\ \A g \in Fd \ {h} : owner'[g] = owner[g]
    BY <1>1, <1>2 DEF ControlInv, ControlTypes
  <1>6. ControlTypes'
    BY <1>1, <1>4, <1>5 DEF ControlInv, ControlTypes
  <1>7. ShutdownInOrder'
    BY <1>1, <1>4 DEF ControlInv, ShutdownInOrder
  <1>8. ThreadsAccountedFor'
    BY <1>1 DEF ControlInv, ThreadsAccountedFor
  <1>9. \A d \in Conn : sock[d].handle # h
    <2> SUFFICES ASSUME NEW d \in Conn, sock[d].handle = h PROVE FALSE
      OBVIOUS
    <2>1. owner[h] = d
      BY <1>2, NoneIsNone DEF ControlInv, DescriptorOf
    <2>2. worker[d].pc \notin {"none", "queued"}
      BY <1>2, <2>1 DEF ControlInv, ThreadsAccountedFor, LivePc
    <2>3. sock[d].handle = None
      BY <1>2, <2>1, <2>2 DEF ControlInv, DescriptorOf
    <2>4. QED
      BY <1>2, <2>3, NoneIsNone
  <1>10. \A d \in Conn : DescriptorOf(d)'
    <2> SUFFICES ASSUME NEW d \in Conn PROVE DescriptorOf(d)'
      OBVIOUS
    <2>1. DescriptorOf(d) /\ sock[d].handle \in Fd \cup {None}
      BY DEF ControlInv, ControlTypes, Socket
    <2>2. sock[d].handle # None => owner'[sock[d].handle] = owner[sock[d].handle]
      BY <1>5, <1>9, <2>1
    <2>3. worker[d].pc \in HeldPc => worker[d].held \in Fd
      BY <2>1 DEF DescriptorOf
    <2>4. worker[d].pc \in HeldPc /\ sock[d].released => owner'[worker[d].held] \notin Conn \ {d}
      BY <1>5, <2>1, <2>3, NoneIsNone DEF DescriptorOf
    <2>5. QED
      BY <1>1, <2>1, <2>2, <2>3, <2>4 DEF DescriptorOf
  <1>11. NoneLost'
    <2>1. ASSUME NEW f \in Fd, owner'[f] \in Conn PROVE sock[owner'[f]].handle = f
      <3>1. f # h /\ owner'[f] = owner[f]
        BY <1>5, <2>1, NoneIsNone
      <3>2. QED
        BY <2>1, <3>1 DEF ControlInv, NoneLost, h
    <2>2. QED
      BY <1>1, <1>4, <2>1 DEF NoneLost
  <1>12. QED
    BY <1>6, <1>7, <1>8, <1>10, <1>11 DEF ControlInv

\* A new call of listen finds nothing of the one before.
LEMMA ListenControl ==
    ASSUME ControlInv, NEW s \in Setups, Listen(s)
    PROVE  ControlInv'
  <1>1. /\ stopper.pc = "done" /\ running' = TRUE /\ listening' = TRUE /\ setup' = s
        /\ live' = {} /\ acceptor' = [pc |-> "check", conn |-> None]
        /\ stopper' = [pc |-> "idle", closing |-> None] /\ locked' = locked
        /\ worker' = worker /\ sock' = sock /\ owner' = owner
    BY DEF Listen, connVars
  <1>2. /\ stopper'.pc = "idle" /\ stopper'.closing = None
        /\ acceptor'.pc = "check" /\ acceptor'.conn = None
    BY <1>1
  <1>3. \A c \in Conn : worker[c].pc = "none"
    BY <1>1 DEF ControlInv, ShutdownInOrder
  <1>4. stopper.closing = None
    BY <1>1 DEF ControlInv, ShutdownInOrder
  <1>5. ControlTypes'
    <2>1. s.max_sessions \in Nat
      BY TransportAssumption
    <2>2. IsFiniteSet(live') /\ Cardinality(live') <= setup'.max_sessions
      BY <1>1, <2>1, FS_EmptySet
    <2>3. QED
      BY <1>1, <2>2 DEF ControlInv, ControlTypes
  <1>6. ShutdownInOrder'
    BY <1>1, <1>2 DEF ControlInv, ShutdownInOrder
  <1>7. ThreadsAccountedFor'
    BY <1>1, <1>2, <1>3, NoneIsNone DEF ThreadsAccountedFor, LivePc
  <1>8. \A c \in Conn : DescriptorOf(c)'
    BY <1>1, <1>3 DEF ControlInv, DescriptorOf, HeldPc
  <1>9. NoneLost'
    BY <1>1, <1>2, <1>4 DEF ControlInv, NoneLost
  <1>10. QED
    BY <1>5, <1>6, <1>7, <1>8, <1>9 DEF ControlInv

\* The initial states.
LEMMA InitControl == Init => ControlInv
  <1> SUFFICES ASSUME Init PROVE ControlInv
    OBVIOUS
  <1>1. NoSocket \in Socket /\ NoSocket.handle = None /\ NoSocket.released = FALSE
    BY DEF NoSocket, Socket
  <1>2. NoThread \in Thread /\ NoThread.pc = "none"
    BY DEF NoThread, Thread, WorkerPc
  <1>3. /\ acceptor = [pc |-> "done", conn |-> None] /\ stopper = [pc |-> "done", closing |-> None]
        /\ worker = [c \in Conn |-> NoThread] /\ sock = [c \in Conn |-> NoSocket]
        /\ owner = [f \in Fd |-> None] /\ live = {} /\ setup \in Setups
        /\ running = FALSE /\ listening = FALSE /\ locked = FALSE
    BY DEF Init
  <1> HIDE DEF NoSocket, NoThread
  <1>4. /\ acceptor.pc = "done" /\ acceptor.conn = None
        /\ stopper.pc = "done" /\ stopper.closing = None
        /\ \A c \in Conn : /\ worker[c].pc = "none"
                           /\ sock[c].handle = None /\ sock[c].released = FALSE
        /\ worker \in [Conn -> Thread] /\ sock \in [Conn -> Socket]
    BY <1>1, <1>2, <1>3
  <1>5. ControlTypes
    <2>1. setup.max_sessions \in Nat
      BY <1>3, TransportAssumption
    <2>2. IsFiniteSet(live) /\ Cardinality(live) <= setup.max_sessions
      BY <1>3, <2>1, FS_EmptySet
    <2>3. QED
      BY <1>3, <1>4, <2>2 DEF ControlTypes
  <1>6. ShutdownInOrder
    BY <1>3, <1>4 DEF ShutdownInOrder
  <1>7. ThreadsAccountedFor
    BY <1>3, <1>4, NoneIsNone DEF ThreadsAccountedFor, LivePc
  <1>8. \A c \in Conn : DescriptorOf(c)
    BY <1>4 DEF DescriptorOf, HeldPc
  <1>9. NoneLost
    BY <1>3, <1>4, NoneIsNone DEF NoneLost
  <1>10. QED
    BY <1>5, <1>6, <1>7, <1>8, <1>9 DEF ControlInv

\* The steps of session_loop between the first and the last.
Serving(c) ==
    \/ OnOpen(c) \/ Deliver(c) \/ Reject(c)
    \/ CopyDescriptor(c) \/ Timeout(c) \/ Receive(c) \/ ReceiveEnd(c)
    \/ Serve(c) \/ SendReply(c) \/ SendFails(c) \/ BeginShutdownSocket(c) \/ ShutdownNative(c)

\* Each of them moves one thread, which copies no descriptor that is gone.
LEMMA ServingMoves ==
    ASSUME ControlTypes, NEW c \in Conn, Serving(c)
    PROVE  /\ worker[c].pc \in LivePc /\ UNCHANGED <<serverVars, sock, owner>>
           /\ \E pc \in LivePc : \E held :
                 /\ ThreadAt(c, pc, held)
                 /\ pc \in HeldPc => held = sock[c].handle /\ ~sock[c].released
                 /\ pc = "wait" => CopyDescriptor(c)
  <1>1. worker[c].pc \in LivePc /\ UNCHANGED <<serverVars, sock, owner>>
    BY DEF Serving, OnOpen, Deliver, Reject, CopyDescriptor, Timeout, Receive, ReceiveEnd, Serve,
           SendReply, SendFails, FrameDone, BeginShutdownSocket, ShutdownNative, LivePc
  <1>2. ASSUME NEW pc \in {"decode", "serve", "closing", "erase"}, At(c, pc)
        PROVE  \E q \in LivePc : \E held :
                 /\ ThreadAt(c, q, held)
                 /\ q \in HeldPc => held = sock[c].handle /\ ~sock[c].released
                 /\ q = "wait" => CopyDescriptor(c)
    <2>1. pc \in WorkerPc /\ pc \in LivePc /\ pc \notin HeldPc /\ pc # "wait"
      BY DEF WorkerPc, LivePc, HeldPc
    <2>2. ThreadAt(c, pc, None)
      BY <1>2, <2>1, AtMoves
    <2>3. QED
      BY <2>1, <2>2
  <1>3. ASSUME NEW pc \in HeldPc, Holding(c, pc), ~sock[c].released, pc = "wait" => CopyDescriptor(c)
        PROVE  \E q \in LivePc : \E held :
                 /\ ThreadAt(c, q, held)
                 /\ q \in HeldPc => held = sock[c].handle /\ ~sock[c].released
                 /\ q = "wait" => CopyDescriptor(c)
    <2>1. pc \in WorkerPc /\ pc \in LivePc
      BY DEF WorkerPc, LivePc, HeldPc
    <2>2. ThreadAt(c, pc, sock[c].handle)
      BY <1>3, <2>1, HoldingMoves
    <2>3. QED
      BY <1>3, <2>1, <2>2
  <1>4. CASE OnOpen(c) \/ SendReply(c) \/ SendFails(c)
    <2>1. \E pc \in {"decode", "closing"} : At(c, pc)
      BY <1>4 DEF OnOpen, SendReply, SendFails, FrameDone, NextFrame
    <2>2. QED
      BY <1>1, <1>2, <2>1
  <1>5. CASE Serve(c)
    <2>1. (\E pc \in {"decode", "closing"} : At(c, pc)) \/ (~sock[c].released /\ Holding(c, "send"))
      BY <1>5 DEF Serve, NextFrame
    <2>2. "send" \in HeldPc /\ "send" # "wait"
      BY DEF HeldPc
    <2>3. QED
      BY <1>1, <1>2, <1>3, <2>1, <2>2
  <1>6. CASE BeginShutdownSocket(c)
    <2>1. At(c, "erase") \/ (~sock[c].released /\ Holding(c, "shutting"))
      BY <1>6 DEF BeginShutdownSocket
    <2>2. "shutting" \in HeldPc /\ "shutting" # "wait"
      BY DEF HeldPc
    <2>3. QED
      BY <1>1, <1>2, <1>3, <2>1, <2>2
  <1>7. CASE CopyDescriptor(c)
    <2>1. At(c, "closing") \/ (~sock[c].released /\ Holding(c, "wait"))
      BY <1>7 DEF CopyDescriptor
    <2>2. "wait" \in HeldPc
      BY DEF HeldPc
    <2>3. QED
      BY <1>1, <1>2, <1>3, <1>7, <2>1, <2>2
  <1>8. CASE Deliver(c) \/ Reject(c) \/ Timeout(c) \/ Receive(c) \/ ReceiveEnd(c) \/ ShutdownNative(c)
    <2>1. \E pc \in {"decode", "serve", "closing", "erase"} : At(c, pc)
      BY <1>8 DEF Deliver, Reject, Timeout, Receive, ReceiveEnd, ShutdownNative, AfterEnd
    <2>2. QED
      BY <1>1, <1>2, <2>1
  <1>9. QED
    BY <1>4, <1>5, <1>6, <1>7, <1>8 DEF Serving

\* A file is opened or closed: its number is no connection's, before and after.
LEMMA ElsewhereControl ==
    ASSUME ControlInv, OpenElsewhere \/ CloseElsewhere
    PROVE  ControlInv'
  <1>1. /\ running' = running /\ listening' = listening /\ setup' = setup /\ locked' = locked
        /\ live' = live /\ acceptor' = acceptor /\ stopper' = stopper
        /\ sock' = sock /\ worker' = worker
    BY DEF OpenElsewhere, CloseElsewhere, serverVars, flags
  <1>2. PICK f \in Fd, o \in {Elsewhere, None} :
            owner[f] \in {Elsewhere, None} /\ owner' = [owner EXCEPT ![f] = o]
    BY DEF OpenElsewhere, CloseElsewhere, FreeFd
  <1>3. owner \in [Fd -> Conn \cup {Elsewhere, None}]
    BY DEF ControlInv, ControlTypes
  <1>4. /\ owner' \in [Fd -> Conn \cup {Elsewhere, None}]
        /\ \A g \in Fd : owner[g] \in Conn \/ owner'[g] \in Conn => owner'[g] = owner[g]
    BY <1>2, <1>3, NoneIsNone
  <1>5. ControlTypes'
    BY <1>1, <1>4 DEF ControlInv, ControlTypes
  <1>6. ShutdownInOrder' /\ ThreadsAccountedFor'
    BY <1>1 DEF ControlInv, ShutdownInOrder, ThreadsAccountedFor, Unreleased
  <1>7. ASSUME NEW c \in Conn PROVE DescriptorOf(c)'
    <2>1. DescriptorOf(c) /\ sock[c].handle \in Fd \cup {None}
      BY DEF ControlInv, ControlTypes, Socket
    <2>2. sock[c].handle # None => owner'[sock[c].handle] = c
      BY <1>4, <2>1 DEF DescriptorOf
    <2>3. worker[c].pc \in HeldPc /\ sock[c].released => owner'[worker[c].held] \notin Conn \ {c}
      BY <1>4, <2>1 DEF DescriptorOf
    <2>4. QED
      BY <1>1, <2>1, <2>2, <2>3 DEF DescriptorOf
  <1>8. NoneLost'
    <2>1. ASSUME NEW g \in Fd, owner'[g] \in Conn
          PROVE  sock[owner'[g]].handle = g \/ stopper.closing = g
      BY <1>4, <2>1 DEF ControlInv, NoneLost
    <2>2. ASSUME stopper.closing # None
          PROVE  owner'[stopper.closing] \in live /\ sock[owner'[stopper.closing]].released
      <3>1. stopper.closing \in Fd /\ live \subseteq Conn
        BY <2>2 DEF ControlInv, ControlTypes, ThreadsAccountedFor
      <3>2. owner[stopper.closing] \in live /\ sock[owner[stopper.closing]].released
        BY <2>2 DEF ControlInv, NoneLost
      <3>3. QED
        BY <1>4, <3>1, <3>2
    <2>3. QED
      BY <1>1, <2>1, <2>2 DEF NoneLost
  <1>9. QED
    BY <1>5, <1>6, <1>7, <1>8 DEF ControlInv

\* Every step preserves the control part.
LEMMA NextControl == ControlInv /\ [Next]_vars => ControlInv'
  <1> SUFFICES ASSUME ControlInv, [Next]_vars PROVE ControlInv'
    OBVIOUS
  <1>1. ASSUME NEW s \in Setups, Listen(s) PROVE ControlInv'
    BY <1>1, ListenControl
  <1>2. CASE Shutdown \/ Unlock \/ JoinAcceptor \/ JoinWorkers
    BY <1>2, StopperControl
  <1>3. CASE LockAndClose
    BY <1>3, LockControl
  <1>4. CASE CloseReleased
    BY <1>4, CloseControl
  <1>5. ASSUME NEW c \in Conn, MarkReleased(c) PROVE ControlInv'
    BY <1>5, MarkControl
  <1>6. CASE CheckListener \/ AcceptFails
    BY <1>6, AcceptorControl
  <1>7. CASE Refuse
    BY <1>7, RefuseControl
  <1>8. CASE StartWorker
    BY <1>8, StartWorkerControl
  <1>9. ASSUME NEW c \in Conn, Accept(c) PROVE ControlInv'
    BY <1>9, AcceptControl
  <1>10. ASSUME NEW c \in Conn, Connect(c) PROVE ControlInv'
    BY <1>10, ConnectControl
  <1>11. ASSUME NEW c \in Conn, Send(c) \/ Hangup(c) PROVE ControlInv'
    BY <1>11, ControlUntouched DEF Send, Hangup
  <1>12. ASSUME NEW c \in Conn, Serving(c) PROVE ControlInv'
    <2>1. ControlTypes
      BY DEF ControlInv
    <2>2. /\ worker[c].pc \in LivePc /\ UNCHANGED <<serverVars, sock, owner>>
          /\ \E pc \in LivePc : \E held :
                /\ ThreadAt(c, pc, held)
                /\ pc \in HeldPc => held = sock[c].handle /\ ~sock[c].released
      BY <1>12, <2>1, ServingMoves
    <2>3. QED
      BY <2>2, LiveStep
  <1>13. ASSUME NEW c \in Conn, Erase(c) PROVE ControlInv'
    BY <1>13, EraseControl
  <1>14. ASSUME NEW c \in Conn, Exit(c) PROVE ControlInv'
    BY <1>14, ExitControl
  <1>15. CASE UNCHANGED vars
    BY <1>15, ControlUntouched DEF vars, connVars
  <1>16. CASE OpenElsewhere \/ CloseElsewhere
    BY <1>16, ElsewhereControl
  <1>17. QED
    BY <1>1, <1>2, <1>3, <1>4, <1>5, <1>6, <1>7, <1>8, <1>9, <1>10, <1>11, <1>12, <1>13,
       <1>14, <1>15, <1>16 DEF Next, Client, Acceptor, Worker, Stopper, Serving

-----------------------------------------------------------------------------
(* A stream and the frames cut from it.                                    *)

\* A nonempty set of numbers has a least one.
LEMMA LeastNumber ==
    ASSUME NEW T, T \subseteq Nat, T # {}
    PROVE  \E x \in T : \A y \in T : x <= y
  <1> DEFINE R == OpToRel(<, Nat)
  <1>1. \A a, b \in Nat : <<a, b>> \in R <=> a < b
    BY Zenon DEF OpToRel
  <1>2. IsWellFoundedOn(R, Nat)
    BY NatLessThanWellFounded
  <1> HIDE DEF R
  <1>3. PICK x \in T : \A y \in T : ~(<<y, x>> \in R)
    BY <1>2, WFMin
  <1>4. ASSUME NEW y \in T PROVE x <= y
    <2>1. ~(y < x) /\ x \in Nat /\ y \in Nat
      BY <1>1, <1>3
    <2>2. QED
      BY <2>1
  <1>5. QED
    BY <1>4

\* The script of a client, and the size of a frame.
LEMMA Scripts ==
    ASSUME NEW s \in Setups, NEW c \in Conn
    PROVE  /\ s.script[c] \in Seq(Frame)
           /\ \A n \in 1..Len(s.script[c]) :
                 /\ s.script[c][n].size \in Nat \ {0}
                 /\ s.script[c][n].size <= Header + Envelope + PayloadMax
  <1>1. s.script[c] \in Seq(Frame)
    BY TransportAssumption
  <1>2. \A f \in Frame : f.size \in Nat \ {0} /\ f.size <= Header + Envelope + PayloadMax
    BY TransportAssumption DEF Frame
  <1>3. \A n \in 1..Len(s.script[c]) : s.script[c][n] \in Frame
    BY <1>1, ElementOfSeq
  <1>4. QED
    BY <1>1, <1>2, <1>3

\* The stream a begins with frame n, which has z units, and goes on after it.
FrameAhead(c, sc, a, n, z) ==
    /\ n \in Nat /\ Len(a) \in Nat /\ Chain(c, sc, a, n)
    /\ z \in Nat \ {0} /\ sc[n].size = z /\ z < Len(a)

\* It holds all of the frame before anything else.
LEMMA WholeFrameFirst ==
    ASSUME NEW c, NEW sc, NEW n, NEW a, NEW z, FrameAhead(c, sc, a, n, z)
    PROVE  /\ \A j \in 1..z : a[j] = <<c, n, j>>
           /\ a[z + 1] = <<c, n + 1, 1>>
  <1> USE DEF FrameAhead
  <1>1. /\ a[1] = <<c, n, 1>>
        /\ \A i \in 1..(Len(a) - 1) : a[i + 1] = Follower(c, sc, a[i])
    BY DEF Chain
  <1>2. ASSUME NEW j \in 1..z, a[j] = <<c, n, j>>
        PROVE  a[j + 1] = IF j < z THEN <<c, n, j + 1>> ELSE <<c, n + 1, 1>>
    <2>1. a[j + 1] = Follower(c, sc, a[j])
      BY <1>1
    <2>2. PICK u : u = a[j]
      OBVIOUS
    <2>3. u[1] = c /\ u[2] = n /\ u[3] = j
      BY <1>2, <2>2
    <2>4. QED
      BY <2>1, <2>2, <2>3 DEF Follower
  <1>3. \A j \in 1..z : a[j] = <<c, n, j>>
    <2> DEFINE T == {j \in 1..z : a[j] # <<c, n, j>>}
    <2> SUFFICES ASSUME T # {} PROVE FALSE
      OBVIOUS
    <2>1. T \subseteq Nat
      OBVIOUS
    <2>2. PICK j \in T : \A i \in T : j <= i
      BY <2>1, LeastNumber, Zenon
    <2>3. j \in 1..z /\ a[j] # <<c, n, j>>
      OBVIOUS
    <2>4. j # 1
      BY <1>1, <2>3
    <2>5. PICK m \in 1..z : j = m + 1
      BY <2>3, <2>4
    <2>6. m \notin T
      BY <2>2, <2>5
    <2>7. a[m] = <<c, n, m>> /\ m < z
      BY <2>3, <2>5, <2>6
    <2>8. a[m + 1] = <<c, n, m + 1>>
      BY <1>2, <2>7
    <2>9. QED
      BY <2>3, <2>5, <2>8
  <1>4. a[z + 1] = <<c, n + 1, 1>>
    <2>1. z \in 1..z /\ ~(z < z)
      OBVIOUS
    <2>2. QED
      BY <1>2, <1>3, <2>1
  <1>5. QED
    BY <1>3, <1>4

\* What is left of a sequence behind its first z elements.
Behind(r, s, z) == Len(r) = Len(s) - z /\ \A i \in 1..Len(r) : r[i] = s[i + z]

\* Once it is taken the stream goes on with the next frame.
LEMMA FrameTaken ==
    ASSUME NEW c, NEW sc, NEW n, NEW a, NEW z, FrameAhead(c, sc, a, n, z),
           NEW b, Behind(b, a, z)
    PROVE  Chain(c, sc, b, n + 1)
  <1> USE DEF Behind
  <1>1. n \in Nat /\ Len(a) \in Nat /\ z \in Nat \ {0} /\ z < Len(a) /\ Chain(c, sc, a, n)
    BY DEF FrameAhead
  <1>2. b[1] = <<c, n + 1, 1>>
    <2>1. /\ \A j \in 1..z : a[j] = <<c, n, j>>
          /\ a[z + 1] = <<c, n + 1, 1>>
      BY WholeFrameFirst
    <2>2. 1 \in 1..Len(b) /\ 1 + z = z + 1
      BY <1>1
    <2>3. QED
      BY <2>1, <2>2
  <1>3. ASSUME NEW i \in 1..(Len(b) - 1) PROVE b[i + 1] = Follower(c, sc, b[i])
    <2>1. PICK k \in 1..(Len(a) - 1) : k = i + z
      BY <1>1
    <2>2. a[k + 1] = Follower(c, sc, a[k])
      BY <1>1 DEF Chain
    <2>3. b[i + 1] = a[(i + 1) + z] /\ b[i] = a[i + z] /\ k + 1 = (i + 1) + z
      BY <1>1, <2>1
    <2>4. QED
      BY <2>1, <2>2, <2>3
  <1>4. QED
    BY <1>2, <1>3 DEF Chain

\* a ends with u, and b is a with x behind it.
Longer(a, u, b, x) ==
    /\ Len(a) \in Nat \ {0} /\ Len(b) = Len(a) + 1
    /\ \A i \in 1..Len(a) : b[i] = a[i]
    /\ a[Len(a)] = u /\ b[Len(b)] = x

\* The client sends what follows the last unit.
LEMMA ChainGrows ==
    ASSUME NEW c, NEW sc, NEW n, NEW a, Chain(c, sc, a, n), NEW u, NEW b,
           Longer(a, u, b, Follower(c, sc, u))
    PROVE  Chain(c, sc, b, n)
  <1> USE DEF Longer
  <1>1. b[1] = <<c, n, 1>>
    BY DEF Chain
  <1>2. ASSUME NEW i \in 1..(Len(b) - 1) PROVE b[i + 1] = Follower(c, sc, b[i])
    <2>1. CASE i = Len(a)
      BY <2>1
    <2>2. CASE i # Len(a)
      <3>1. i \in 1..(Len(a) - 1) /\ i + 1 \in 1..Len(a) /\ i \in 1..Len(a)
        BY <2>2
      <3>2. a[i + 1] = Follower(c, sc, a[i])
        BY <3>1 DEF Chain
      <3>3. QED
        BY <3>1, <3>2
    <2>3. QED
      BY <2>1, <2>2
  <1>3. QED
    BY <1>1, <1>2 DEF Chain

\* a is s, then w, then x.
Spliced(a, s, w, x) ==
    /\ Len(a) = Len(s) + Len(w) + 1
    /\ \A i \in 1..Len(s) : a[i] = s[i]
    /\ \A i \in 1..Len(w) : a[i + Len(s)] = w[i]
    /\ a[Len(s) + Len(w) + 1] = x

\* The units of two pieces of a stream and one more.
LEMMA Pieces ==
    ASSUME NEW T, NEW s \in Seq(T), NEW w \in Seq(T), NEW x \in T
    PROVE  Spliced(Append(s \o w, x), s, w, x)
  <1>1. PICK v : v = s \o w
    OBVIOUS
  <1>2. /\ v \in Seq(T) /\ Len(v) = Len(s) + Len(w)
        /\ \A i \in 1 .. Len(s) + Len(w) : v[i] = IF i <= Len(s) THEN s[i] ELSE w[i - Len(s)]
    BY <1>1, ConcatProperties
  <1>3. Len(s) \in Nat /\ Len(w) \in Nat
    BY LenProperties
  <1>4. /\ Append(v, x) \in Seq(T) /\ Len(Append(v, x)) = Len(v) + 1
        /\ \A i \in 1 .. Len(v) : Append(v, x)[i] = v[i]
        /\ Append(v, x)[Len(v) + 1] = x
    <2>1. v \in Seq(T)
      BY <1>2
    <2>2. QED
      BY <2>1, AppendProperties
  <1>5. \A i \in 1..Len(s) : Append(v, x)[i] = s[i]
    BY <1>2, <1>3, <1>4
  <1>6. ASSUME NEW i \in 1..Len(w) PROVE Append(v, x)[i + Len(s)] = w[i]
    <2>1. Len(v) = Len(s) + Len(w)
      BY <1>2
    <2>2. PICK j \in Nat : j = i + Len(s)
      BY <1>3
    <2>3. j \in 1..Len(v) /\ ~(j <= Len(s)) /\ j - Len(s) = i
      BY <1>3, <2>1, <2>2
    <2>4. Append(v, x)[j] = v[j] /\ v[j] = w[j - Len(s)]
      BY <1>2, <1>4, <2>1, <2>3
    <2>5. QED
      BY <2>2, <2>3, <2>4
  <1>7. QED
    BY <1>1, <1>2, <1>4, <1>5, <1>6 DEF Spliced

\* A script the decoder can make sense of.
Sized(sc) == /\ Len(sc) \in Nat
             /\ \A n \in 1..Len(sc) : /\ sc[n].size \in Nat \ {0}
                                      /\ sc[n].size <= Header + Envelope + PayloadMax

\* Any unit of a client's stream, and the parts of a stream.
AnyUnit(c) == {c} \X Nat \X Nat

\* The stream of a connection, unit by unit.
LEMMA StreamUnits ==
    ASSUME NEW c, NEW sc, NEW l, l \in LinkTypes(c, sc)
    PROVE  /\ l.buffer \in Seq(AnyUnit(c)) /\ l.wire \in Seq(AnyUnit(c))
           /\ <<c, l.next[1], l.next[2]>> \in AnyUnit(c)
           /\ l.next[1] \in Nat \ {0} /\ l.next[2] \in Nat \ {0}
           /\ l.buffer \in Seq(Sendable(c, sc)) /\ l.wire \in Seq(Sendable(c, sc))
           /\ Len(l.buffer) \in Nat /\ Len(l.wire) \in Nat
           /\ l.delivered \in Seq(Nat) /\ Len(l.delivered) \in Nat
           /\ l.peer \in {"open", "closed"} /\ l.ended \in BOOLEAN
  <1>1. /\ l.buffer \in Seq(Sendable(c, sc)) /\ l.wire \in Seq(Sendable(c, sc))
        /\ l.next \in (Nat \ {0}) \X (Nat \ {0}) /\ l.delivered \in Seq(Nat)
        /\ l.peer \in {"open", "closed"} /\ l.ended \in BOOLEAN
    BY DEF LinkTypes
  <1>2. Sendable(c, sc) \subseteq AnyUnit(c)
    BY DEF Sendable, AnyUnit
  <1>3. l.buffer \in Seq(AnyUnit(c)) /\ l.wire \in Seq(AnyUnit(c))
    BY <1>1, <1>2, SeqMonotonic
  <1>4. l.next[1] \in Nat \ {0} /\ l.next[2] \in Nat \ {0}
    BY <1>1
  <1>5. <<c, l.next[1], l.next[2]>> \in AnyUnit(c)
    BY <1>4 DEF AnyUnit
  <1>6. QED
    BY <1>1, <1>3, <1>4, <1>5, LenProperties

\* One more unit at the end of what is in flight.
LEMMA OneMoreUnit ==
    ASSUME NEW T, NEW s \in Seq(T), NEW w \in Seq(T), NEW u \in T, NEW x \in T,
           NEW a, a = Append(s \o w, u), NEW b, b = Append(s \o Append(w, u), x)
    PROVE  Longer(a, u, b, x)
  <1>1. <<u>> \in Seq(T)
    OBVIOUS
  <1>2. PICK v : v = s \o w
    OBVIOUS
  <1>3. v \in Seq(T)
    BY <1>2, ConcatProperties
  <1>4. Append(w, u) = w \o <<u>> /\ Append(v, u) = v \o <<u>>
    BY <1>3, AppendIsConcat
  <1>5. s \o (w \o <<u>>) = (s \o w) \o <<u>>
    BY <1>1, ConcatAssociative
  <1>6. a = Append(v, u) /\ b = Append(a, x)
    BY <1>2, <1>4, <1>5
  <1>7. /\ a \in Seq(T) /\ Len(a) = Len(v) + 1 /\ a[Len(v) + 1] = u
    BY <1>3, <1>6, AppendProperties
  <1>8. /\ Len(b) = Len(a) + 1 /\ (\A i \in 1..Len(a) : b[i] = a[i]) /\ b[Len(a) + 1] = x
    BY <1>6, <1>7, AppendProperties
  <1>9. Len(v) \in Nat
    BY <1>3, LenProperties
  <1>10. QED
    BY <1>7, <1>8, <1>9 DEF Longer

\* A link after its client sent its next unit.
NextPlace(sc, n, k) == IF k < sc[n].size THEN <<n, k + 1>> ELSE <<n + 1, 1>>
Sent(c, sc, l) == [l EXCEPT !.next = NextPlace(sc, l.next[1], l.next[2]),
                            !.wire = Append(l.wire, <<c, l.next[1], l.next[2]>>)]

\* The client sends its next unit.
LEMMA FlowSends ==
    ASSUME NEW c, NEW sc, NEW l, Sized(sc), Flowing(c, sc, l), l.next[1] <= Len(sc)
    PROVE  Flowing(c, sc, Sent(c, sc, l)) /\ Sent(c, sc, l).buffer = l.buffer
  <1>1. PICK q, m : q = NextPlace(sc, l.next[1], l.next[2]) /\ m = Sent(c, sc, l)
    OBVIOUS
  <1> DEFINE n == l.next[1]
             k == l.next[2]
             u == <<c, n, k>>
             w == Append(l.wire, u)
  <1>2. l \in LinkTypes(c, sc) /\ Chain(c, sc, AheadOf(c, l), Len(l.delivered) + 1)
    BY DEF Flowing
  <1>3. /\ l.buffer \in Seq(AnyUnit(c)) /\ l.wire \in Seq(AnyUnit(c)) /\ u \in AnyUnit(c)
        /\ n \in Nat \ {0} /\ k \in Nat \ {0} /\ l.wire \in Seq(Sendable(c, sc))
        /\ l.buffer \in Seq(Sendable(c, sc))
        /\ Len(l.buffer) \in Nat /\ Len(l.wire) \in Nat /\ Len(l.delivered) \in Nat
        /\ l.delivered \in Seq(Nat)
    BY <1>2, StreamUnits
  <1>4. n \in 1..Len(sc) /\ k <= sc[n].size /\ sc[n].size \in Nat \ {0}
    BY <1>3 DEF Flowing, Sized
  <1>5. u \in Sendable(c, sc)
    BY <1>3, <1>4 DEF Sendable
  <1> HIDE DEF n, k, u
  <1>6. w \in Seq(Sendable(c, sc)) /\ w \in Seq(AnyUnit(c)) /\ Len(w) = Len(l.wire) + 1
        /\ (\A i \in 1..Len(l.wire) : w[i] = l.wire[i]) /\ w[Len(l.wire) + 1] = u
    BY <1>3, <1>5, AppendProperties
  <1> HIDE DEF w
  <1>7. /\ q \in (Nat \ {0}) \X (Nat \ {0})
        /\ q = IF k < sc[n].size THEN <<n, k + 1>> ELSE <<n + 1, 1>>
    <2>1. q = IF k < sc[n].size THEN <<n, k + 1>> ELSE <<n + 1, 1>>
      BY <1>1 DEF n, k, NextPlace
    <2>2. n + 1 \in Nat \ {0} /\ k + 1 \in Nat \ {0} /\ 1 \in Nat \ {0}
      BY <1>3
    <2>3. QED
      BY <2>1, <2>2, <1>3
  <1>8. m = [l EXCEPT !.next = q, !.wire = w]
    BY <1>1 DEF w, u, n, k, Sent
  <1>9. m \in LinkTypes(c, sc)
    <2>1. w \in Seq(Sendable(c, sc)) /\ q \in (Nat \ {0}) \X (Nat \ {0})
      BY <1>6, <1>7
    <2>2. QED
      BY <1>2, <1>8, <2>1 DEF LinkTypes
  <1>10. m.next = q /\ m.wire = w /\ m.buffer = l.buffer /\ m.delivered = l.delivered
    BY <1>2, <1>8 DEF LinkTypes
  <1>11. q[1] <= Len(sc) => q[2] <= sc[q[1]].size
    <2>1. CASE k < sc[n].size
      <3>1. q[1] = n /\ q[2] = k + 1
        BY <1>7, <2>1
      <3>2. QED
        BY <1>3, <1>4, <2>1, <3>1
    <2>2. CASE ~(k < sc[n].size)
      <3>1. q[1] = n + 1 /\ q[2] = 1
        BY <1>7, <2>2
      <3>2. n + 1 <= Len(sc) => n + 1 \in 1..Len(sc)
        BY <1>3 DEF Sized
      <3>3. n + 1 <= Len(sc) => sc[n + 1].size \in Nat \ {0}
        BY <3>2 DEF Sized
      <3>4. QED
        BY <3>1, <3>3
    <2>3. QED
      BY <2>1, <2>2
  <1> DEFINE x == <<c, q[1], q[2]>>
             a == AheadOf(c, l)
             b == AheadOf(c, m)
  <1>12. x \in AnyUnit(c) /\ x = Follower(c, sc, u)
    <2>1. q[1] \in Nat /\ q[2] \in Nat
      BY <1>7
    <2>2. u[1] = c /\ u[2] = n /\ u[3] = k
      BY DEF u
    <2>3. x = IF k < sc[n].size THEN <<c, n, k + 1>> ELSE <<c, n + 1, 1>>
      BY <1>7
    <2>4. QED
      BY <2>1, <2>2, <2>3 DEF Follower, AnyUnit
  <1>13. a = Append(l.buffer \o l.wire, u) /\ b = Append(l.buffer \o w, x)
    BY <1>10 DEF AheadOf, u, n, k
  <1>14. Chain(c, sc, a, Len(l.delivered) + 1)
    BY <1>2
  <1> HIDE DEF a, b, x
  <1>15. Longer(a, u, b, x)
    <2>1. PICK s, v : s = l.buffer /\ v = l.wire
      OBVIOUS
    <2>2. s \in Seq(AnyUnit(c)) /\ v \in Seq(AnyUnit(c)) /\ u \in AnyUnit(c) /\ x \in AnyUnit(c)
      BY <1>3, <1>12, <2>1
    <2>3. a = Append(s \o v, u) /\ b = Append(s \o Append(v, u), x)
      BY <1>13, <2>1 DEF w
    <2>4. QED
      BY <2>2, <2>3, OneMoreUnit
  <1>16. Chain(c, sc, b, Len(l.delivered) + 1)
    BY <1>12, <1>14, <1>15, ChainGrows
  <1>17. QED
    BY <1>1, <1>9, <1>10, <1>11, <1>16 DEF Flowing, b

\* A piece of a sequence.
LEMMA Piece ==
    ASSUME NEW T, NEW w \in Seq(T), NEW j \in 1..(Len(w) + 1), NEW k \in Nat, k <= Len(w), j <= k + 1
    PROVE  /\ SubSeq(w, j, k) \in Seq(T)
           /\ Len(SubSeq(w, j, k)) = (k - j) + 1
           /\ \A i \in 1..((k - j) + 1) : SubSeq(w, j, k)[i] = w[(j + i) - 1]
  <1>1. Len(w) \in Nat
    BY LenProperties
  <1>2. \A i \in j..k : i \in 1..Len(w)
    BY <1>1
  <1>3. \A i \in j..k : w[i] \in T
    BY <1>2, ElementOfSeq
  <1>4. j \in Int /\ k \in Int
    BY <1>1
  <1>5. /\ SubSeq(w, j, k) \in Seq(T)
        /\ Len(SubSeq(w, j, k)) = IF j <= k THEN k - j + 1 ELSE 0
        /\ \A i \in 1 .. k - j + 1 : SubSeq(w, j, k)[i] = w[j + i - 1]
    BY <1>3, <1>4, SubSeqProperties
  <1>6. QED
    BY <1>4, <1>5

\* A piece moves from the second part of a stream to the first.
LEMMA Regrouped ==
    ASSUME NEW T, NEW s \in Seq(T), NEW w \in Seq(T), NEW k \in Nat, k <= Len(w)
    PROVE  (s \o SubSeq(w, 1, k)) \o SubSeq(w, k + 1, Len(w)) = s \o w
  <1>1. Len(w) \in Nat
    BY LenProperties
  <1>2. PICK p, r : p = SubSeq(w, 1, k) /\ r = SubSeq(w, k + 1, Len(w))
    OBVIOUS
  <1>3. p \in Seq(T) /\ r \in Seq(T)
    <2>1. /\ 1 \in 1..(Len(w) + 1) /\ 1 <= k + 1
          /\ k + 1 \in 1..(Len(w) + 1) /\ Len(w) <= Len(w) /\ k + 1 <= Len(w) + 1
      BY <1>1
    <2>2. p \in Seq(T)
      BY <1>2, <2>1, Piece
    <2>3. r \in Seq(T)
      BY <1>1, <1>2, <2>1, Piece
    <2>4. QED
      BY <2>2, <2>3
  <1>4. p \o r = w
    <2>1. 1 \in 1 .. Len(w) + 1 /\ k \in 1 - 1 .. Len(w) /\ Len(w) \in k .. Len(w)
      BY <1>1
    <2>2. p \o r = SubSeq(w, 1, Len(w))
      BY <1>2, <2>1, ConcatAdjacentSubSeq
    <2>3. QED
      BY <2>2, SubSeqFull
  <1>5. (s \o p) \o r = s \o (p \o r)
    <2>1. s \in Seq(T) /\ p \in Seq(T) /\ r \in Seq(T)
      BY <1>3
    <2>2. QED
      BY ONLY <2>1, ConcatAssociative
  <1>6. QED
    BY <1>2, <1>4, <1>5, Zenon

\* A link after k units were read from it.
Received(l, k) == [l EXCEPT !.buffer = l.buffer \o SubSeq(l.wire, 1, k),
                            !.wire = SubSeq(l.wire, k + 1, Len(l.wire))]

\* Units move from the connection to the buffer.
LEMMA FlowReceives ==
    ASSUME NEW c, NEW sc, NEW l, Flowing(c, sc, l), NEW k \in Nat \ {0}, k <= Len(l.wire)
    PROVE  Flowing(c, sc, Received(l, k)) /\ Len(Received(l, k).buffer) = Len(l.buffer) + k
  <1>1. PICK m : m = Received(l, k)
    OBVIOUS
  <1>2. l \in LinkTypes(c, sc)
    BY DEF Flowing
  <1>3. PICK w, s : w = l.wire /\ s = l.buffer
    OBVIOUS
  <1>4. w \in Seq(Sendable(c, sc)) /\ s \in Seq(Sendable(c, sc)) /\ Len(w) \in Nat /\ k <= Len(w)
    BY <1>2, <1>3, StreamUnits
  <1>5. PICK p, r : p = SubSeq(w, 1, k) /\ r = SubSeq(w, k + 1, Len(w))
    OBVIOUS
  <1>6. p \in Seq(Sendable(c, sc)) /\ Len(p) = k
    <2>1. 1 \in 1..(Len(w) + 1) /\ 1 <= k + 1 /\ (k - 1) + 1 = k
      BY <1>4
    <2>2. QED
      BY <1>4, <1>5, <2>1, Piece
  <1>7. r \in Seq(Sendable(c, sc))
    <2>1. k + 1 \in 1..(Len(w) + 1) /\ Len(w) <= Len(w) /\ k + 1 <= Len(w) + 1
      BY <1>4
    <2>2. QED
      BY <1>4, <1>5, <2>1, Piece
  <1>8. PICK b : b = s \o p
    OBVIOUS
  <1>9. b \in Seq(Sendable(c, sc)) /\ Len(b) = Len(s) + k
    <2>1. s \in Seq(Sendable(c, sc)) /\ p \in Seq(Sendable(c, sc)) /\ Len(p) = k
      BY <1>4, <1>6
    <2>2. s \o p \in Seq(Sendable(c, sc)) /\ Len(s \o p) = Len(s) + Len(p)
      BY ONLY <2>1, ConcatProperties
    <2>3. QED
      BY <1>8, <2>1, <2>2, Zenon
  <1>10. b \o r = s \o w
    <2>1. (s \o SubSeq(w, 1, k)) \o SubSeq(w, k + 1, Len(w)) = s \o w
      BY <1>4, Regrouped
    <2>2. QED
      BY <2>1, <1>5, <1>8, Zenon
  <1>11. m = [l EXCEPT !.buffer = b, !.wire = r]
    BY <1>1, <1>3, <1>5, <1>8 DEF Received
  <1>12. m \in LinkTypes(c, sc)
    BY <1>2, <1>7, <1>9, <1>11 DEF LinkTypes
  <1>13. m.buffer = b /\ m.wire = r /\ m.next = l.next /\ m.delivered = l.delivered
    BY <1>2, <1>11 DEF LinkTypes
  <1>14. AheadOf(c, m) = AheadOf(c, l)
    BY <1>3, <1>10, <1>13 DEF AheadOf
  <1>15. QED
    BY <1>1, <1>3, <1>9, <1>12, <1>13, <1>14 DEF Flowing

\* A link with one of its sides ended.
EndOf(l, m) == m = [l EXCEPT !.peer = "closed"] \/ \E e \in BOOLEAN : m = [l EXCEPT !.ended = e]

\* The end of a stream, on either side.
LEMMA FlowEnds ==
    ASSUME NEW c, NEW sc, NEW l, Flowing(c, sc, l), NEW m, EndOf(l, m)
    PROVE  Flowing(c, sc, m) /\ m.buffer = l.buffer
  <1>1. l \in LinkTypes(c, sc)
    BY DEF Flowing
  <1>2. m \in LinkTypes(c, sc)
    BY <1>1 DEF LinkTypes, EndOf
  <1>3. m.buffer = l.buffer /\ m.wire = l.wire /\ m.next = l.next /\ m.delivered = l.delivered
    BY <1>1 DEF LinkTypes, EndOf
  <1>4. AheadOf(c, m) = AheadOf(c, l)
    BY <1>3 DEF AheadOf
  <1>5. QED
    BY <1>2, <1>3, <1>4 DEF Flowing

\* The same as SubSeq.
LEMMA TakenFrom ==
    ASSUME NEW T, NEW s \in Seq(T), NEW z \in Nat, z <= Len(s)
    PROVE  SubSeq(s, z + 1, Len(s)) \in Seq(T) /\ Behind(SubSeq(s, z + 1, Len(s)), s, z)
  <1>1. Len(s) \in Nat
    BY LenProperties
  <1>2. PICK r : r = SubSeq(s, z + 1, Len(s))
    OBVIOUS
  <1>3. /\ r \in Seq(T) /\ Len(r) = (Len(s) - (z + 1)) + 1
        /\ \A i \in 1..((Len(s) - (z + 1)) + 1) : r[i] = s[((z + 1) + i) - 1]
    <2>1. z + 1 \in 1..(Len(s) + 1) /\ Len(s) <= Len(s) /\ z + 1 <= Len(s) + 1
      BY <1>1
    <2>2. QED
      BY <1>1, <1>2, <2>1, Piece
  <1>4. Len(r) = Len(s) - z
    BY <1>1, <1>3
  <1>5. ASSUME NEW i \in 1..Len(r) PROVE r[i] = s[i + z]
    <2>1. i \in 1..((Len(s) - (z + 1)) + 1) /\ ((z + 1) + i) - 1 = i + z
      BY <1>1, <1>4
    <2>2. QED
      BY <1>3, <2>1
  <1>6. QED
    BY <1>2, <1>3, <1>4, <1>5 DEF Behind

\* z units are taken from the first of two pieces: the stream is behind them.
LEMMA RestOfPieces ==
    ASSUME NEW s, NEW w, Len(s) \in Nat, Len(w) \in Nat, NEW x, NEW z \in Nat, z <= Len(s),
           NEW r, Behind(r, s, z), NEW a, Spliced(a, s, w, x), NEW b, Spliced(b, r, w, x)
    PROVE  Behind(b, a, z) /\ Len(a) \in Nat /\ z < Len(a)
  <1>1. Len(r) = Len(s) - z /\ \A i \in 1..Len(r) : r[i] = s[i + z]
    BY DEF Behind
  <1>2. /\ Len(a) = Len(s) + Len(w) + 1
        /\ \A i \in 1..Len(s) : a[i] = s[i]
        /\ \A i \in 1..Len(w) : a[i + Len(s)] = w[i]
        /\ a[Len(s) + Len(w) + 1] = x
    BY DEF Spliced
  <1>3. /\ Len(b) = Len(r) + Len(w) + 1
        /\ \A i \in 1..Len(r) : b[i] = r[i]
        /\ \A i \in 1..Len(w) : b[i + Len(r)] = w[i]
        /\ b[Len(r) + Len(w) + 1] = x
    BY DEF Spliced
  <1>4. PICK p \in Nat : p = Len(r)
    <2>1. Len(s) - z \in Nat
      OBVIOUS
    <2>2. QED
      BY <1>1, <2>1, Zenon
  <1>5. Len(b) = Len(a) - z /\ Len(b) = p + Len(w) + 1 /\ p = Len(s) - z
    <2>1. Len(r) = Len(s) - z /\ Len(a) = Len(s) + Len(w) + 1 /\ Len(b) = Len(r) + Len(w) + 1
      BY <1>1, <1>2, <1>3
    <2>2. QED
      BY <1>4, <2>1
  <1>6. ASSUME NEW i \in 1..Len(b) PROVE b[i] = a[i + z]
    <2>1. CASE i <= Len(r)
      <3>1. i \in 1..Len(r) /\ i + z \in 1..Len(s)
        BY <1>1, <2>1
      <3>2. QED
        BY <1>1, <1>2, <1>3, <3>1
    <2>2. CASE i > Len(r) /\ i <= Len(r) + Len(w)
      <3>1. PICK j \in 1..Len(w) : i = j + Len(r)
        <4>1. i - p \in 1..Len(w) /\ i = (i - p) + p
          BY <1>4, <1>5, <2>2
        <4>2. QED
          BY <1>4, <4>1
      <3>2. i + z = j + Len(s)
        BY <1>1, <3>1
      <3>3. b[i] = w[j] /\ a[j + Len(s)] = w[j]
        BY <1>2, <1>3, <3>1
      <3>4. QED
        BY <3>2, <3>3
    <2>3. CASE i = Len(r) + Len(w) + 1
      <3>1. i + z = Len(s) + Len(w) + 1
        BY <1>1, <2>3
      <3>2. QED
        BY <1>2, <1>3, <2>3, <3>1
    <2>4. i <= Len(r) \/ (i > Len(r) /\ i <= Len(r) + Len(w)) \/ i = Len(r) + Len(w) + 1
      BY <1>4, <1>5
    <2>5. QED
      BY <2>1, <2>2, <2>3, <2>4
  <1>7. Len(a) \in Nat /\ z < Len(a)
    BY <1>2
  <1>8. QED
    BY <1>5, <1>6, <1>7 DEF Behind

\* The stream of a connection begins where the delivered frames end.
LEMMA FrontOfStream ==
    ASSUME NEW c, NEW sc, NEW l, Sized(sc), Flowing(c, sc, l), Len(l.buffer) > 0
    PROVE  /\ l.buffer[1] = <<c, Len(l.delivered) + 1, 1>>
           /\ Len(l.delivered) + 1 \in 1..Len(sc)
           /\ Spliced(AheadOf(c, l), l.buffer, l.wire, <<c, l.next[1], l.next[2]>>)
  <1>1. l \in LinkTypes(c, sc) /\ Chain(c, sc, AheadOf(c, l), Len(l.delivered) + 1)
    BY DEF Flowing
  <1>2. /\ l.buffer \in Seq(AnyUnit(c)) /\ l.wire \in Seq(AnyUnit(c))
        /\ <<c, l.next[1], l.next[2]>> \in AnyUnit(c)
        /\ l.buffer \in Seq(Sendable(c, sc)) /\ Len(l.buffer) \in Nat
    BY <1>1, StreamUnits
  <1>3. Spliced(AheadOf(c, l), l.buffer, l.wire, <<c, l.next[1], l.next[2]>>)
    BY <1>2, Pieces DEF AheadOf
  <1>4. 1 \in 1..Len(l.buffer)
    BY <1>2
  <1>5. l.buffer[1] = <<c, Len(l.delivered) + 1, 1>>
    BY <1>1, <1>3, <1>4 DEF Spliced, Chain
  <1>6. l.buffer[1] \in Sendable(c, sc)
    BY <1>2, <1>4, ElementOfSeq
  <1>7. Len(l.delivered) + 1 \in 1..Len(sc)
    BY <1>5, <1>6 DEF Sendable
  <1>8. QED
    BY <1>3, <1>5, <1>7

\* One more frame is delivered.
LEMMA OneMoreFrame ==
    ASSUME NEW d \in Seq(Nat), d = [k \in 1..Len(d) |-> k], NEW e, e = Append(d, Len(d) + 1)
    PROVE  e \in Seq(Nat) /\ Len(e) = Len(d) + 1 /\ e = [k \in 1..Len(e) |-> k]
  <1>1. Len(d) \in Nat
    BY LenProperties
  <1>2. PICK n \in Nat : n = Len(d) + 1
    BY <1>1
  <1>3. /\ e \in Seq(Nat) /\ Len(e) = Len(d) + 1
        /\ \A i \in 1 .. Len(d) : e[i] = d[i]
        /\ e[Len(d) + 1] = n
    BY <1>2, AppendProperties
  <1>4. \A i \in 1..Len(d) : d[i] = i
    OBVIOUS
  <1>5. \A i \in 1..Len(e) : e[i] = i
    BY <1>1, <1>2, <1>3, <1>4
  <1>6. e \in [1..Len(e) -> Nat]
    BY <1>3, LenProperties
  <1>7. e = [k \in 1..Len(e) |-> k]
    BY <1>5, <1>6
  <1>8. QED
    BY <1>3, <1>7

\* A link after the frame n of z units was cut from it.
Cut(l, n, z) == [l EXCEPT !.buffer = SubSeq(l.buffer, z + 1, Len(l.buffer)),
                          !.delivered = Append(l.delivered, n)]

\* A frame is cut from the buffer.
LEMMA FlowDelivers ==
    ASSUME NEW c, NEW sc, NEW l, Sized(sc), Flowing(c, sc, l), Len(l.buffer) > 0,
           NEW n, n = l.buffer[1][2], NEW z, z = sc[n].size, z <= Len(l.buffer)
    PROVE  Flowing(c, sc, Cut(l, n, z)) /\ Len(Cut(l, n, z).buffer) <= Len(l.buffer)
  <1>1. PICK m : m = Cut(l, n, z)
    OBVIOUS
  <1>2. l \in LinkTypes(c, sc) /\ Chain(c, sc, AheadOf(c, l), Len(l.delivered) + 1)
    BY DEF Flowing
  <1>3. PICK s, w, d, u : s = l.buffer /\ w = l.wire /\ d = l.delivered /\ u = <<c, l.next[1], l.next[2]>>
    OBVIOUS
  <1>4. /\ s \in Seq(AnyUnit(c)) /\ w \in Seq(AnyUnit(c)) /\ u \in AnyUnit(c)
        /\ s \in Seq(Sendable(c, sc)) /\ Len(s) \in Nat /\ Len(w) \in Nat
        /\ d \in Seq(Nat) /\ Len(d) \in Nat
    BY <1>2, <1>3, StreamUnits
  <1>5. /\ s[1] = <<c, Len(d) + 1, 1>> /\ Len(d) + 1 \in 1..Len(sc)
        /\ Spliced(AheadOf(c, l), s, w, u)
    BY <1>3, FrontOfStream
  <1>6. n = Len(d) + 1 /\ n \in Nat /\ n \in 1..Len(sc)
    BY <1>3, <1>4, <1>5
  <1>7. z \in Nat \ {0} /\ z <= Len(s)
    BY <1>3, <1>6 DEF Sized
  <1>8. PICK r, e : r = SubSeq(s, z + 1, Len(s)) /\ e = Append(d, n)
    OBVIOUS
  <1>9. r \in Seq(Sendable(c, sc)) /\ r \in Seq(AnyUnit(c)) /\ Behind(r, s, z)
    BY <1>4, <1>7, <1>8, TakenFrom
  <1>10. d = [k \in 1..Len(d) |-> k]
    BY <1>3 DEF Flowing
  <1>11. e \in Seq(Nat) /\ Len(e) = n /\ e = [k \in 1..Len(e) |-> k]
    BY <1>4, <1>6, <1>8, <1>10, OneMoreFrame
  <1>12. m = [l EXCEPT !.buffer = r, !.delivered = e]
    BY <1>1, <1>3, <1>8 DEF Cut
  <1>13. m \in LinkTypes(c, sc)
    BY <1>2, <1>9, <1>11, <1>12 DEF LinkTypes
  <1>14. m.buffer = r /\ m.wire = w /\ m.next = l.next /\ m.delivered = e
    BY <1>2, <1>3, <1>12 DEF LinkTypes
  <1>15. Spliced(AheadOf(c, m), r, w, u)
    BY <1>3, <1>4, <1>9, <1>14, Pieces DEF AheadOf
  <1>16. Behind(AheadOf(c, m), AheadOf(c, l), z) /\ Len(AheadOf(c, l)) \in Nat /\ z < Len(AheadOf(c, l))
    BY <1>4, <1>5, <1>7, <1>9, <1>15, RestOfPieces
  <1>17. FrameAhead(c, sc, AheadOf(c, l), n, z)
    BY <1>2, <1>3, <1>6, <1>7, <1>16 DEF FrameAhead
  <1>18. Chain(c, sc, AheadOf(c, m), n + 1)
    BY <1>16, <1>17, FrameTaken
  <1>19. Len(r) <= Len(s)
    BY <1>4, <1>7, <1>9 DEF Behind
  <1>20. QED
    BY <1>1, <1>3, <1>11, <1>13, <1>14, <1>18, <1>19 DEF Flowing

\* A new stream has its first unit ahead of it.
LEMMA FlowBegins ==
    ASSUME NEW c, NEW sc, Sized(sc)
    PROVE  Flowing(c, sc, Fresh) /\ Len(Fresh.buffer) = 0
  <1>1. /\ Fresh.buffer = <<>> /\ Fresh.wire = <<>> /\ Fresh.next = <<1, 1>>
        /\ Fresh.delivered = <<>>
    BY DEF Fresh
  <1>2. Fresh \in LinkTypes(c, sc)
    BY DEF Fresh, LinkTypes
  <1>3. PICK u : u = <<c, 1, 1>>
    OBVIOUS
  <1>4. PICK a : a = AheadOf(c, Fresh)
    OBVIOUS
  <1>5. <<>> \in Seq({u}) /\ u \in {u} /\ Len(<<>>) = 0
    OBVIOUS
  <1>6. Spliced(Append(<<>> \o <<>>, u), <<>>, <<>>, u)
    BY <1>5, Pieces
  <1>7. a = Append(<<>> \o <<>>, u)
    BY <1>1, <1>3, <1>4 DEF AheadOf
  <1>8. Len(a) = 1 /\ a[1] = u
    BY <1>5, <1>6, <1>7 DEF Spliced
  <1>9. Chain(c, sc, a, 1)
    BY <1>3, <1>8 DEF Chain
  <1>10. <<>> = [k \in 1..0 |-> k]
    OBVIOUS
  <1>11. Fresh.next[1] = 1 /\ Fresh.next[2] = 1 /\ Len(Fresh.delivered) = 0
    BY <1>1
  <1>12. 1 <= Len(sc) => 1 <= sc[1].size
    <2>1. 1 <= Len(sc) => 1 \in 1..Len(sc)
      BY DEF Sized
    <2>2. QED
      BY <2>1 DEF Sized
  <1> HIDE DEF Fresh
  <1>13. Fresh.delivered = [k \in 1..Len(Fresh.delivered) |-> k]
    BY <1>1, <1>10, <1>11
  <1>14. Chain(c, sc, AheadOf(c, Fresh), Len(Fresh.delivered) + 1)
    BY <1>4, <1>9, <1>11
  <1>15. QED
    BY <1>1, <1>2, <1>5, <1>11, <1>12, <1>13, <1>14 DEF Flowing

-----------------------------------------------------------------------------
(* The streams and the threads.                                            *)

\* Every script is one the decoder can make sense of.
LEMMA ScriptSized ==
    ASSUME NEW c \in Conn, NEW s \in Setups
    PROVE  Sized(s.script[c])
  <1>1. Len(s.script[c]) \in Nat
    BY Scripts, LenProperties
  <1>2. QED
    BY <1>1, Scripts DEF Sized

\* The part of the invariant that is about the streams.
Streams == link = [c \in Conn |-> link[c]] /\ \A c \in Conn : StreamInv(c)

\* A connection that is untouched, or whose thread goes on to something other
\* than a read.
LEMMA StreamKept ==
    ASSUME NEW c \in Conn, StreamInv(c), setup' = setup, link'[c] = link[c],
           worker'[c].pc \notin {"none", "wait"} \/ worker'[c].pc = worker[c].pc
    PROVE  StreamInv(c)'
  BY DEF StreamInv, BufferBounded, Script

\* A connection that is gone.
LEMMA StreamFresh ==
    ASSUME NEW c \in Conn, setup' \in Setups, link'[c] = Fresh
    PROVE  StreamInv(c)'
  <1>1. Sized(Script(c)')
    BY ScriptSized DEF Script
  <1>2. Flowing(c, Script(c)', Fresh) /\ Len(Fresh.buffer) = 0
    BY <1>1, FlowBegins
  <1>3. /\ 0 < 2 * ReadCapacity + PayloadMax + Header
        /\ 0 < ReadCapacity + PayloadMax + Header
    BY TransportAssumption
  <1>4. QED
    BY <1>2, <1>3 DEF StreamInv, BufferBounded

\* A stream that goes on without growing in the buffer.
LEMMA StreamGoesOn ==
    ASSUME NEW c \in Conn, StreamInv(c), setup' = setup,
           worker[c].pc # "none",
           worker'[c].pc \notin {"none", "wait"} \/ worker'[c].pc = worker[c].pc,
           Flowing(c, Script(c), link'[c]), Len(link[c].buffer) \in Nat,
           Len(link'[c].buffer) \in Nat, Len(link'[c].buffer) <= Len(link[c].buffer)
    PROVE  StreamInv(c)'
  <1>1. /\ Len(link'[c].buffer) < 2 * ReadCapacity + PayloadMax + Header
        /\ worker'[c].pc = "wait" => Len(link'[c].buffer) < ReadCapacity + PayloadMax + Header
    <2>1. ReadCapacity \in Nat /\ PayloadMax \in Nat /\ Header \in Nat
      BY TransportAssumption
    <2>2. PICK m, n : m = Len(link'[c].buffer) /\ n = Len(link[c].buffer)
      OBVIOUS
    <2>3. /\ n < 2 * ReadCapacity + PayloadMax + Header
          /\ worker[c].pc = "wait" => n < ReadCapacity + PayloadMax + Header
      BY <2>2 DEF StreamInv, BufferBounded
    <2>4. m \in Nat /\ n \in Nat /\ m <= n
      BY <2>2
    <2>5. /\ m < 2 * ReadCapacity + PayloadMax + Header
          /\ worker[c].pc = "wait" => m < ReadCapacity + PayloadMax + Header
      BY <2>1, <2>3, <2>4
    <2>6. QED
      BY <2>2, <2>5
  <1>2. Script(c)' = Script(c)
    BY DEF Script
  <1>3. QED
    BY <1>1, <1>2 DEF StreamInv, BufferBounded

\* One connection's link changes.
LEMMA LinkExcept ==
    ASSUME link = [c \in Conn |-> link[c]], NEW c \in Conn, NEW m, link' = [link EXCEPT ![c] = m]
    PROVE  /\ link' = [d \in Conn |-> link'[d]] /\ link'[c] = m
           /\ \A d \in Conn \ {c} : link'[d] = link[d]
  <1>1. link' = [d \in Conn |-> IF d = c THEN m ELSE link[d]]
    OBVIOUS
  <1>2. QED
    BY <1>1

\* Steps of the server's own threads that leave the streams alone.
LEMMA StreamsUntouched ==
    ASSUME Streams, setup' = setup, link' = link,
           \A c \in Conn : worker'[c].pc \notin {"none", "wait"} \/ worker'[c].pc = worker[c].pc
    PROVE  Streams'
  <1>1. ASSUME NEW c \in Conn PROVE StreamInv(c)'
    <2>1. link'[c] = link[c] /\ StreamInv(c)
      BY DEF Streams
    <2>2. QED
      BY <2>1, StreamKept
  <1>2. QED
    BY <1>1 DEF Streams

\* Connections are gone.
LEMMA StreamsForgotten ==
    ASSUME Streams, ControlTypes, setup' = setup, NEW S, Forget(S)
    PROVE  Streams'
  <1>1. setup \in Setups
    BY DEF ControlTypes
  <1>2. /\ link' = [c \in Conn |-> link'[c]]
        /\ \A c \in Conn : /\ c \in S => link'[c] = Fresh
                           /\ c \notin S => worker'[c] = worker[c] /\ link'[c] = link[c]
    BY Forgotten
  <1>3. ASSUME NEW c \in Conn PROVE StreamInv(c)'
    <2>1. CASE c \in S
      BY <1>1, <1>2, <2>1, StreamFresh
    <2>2. CASE c \notin S
      BY <1>2, <2>2, StreamKept DEF Streams
    <2>3. QED
      BY <2>1, <2>2
  <1>4. QED
    BY <1>2, <1>3 DEF Streams

\* The client sends.
LEMMA StreamsSend ==
    ASSUME Streams, ControlTypes, NEW c \in Conn, Send(c)
    PROVE  Streams'
  <1>1. PICK l : l = link[c]
    OBVIOUS
  <1>2. /\ worker[c].pc # "none" /\ l.next[1] <= Len(Script(c))
        /\ setup' = setup /\ worker' = worker
    BY <1>1 DEF Send, Connected, serverVars, flags
  <1>3. StreamInv(c) /\ link = [d \in Conn |-> link[d]]
    BY DEF Streams
  <1>4. Flowing(c, Script(c), l) /\ l \in LinkTypes(c, Script(c))
    BY <1>1, <1>3 DEF StreamInv, Flowing
  <1>5. Sized(Script(c))
    BY ScriptSized DEF ControlTypes, Script
  <1>6. PICK m : m = Sent(c, Script(c), l)
    OBVIOUS
  <1>7. link' = [link EXCEPT ![c] = m]
    <2>1. link' = [link EXCEPT ![c].next = NextPlace(Script(c), l.next[1], l.next[2]),
                               ![c].wire = Append(@, <<c, l.next[1], l.next[2]>>)]
      BY <1>1 DEF Send, Unit, After, NextPlace
    <2>2. QED
      BY <1>1, <1>3, <1>4, <1>6, <2>1 DEF LinkTypes, Sent
  <1>8. /\ link' = [d \in Conn |-> link'[d]] /\ link'[c] = m
        /\ \A d \in Conn \ {c} : link'[d] = link[d]
    BY <1>3, <1>7, LinkExcept
  <1>9. Flowing(c, Script(c), m) /\ m.buffer = l.buffer
    BY <1>2, <1>4, <1>5, <1>6, FlowSends
  <1>10. Len(l.buffer) \in Nat
    BY <1>4, StreamUnits
  <1>11. StreamInv(c)'
    BY <1>1, <1>2, <1>3, <1>8, <1>9, <1>10, StreamGoesOn
  <1>12. ASSUME NEW d \in Conn \ {c} PROVE StreamInv(d)'
    BY <1>2, <1>8, StreamKept DEF Streams
  <1>13. QED
    BY <1>8, <1>11, <1>12 DEF Streams

\* One connection's stream goes on, the others are untouched.
LEMMA StreamsStep ==
    ASSUME Streams, setup' = setup, NEW c \in Conn, NEW m, link' = [link EXCEPT ![c] = m],
           StreamInv(c)',
           \A d \in Conn \ {c} : worker'[d].pc \notin {"none", "wait"} \/ worker'[d].pc = worker[d].pc
    PROVE  Streams'
  <1>1. /\ link' = [d \in Conn |-> link'[d]]
        /\ \A d \in Conn \ {c} : link'[d] = link[d]
    BY LinkExcept DEF Streams
  <1>2. ASSUME NEW d \in Conn \ {c} PROVE StreamInv(d)'
    BY <1>1, StreamKept DEF Streams
  <1>3. QED
    BY <1>1, <1>2 DEF Streams

\* Either side of a stream ends.
LEMMA StreamsEnd ==
    ASSUME Streams, setup' = setup, NEW c \in Conn, worker[c].pc # "none",
           \/ link' = [link EXCEPT ![c].peer = "closed"]
           \/ \E e \in BOOLEAN : link' = [link EXCEPT ![c].ended = e],
           \A d \in Conn : worker'[d].pc \notin {"none", "wait"} \/ worker'[d].pc = worker[d].pc
    PROVE  Streams'
  <1>1. StreamInv(c) /\ link = [d \in Conn |-> link[d]]
    BY DEF Streams
  <1>2. Flowing(c, Script(c), link[c]) /\ link[c] \in LinkTypes(c, Script(c))
    BY <1>1 DEF StreamInv, Flowing
  <1>3. PICK m : link' = [link EXCEPT ![c] = m] /\ EndOf(link[c], m)
    <2>1. CASE link' = [link EXCEPT ![c].peer = "closed"]
      <3>1. PICK m : m = [link[c] EXCEPT !.peer = "closed"]
        OBVIOUS
      <3>2. link' = [link EXCEPT ![c] = m]
        BY <2>1, <3>1
      <3>3. QED
        BY <3>1, <3>2 DEF EndOf
    <2>2. ASSUME NEW e \in BOOLEAN, link' = [link EXCEPT ![c].ended = e]
          PROVE  \E m : /\ link' = [link EXCEPT ![c] = m]
                        /\ m = [link[c] EXCEPT !.ended = e]
      <3>1. PICK m : m = [link[c] EXCEPT !.ended = e]
        OBVIOUS
      <3>2. link' = [link EXCEPT ![c] = m]
        BY <2>2, <3>1
      <3>3. QED
        BY <3>1, <3>2
    <2>3. QED
      BY <2>1, <2>2 DEF EndOf
  <1>4. Flowing(c, Script(c), m) /\ m.buffer = link[c].buffer
    BY <1>2, <1>3, FlowEnds
  <1>5. Len(link[c].buffer) \in Nat
    BY <1>2, StreamUnits
  <1>6. link'[c] = m
    BY <1>1, <1>3, LinkExcept
  <1>7. StreamInv(c)'
    BY <1>1, <1>4, <1>5, <1>6, StreamGoesOn
  <1>8. QED
    BY <1>3, <1>7, StreamsStep

\* A frame is handed to on_frame.
LEMMA StreamsDeliver ==
    ASSUME Streams, ControlTypes, NEW c \in Conn, Deliver(c)
    PROVE  Streams'
  <1>1. PICK l, n, z : l = link[c] /\ n = l.buffer[1][2] /\ z = Script(c)[n].size
    OBVIOUS
  <1>2. /\ worker[c].pc = "decode" /\ setup' = setup
        /\ Len(l.buffer) >= Header /\ z <= Len(l.buffer)
    BY <1>1 DEF Deliver, Complete, HasFrame, HasHeader, FirstSize, FirstFrame, serverVars, flags
  <1>3. StreamInv(c) /\ link = [d \in Conn |-> link[d]]
    BY DEF Streams
  <1>4. Flowing(c, Script(c), l) /\ l \in LinkTypes(c, Script(c))
    BY <1>1, <1>3 DEF StreamInv, Flowing
  <1>5. Sized(Script(c))
    BY ScriptSized DEF ControlTypes, Script
  <1>6. Len(l.buffer) \in Nat /\ Len(l.buffer) > 0
    BY <1>2, <1>4, StreamUnits, TransportAssumption
  <1>7. PICK m : m = Cut(l, n, z)
    OBVIOUS
  <1>8. Flowing(c, Script(c), m) /\ Len(m.buffer) <= Len(l.buffer)
    BY <1>1, <1>2, <1>4, <1>5, <1>6, <1>7, FlowDelivers
  <1>9. link' = [link EXCEPT ![c] = m]
    <2>1. link' = [link EXCEPT ![c].buffer = SubSeq(l.buffer, z + 1, Len(l.buffer)),
                               ![c].delivered = Append(@, n)]
      BY <1>1 DEF Deliver, Rest, FirstSize, FirstFrame
    <2>2. QED
      BY <1>1, <1>3, <1>4, <1>7, <2>1 DEF LinkTypes, Cut
  <1>10. link'[c] = m
    BY <1>3, <1>9, LinkExcept
  <1>11. ThreadAt(c, "serve", None)
    BY AtMoves DEF Deliver, WorkerPc
  <1>12. Len(m.buffer) \in Nat
    BY <1>8, StreamUnits DEF Flowing
  <1>13. StreamInv(c)'
    BY <1>1, <1>2, <1>3, <1>6, <1>8, <1>10, <1>11, <1>12, StreamGoesOn DEF ThreadAt
  <1>14. QED
    BY <1>2, <1>9, <1>11, <1>13, StreamsStep DEF ThreadAt

\* A copy of a descriptor is of no connection but the thread's own.
LEMMA CopyIsOwn ==
    ASSUME ControlInv, NEW c \in Conn, worker[c].pc \in HeldPc
    PROVE  owner[worker[c].held] \notin Conn \ {c}
  <1>1. DescriptorOf(c)
    BY DEF ControlInv
  <1>2. CASE sock[c].released
    BY <1>1, <1>2 DEF DescriptorOf
  <1>3. CASE ~sock[c].released
    <2>1. worker[c].held = sock[c].handle /\ worker[c].held \in Fd
      BY <1>1, <1>3 DEF DescriptorOf
    <2>2. owner[sock[c].handle] = c
      BY <1>1, <2>1, NoneIsNone DEF DescriptorOf
    <2>3. QED
      BY <2>1, <2>2
  <1>4. QED
    BY <1>2, <1>3

\* A read takes units of the thread's own connection.
LEMMA StreamsReceive ==
    ASSUME Streams, ControlInv, NEW c \in Conn, Receive(c)
    PROVE  Streams'
  <1>1. worker[c].pc = "wait" /\ setup' = setup
    BY DEF Receive, serverVars, flags
  <1>2. owner[worker[c].held] = c
    <2>1. owner[worker[c].held] \in Conn
      BY DEF Receive, Readable
    <2>2. QED
      BY <1>1, <2>1, CopyIsOwn DEF HeldPc
  <1>3. PICK k \in 1..ReadCapacity :
            /\ k <= Len(link[c].wire)
            /\ link' = [link EXCEPT ![c].buffer = @ \o SubSeq(link[c].wire, 1, k),
                                    ![c].wire = SubSeq(@, k + 1, Len(@))]
    BY <1>2 DEF Receive
  <1>4. StreamInv(c) /\ link = [d \in Conn |-> link[d]]
    BY DEF Streams
  <1>5. PICK l : l = link[c]
    OBVIOUS
  <1>6. Flowing(c, Script(c), l) /\ l \in LinkTypes(c, Script(c))
    BY <1>4, <1>5 DEF StreamInv, Flowing
  <1>7. PICK m : m = Received(l, k)
    OBVIOUS
  <1>8. k \in Nat \ {0} /\ k <= ReadCapacity /\ ReadCapacity \in Nat
    BY TransportAssumption
  <1>9. Flowing(c, Script(c), m) /\ Len(m.buffer) = Len(l.buffer) + k
    BY <1>3, <1>5, <1>6, <1>7, <1>8, FlowReceives
  <1>10. link' = [link EXCEPT ![c] = m]
    BY <1>3, <1>4, <1>5, <1>6, <1>7 DEF LinkTypes, Received
  <1>11. link'[c] = m
    BY <1>4, <1>10, LinkExcept
  <1>12. ThreadAt(c, "decode", None)
    BY AtMoves DEF Receive, WorkerPc, ControlInv
  <1>13. StreamInv(c)'
    <2>1. Len(l.buffer) \in Nat /\ Len(l.buffer) < ReadCapacity + PayloadMax + Header
      BY <1>1, <1>4, <1>5, <1>6, StreamUnits DEF StreamInv, BufferBounded
    <2>2. Len(m.buffer) < 2 * ReadCapacity + PayloadMax + Header
      BY <1>8, <1>9, <2>1, TransportAssumption
    <2>3. Script(c)' = Script(c)
      BY <1>1 DEF Script
    <2>4. worker'[c].pc = "decode"
      BY <1>12 DEF ThreadAt
    <2>5. QED
      BY <1>9, <1>11, <2>2, <2>3, <2>4 DEF StreamInv, BufferBounded
  <1>14. QED
    BY <1>1, <1>10, <1>12, <1>13, StreamsStep DEF ThreadAt

\* Every step of session_loop keeps the streams.
LEMMA StreamsServing ==
    ASSUME Streams, ControlInv, NEW c \in Conn, Serving(c)
    PROVE  Streams'
  <1>1. ControlTypes
    BY DEF ControlInv
  <1>2. PICK pc \in LivePc : \E held : ThreadAt(c, pc, held) /\ (pc = "wait" => CopyDescriptor(c))
    BY <1>1, ServingMoves
  <1>3. worker[c].pc \in LivePc /\ UNCHANGED <<serverVars, sock, owner>>
    BY <1>1, ServingMoves
  <1>4. /\ setup' = setup /\ worker[c].pc # "none" /\ worker'[c].pc = pc /\ pc # "none"
        /\ \A d \in Conn \ {c} : worker'[d] = worker[d]
        /\ pc = "wait" => CopyDescriptor(c)
    BY <1>2, <1>3 DEF serverVars, flags, LivePc, ThreadAt
  <1>5. CASE CopyDescriptor(c)
    <2>1. /\ link' = link
          /\ Len(link[c].buffer) < ReadCapacity + PayloadMax + Header
      <3>1. link' = link /\ ~Overfull(c)
        BY <1>5 DEF CopyDescriptor, Complete, Hopeless
      <3>2. Len(link[c].buffer) \in Nat
        BY StreamUnits DEF Streams, StreamInv, Flowing
      <3>3. QED
        BY <3>1, <3>2, TransportAssumption DEF Overfull
    <2>2. StreamInv(c)'
      BY <1>4, <2>1 DEF Streams, StreamInv, BufferBounded, Script
    <2>3. ASSUME NEW d \in Conn \ {c} PROVE StreamInv(d)'
      BY <1>4, <2>1, StreamKept DEF Streams
    <2>4. QED
      BY <2>1, <2>2, <2>3 DEF Streams
  <1>6. CASE Deliver(c)
    BY <1>1, <1>6, StreamsDeliver
  <1>7. CASE Receive(c)
    BY <1>7, StreamsReceive
  <1>8. CASE ~CopyDescriptor(c) /\ link' = link
    BY <1>4, <1>8, StreamsUntouched
  <1>9. CASE ~CopyDescriptor(c) /\ \E e \in BOOLEAN : link' = [link EXCEPT ![c].ended = e]
    BY <1>4, <1>9, StreamsEnd
  <1>10. CASE ShutdownNative(c)
    <2>1. worker[c].pc = "shutting" /\ ~CopyDescriptor(c)
      BY <1>10 DEF ShutdownNative, CopyDescriptor
    <2>2. owner[worker[c].held] \notin Conn \ {c}
      BY <2>1, CopyIsOwn DEF HeldPc
    <2>3. link' = link \/ link' = [link EXCEPT ![c].ended = TRUE]
      BY <1>10, <2>2 DEF ShutdownNative
    <2>4. QED
      BY <1>8, <1>9, <2>1, <2>3
  <1>11. CASE OnOpen(c) \/ SendReply(c) \/ SendFails(c)
    <2>1. ~CopyDescriptor(c)
      BY <1>11 DEF OnOpen, SendReply, SendFails, CopyDescriptor
    <2>2. link' \in {link, Ended(c)}
      BY <1>11 DEF OnOpen, SendReply, SendFails, FrameDone
    <2>3. (~sock[c].released \/ link[c].ended) \in BOOLEAN
      OBVIOUS
    <2>4. link' = link \/ \E e \in BOOLEAN : link' = [link EXCEPT ![c].ended = e]
      BY <2>2, <2>3 DEF Ended
    <2>5. QED
      BY <1>8, <1>9, <2>1, <2>4
  <1>12. CASE Reject(c) \/ Timeout(c) \/ ReceiveEnd(c) \/ Serve(c) \/ BeginShutdownSocket(c)
    <2>1. link' = link
      BY <1>12 DEF Reject, Timeout, ReceiveEnd, Serve, BeginShutdownSocket
    <2>2. QED
      BY <1>5, <1>8, <2>1
  <1>13. QED
    BY <1>5, <1>6, <1>7, <1>10, <1>11, <1>12 DEF Serving

\* Every step keeps the streams.
LEMMA NextStreams == ControlInv /\ Streams /\ [Next]_vars => Streams'
  <1> SUFFICES ASSUME ControlInv, Streams, [Next]_vars PROVE Streams'
    OBVIOUS
  <1>1. ControlTypes
    BY DEF ControlInv
  <1>2. ASSUME NEW s \in Setups, Listen(s) PROVE Streams'
    <2>1. stopper.pc = "done" /\ setup' = s /\ link' = link
      BY <1>2 DEF Listen, connVars
    <2>2. \A c \in Conn : worker[c].pc = "none"
      BY <2>1 DEF ControlInv, ShutdownInOrder
    <2>3. \A c \in Conn : link[c] = Fresh
      BY <2>2 DEF Streams, StreamInv
    <2>4. ASSUME NEW c \in Conn PROVE StreamInv(c)'
      BY <2>1, <2>3, StreamFresh
    <2>5. QED
      BY <2>1, <2>4 DEF Streams
  <1>3. CASE setup' = setup /\ link' = link /\ worker' = worker
    BY <1>3, StreamsUntouched
  <1>4. CASE CheckListener \/ AcceptFails \/ Shutdown \/ Unlock \/ JoinAcceptor \/ JoinWorkers
               \/ CloseReleased \/ (\E c \in Conn : MarkReleased(c)) \/ UNCHANGED vars
               \/ OpenElsewhere \/ CloseElsewhere
    <2>1. setup' = setup /\ link' = link /\ worker' = worker
      BY <1>4 DEF CheckListener, AcceptFails, Shutdown, Unlock, JoinAcceptor, JoinWorkers,
                  CloseReleased, MarkReleased, OpenElsewhere, CloseElsewhere, vars, connVars, serverVars, flags
    <2>2. QED
      BY <1>3, <2>1
  <1>5. CASE Refuse
    BY <1>1, <1>5, StreamsForgotten DEF Refuse, flags
  <1>6. CASE LockAndClose
    BY <1>1, <1>6, StreamsForgotten DEF LockAndClose, CloseListener
  <1>7. ASSUME NEW c \in Conn, Exit(c) PROVE Streams'
    BY <1>1, <1>7, StreamsForgotten DEF Exit, serverVars, flags
  <1>8. ASSUME NEW c \in Conn, NEW pc \in WorkerPc \ {"none", "wait"}, At(c, pc),
               setup' = setup, link' = link
        PROVE  Streams'
    <2>1. ThreadAt(c, pc, None)
      BY <1>1, <1>8, AtMoves
    <2>2. QED
      BY <1>8, <2>1, StreamsUntouched DEF ThreadAt
  <1>9. CASE StartWorker
    <2>1. acceptor.conn \in Conn
      BY <1>1, <1>9 DEF StartWorker, ControlTypes, ControlInv, ThreadsAccountedFor
    <2>2. At(acceptor.conn, "open") /\ setup' = setup /\ link' = link
      BY <1>9 DEF StartWorker
    <2>3. "open" \in WorkerPc \ {"none", "wait"}
      BY DEF WorkerPc
    <2>4. QED
      BY <1>8, <2>1, <2>2, <2>3
  <1>10. ASSUME NEW c \in Conn, Accept(c) \/ Connect(c) \/ Erase(c) PROVE Streams'
    <2>1. /\ At(c, "accepted") \/ At(c, "queued") \/ At(c, "exit")
          /\ setup' = setup /\ link' = link
      BY <1>10 DEF Accept, Connect, Erase, serverVars, flags
    <2>2. "accepted" \in WorkerPc \ {"none", "wait"} /\ "queued" \in WorkerPc \ {"none", "wait"}
          /\ "exit" \in WorkerPc \ {"none", "wait"}
      BY DEF WorkerPc
    <2>3. QED
      BY <1>8, <2>1, <2>2
  <1>11. ASSUME NEW c \in Conn, Send(c) PROVE Streams'
    BY <1>1, <1>11, StreamsSend
  <1>12. ASSUME NEW c \in Conn, Hangup(c) PROVE Streams'
    <2>1. /\ worker[c].pc # "none" /\ link' = [link EXCEPT ![c].peer = "closed"]
          /\ setup' = setup /\ worker' = worker
      BY <1>12 DEF Hangup, Connected, serverVars, flags
    <2>2. QED
      BY <2>1, StreamsEnd
  <1>13. ASSUME NEW c \in Conn, Serving(c) PROVE Streams'
    BY <1>13, StreamsServing
  <1>14. QED
    BY <1>2, <1>4, <1>5, <1>6, <1>7, <1>9, <1>10, <1>11, <1>12, <1>13
       DEF Next, Client, Acceptor, Worker, Stopper, Serving

\* The initial states.
LEMMA InitStreams == Init => Streams
  <1> SUFFICES ASSUME Init PROVE Streams
    OBVIOUS
  <1>1. link = [c \in Conn |-> Fresh] /\ setup \in Setups
    BY DEF Init
  <1>2. ASSUME NEW c \in Conn PROVE StreamInv(c)
    <2>1. link[c] = Fresh
      BY <1>1
    <2>2. Sized(Script(c))
      BY <1>1, ScriptSized DEF Script
    <2>3. Flowing(c, Script(c), Fresh) /\ Len(Fresh.buffer) = 0
      BY <2>2, FlowBegins
    <2>4. /\ 0 < 2 * ReadCapacity + PayloadMax + Header
          /\ 0 < ReadCapacity + PayloadMax + Header
      BY TransportAssumption
    <2>5. QED
      BY <2>1, <2>3, <2>4 DEF StreamInv, BufferBounded
  <1>3. QED
    BY <1>1, <1>2 DEF Streams

-----------------------------------------------------------------------------
(* What follows for every behaviour.                                       *)

\* The inductive invariant holds in every state of every behaviour of the server's
\* threads, its clients and the owner who calls listen and shutdown.
THEOREM Invariance == Spec => []IInv
  <1>1. Init => IInv
    BY InitControl, InitStreams DEF IInv, Streams
  <1>2. IInv /\ [Next]_vars => IInv'
    BY NextControl, NextStreams DEF IInv, Streams
  <1>3. QED
    BY <1>1, <1>2, PTL DEF Spec

\* Type correctness: never more connections are live than max_sessions allows, and
\* the read buffer stays within the bound of receive_frame.
THEOREM TypeCorrect == Spec => []TypeOK
  <1>1. IInv => TypeOK
    <2> SUFFICES ASSUME IInv PROVE TypeOK
      OBVIOUS
    <2>1. ControlTypes /\ ThreadsAccountedFor
      BY DEF IInv, ControlInv
    <2>2. live \subseteq Conn
      BY <2>1 DEF ThreadsAccountedFor
    <2>3. ASSUME NEW c \in Conn
          PROVE  /\ link[c].peer \in {"open", "closed"} /\ link[c].ended \in BOOLEAN
                 /\ link[c].next \in Nat \X Nat
                 /\ Len(link[c].buffer) < 2 * ReadCapacity + PayloadMax + Header
      <3>1. link[c] \in LinkTypes(c, Script(c))
        BY DEF IInv, StreamInv, Flowing
      <3>2. Len(link[c].buffer) < 2 * ReadCapacity + PayloadMax + Header
        BY DEF IInv, StreamInv, BufferBounded
      <3>3. /\ link[c].peer \in {"open", "closed"} /\ link[c].ended \in BOOLEAN
            /\ link[c].next \in (Nat \ {0}) \X (Nat \ {0})
        BY <3>1 DEF LinkTypes
      <3>4. QED
        BY <3>2, <3>3
    <2>4. QED
      BY <2>1, <2>2, <2>3 DEF TypeOK, ControlTypes, Thread, Socket
  <1>2. QED
    BY Invariance, <1>1, PTL

\* However the threads interleave, and whatever numbers the rest of the process
\* takes: a number that a thread copied and uses without the mutex is its own
\* connection's until shutdown released the socket, and never another one's.  A
\* number becomes stale only after the listener was closed, when accept, the only
\* source of connections, has no new ones; a file may still take it, so that
\* transport.cpp:233-235, "no other thread can observe a reused descriptor", holds of
\* streams only.  shutdown closes no number but that of a connection it serves.
THEOREM OwnStreams == Spec => []OwnStreamOnly
  <1>1. IInv => OwnStreamOnly
    <2> SUFFICES ASSUME IInv PROVE OwnStreamOnly
      OBVIOUS
    <2>1. ControlInv
      BY DEF IInv
    <2>2. ASSUME NEW c \in Conn
          PROVE  /\ worker[c].pc \in {"wait", "send", "shutting"} =>
                      IF sock[c].released THEN owner[worker[c].held] \notin Conn \ {c}
                                          ELSE owner[worker[c].held] = c
                 /\ sock[c].handle # None => owner[sock[c].handle] = c
      <3>1. DescriptorOf(c)
        BY <2>1 DEF ControlInv
      <3>2. QED
        BY <3>1, NoneIsNone DEF DescriptorOf, HeldPc
    <2>3. stopper.closing # None => owner[stopper.closing] \in live
      BY <2>1 DEF ControlInv, NoneLost
    <2>4. QED
      BY <2>2, <2>3 DEF OwnStreamOnly
  <1>2. QED
    BY Invariance, <1>1, PTL

\* transport.hpp, shutdown "leaves accounting at zero": the acceptor cannot slip a
\* connection in behind shutdown's back, and when it returns no connection is live,
\* no thread runs and every descriptor of a connection has been closed.
THEOREM NothingIsLeftBehind == Spec => []NothingLeftBehind
  <1>1. IInv => NothingLeftBehind
    <2> SUFFICES ASSUME IInv PROVE NothingLeftBehind
      OBVIOUS
    <2>1. ControlInv
      BY DEF IInv
    <2>2. ASSUME stopper.pc = "done"
          PROVE  live = {} /\ acceptor.pc = "done" /\ \A f \in Fd : owner[f] \notin Conn
      <3>1. acceptor.pc = "done" /\ stopper.closing = None /\ \A c \in Conn : worker[c].pc = "none"
        BY <2>1, <2>2 DEF ControlInv, ShutdownInOrder
      <3>2. live = {}
        BY <2>1, <3>1 DEF ControlInv, ThreadsAccountedFor, LivePc
      <3>3. \A c \in Conn : sock[c].handle = None
        BY <2>1, <3>1 DEF ControlInv, DescriptorOf
      <3>4. ASSUME NEW f \in Fd PROVE owner[f] \notin Conn
        <4> SUFFICES ASSUME owner[f] \in Conn PROVE FALSE
          OBVIOUS
        <4>1. sock[owner[f]].handle = f
          BY <2>1, <3>1, NoneIsNone DEF ControlInv, NoneLost
        <4>2. QED
          BY <3>3, <4>1, NoneIsNone
      <3>5. QED
        BY <3>1, <3>2, <3>4
    <2>3. stopper.pc \in {"join acceptor", "join workers"} => Unreleased = {}
      BY <2>1 DEF ControlInv, ShutdownInOrder
    <2>4. QED
      BY <2>2, <2>3 DEF NothingLeftBehind
  <1>2. QED
    BY Invariance, <1>1, PTL

\* receive_frame gives up on no buffer that begins with a well formed frame: it
\* begins with a frame, because whole frames were cut from a gapless stream, and one
\* over the bound has room for the longest.
LEMMA NotHopeless ==
    ASSUME ControlTypes, NEW c \in Conn, Flowing(c, Script(c), link[c]),
           link[c].buffer # <<>>, Script(c)[FirstFrame(c)].flaw = "none"
    PROVE  ~Hopeless(c)
  <1>1. PICK l, n : l = link[c] /\ n = Len(l.delivered) + 1
    OBVIOUS
  <1>2. Sized(Script(c))
    BY ScriptSized DEF ControlTypes, Script
  <1>3. Len(l.buffer) \in Nat /\ Len(l.buffer) > 0
    <2>1. l.buffer \in Seq(AnyUnit(c))
      BY <1>1, StreamUnits DEF Flowing
    <2>2. QED
      BY <1>1, <2>1, EmptySeq
  <1>4. l.buffer[1] = <<c, n, 1>> /\ n \in 1..Len(Script(c))
    BY <1>1, <1>2, <1>3, FrontOfStream
  <1>5. l.buffer[1][1] = c /\ l.buffer[1][2] = n /\ l.buffer[1][3] = 1
    BY <1>4
  <1>6. ~Malformed(c)
    BY <1>1, <1>5 DEF Malformed, FirstFrame
  <1>7. /\ FirstSize(c) = Script(c)[n].size /\ Script(c)[n].size \in Nat
        /\ Script(c)[n].size <= Header + Envelope + PayloadMax
    BY <1>1, <1>2, <1>4, <1>5 DEF FirstSize, FirstFrame, Sized
  <1>8. Overfull(c) => HasFrame(c)
    BY <1>1, <1>3, <1>7, TransportAssumption DEF Overfull, HasFrame, HasHeader
  <1>9. QED
    BY <1>6, <1>8 DEF Hopeless

\* Whatever pieces the streams arrive in and however the threads interleave, every
\* frame is handed to on_frame once and in order, what is buffered and in flight goes
\* on from there without a gap to what the client sends next, and no well formed frame
\* is taken for a protocol violation.
THEOREM StreamsConserved == Spec => []StreamConserved
  <1>1. IInv => StreamConserved
    <2> SUFFICES ASSUME IInv, NEW c \in Conn
                 PROVE  /\ link[c].delivered = [k \in 1..Len(link[c].delivered) |-> k]
                        /\ Ahead(c)[1] = Unit(c, Len(link[c].delivered) + 1, 1)
                        /\ \A i \in 1..(Len(Ahead(c)) - 1) :
                              LET u == Ahead(c)[i]
                                  next == After(c, u[2], u[3])
                              IN  Ahead(c)[i + 1] = Unit(c, next[1], next[2])
                        /\ link[c].buffer # <<>> /\ Script(c)[FirstFrame(c)].flaw = "none" => ~Hopeless(c)
      BY DEF StreamConserved
    <2>1. Flowing(c, Script(c), link[c]) /\ ControlTypes
      BY DEF IInv, StreamInv, ControlInv
    <2>2. PICK a : a = Ahead(c)
      OBVIOUS
    <2>3. Chain(c, Script(c), a, Len(link[c].delivered) + 1)
      BY <2>1, <2>2 DEF Flowing, Ahead, AheadOf, Unit
    <2>4. ASSUME NEW i \in 1..(Len(a) - 1), NEW u, u = a[i],
                 NEW next, next = After(c, u[2], u[3])
          PROVE  a[i + 1] = Unit(c, next[1], next[2])
      <3>1. a[i + 1] = Follower(c, Script(c), u)
        BY <2>3, <2>4 DEF Chain
      <3>2. CASE u[3] < Script(c)[u[2]].size
        <4>1. next = <<u[2], u[3] + 1>> /\ Follower(c, Script(c), u) = <<c, u[2], u[3] + 1>>
          BY <2>4, <3>2 DEF After, Follower
        <4>2. QED
          BY <3>1, <4>1 DEF Unit
      <3>3. CASE ~(u[3] < Script(c)[u[2]].size)
        <4>1. next = <<u[2] + 1, 1>> /\ Follower(c, Script(c), u) = <<c, u[2] + 1, 1>>
          BY <2>4, <3>3 DEF After, Follower
        <4>2. QED
          BY <3>1, <4>1 DEF Unit
      <3>4. QED
        BY <3>2, <3>3
    <2>5. a[1] = Unit(c, Len(link[c].delivered) + 1, 1)
      BY <2>3 DEF Chain, Unit
    <2>6. link[c].delivered = [k \in 1..Len(link[c].delivered) |-> k]
      BY <2>1 DEF Flowing
    <2>7. link[c].buffer # <<>> /\ Script(c)[FirstFrame(c)].flaw = "none" => ~Hopeless(c)
      BY <2>1, NotHopeless
    <2>8. \A i \in 1..(Len(a) - 1) :
              LET u == a[i]
                  next == After(c, u[2], u[3])
              IN  a[i + 1] = Unit(c, next[1], next[2])
      BY <2>4
    <2>9. QED
      BY <2>2, <2>5, <2>6, <2>7, <2>8
  <1>2. QED
    BY Invariance, <1>1, PTL
================================================================================
