------------------------------ MODULE Transport ------------------------------
(***************************************************************************)
(* The TCP transport of the coordinator (src/src/transport.cpp): the       *)
(* acceptor thread, one worker thread for each connection and the thread   *)
(* that calls shutdown, together with the descriptors they share.  A       *)
(* method copies the descriptor under the socket's mutex and uses the copy *)
(* after the mutex is free; another thread may have closed it by then, and *)
(* the operating system may have given its number to another connection or *)
(* to a file, such as the snapshot that another worker saves.              *)
(* A stream is a sequence of units, a frame a run of them that arrives in  *)
(* pieces of any size.  What a frame asks for is in Sessions and           *)
(* Durability; here serving one ends in a reply, and may shut the socket.  *)
(***************************************************************************)
EXTENDS Integers, Sequences, FiniteSets

CONSTANTS
    Conn,           \* clients; each may connect again when its connection is gone
    Fd,             \* descriptor numbers
    None,           \* kInvalidSocket
    Elsewhere,      \* whatever else in the process holds descriptors
    MaxElsewhere,   \* bound: descriptors held elsewhere at once
    Setups,         \* what a call of listen may find: a max_sessions, and the
                    \* frames each client would send, in order
    ReadCapacity,   \* read_capacity_
    Header,         \* units of the fixed header
    Envelope,       \* units of the envelope
    PayloadMax      \* limits::kFramePayloadMaxBytes

\* decode_frame refuses a frame as soon as it has a bad header, or once it is
\* complete and has a bad payload.
Frame == [size : (Header + Envelope)..(Header + Envelope + PayloadMax),
          flaw : {"none", "header", "payload"}]

ASSUME TransportAssumption ==
    /\ None \notin Conn \cup Fd /\ Elsewhere \notin Conn \cup {None}
    /\ MaxElsewhere \in Nat /\ IsFiniteSet(Fd)
    /\ Setups # {} /\ Setups \subseteq [max_sessions : Nat \ {0}, script : [Conn -> Seq(Frame)]]
    /\ Header \in Nat \ {0} /\ Envelope \in Nat /\ PayloadMax \in Nat
    /\ ReadCapacity \in Nat \ {0} /\ ReadCapacity >= Envelope

VARIABLES
    running,    \* running_
    listening,  \* the listener's descriptor is open
    setup,      \* config_.max_sessions, and what the clients have to send
    locked,     \* mutex_ is held across steps; only shutdown does so
    live,       \* live_
    acceptor,   \* where accept_loop is, and the connection it has accepted
    worker,     \* [Conn -> where session_loop is, and the descriptor it copied]
    stopper,    \* where shutdown is, and the descriptor it is about to close
    sock,       \* [Conn -> Connection::Socket]
    owner,      \* [Fd -> the connection the number refers to, Elsewhere or None]
    link        \* [Conn -> both ends of the stream and the read buffer]

flags == <<running, listening, setup, locked, live>>
serverVars == <<flags, acceptor, stopper>>
connVars == <<worker, sock, owner, link>>
vars == <<serverVars, connVars>>

\* peer: the client's end; ended: this side shut its end down; wire: units sent
\* and not yet received; next: the frame and the unit of it that the client sends
\* next; buffer: read_buffer_; delivered (ghost): the frames handed to on_frame.
Fresh == [peer |-> "open", ended |-> FALSE, wire |-> <<>>, next |-> <<1, 1>>,
          buffer |-> <<>>, delivered |-> <<>>]

-----------------------------------------------------------------------------
(* The units of a client's stream.                                         *)

Script(c) == setup.script[c]

\* Unit k of frame n of a client.
Unit(c, n, k) == <<c, n, k>>

\* The place <<n, k>> in a client's stream is followed by the next unit of the
\* frame, or by the first of the next frame.
After(c, n, k) == IF k < Script(c)[n].size THEN <<n, k + 1>> ELSE <<n + 1, 1>>

-----------------------------------------------------------------------------
(* decode_frame on the front of the buffer.                                *)

FirstFrame(c) == link[c].buffer[1][2]
FirstSize(c) == Script(c)[FirstFrame(c)].size
HasHeader(c) == Len(link[c].buffer) >= Header
HasFrame(c) == HasHeader(c) /\ Len(link[c].buffer) >= FirstSize(c)

\* What the decoder makes of the buffer: bytes that do not begin a frame have
\* no valid header.
Malformed(c) ==
    /\ HasHeader(c)
    /\ \/ link[c].buffer[1][3] # 1 \/ link[c].buffer[1][1] # c
       \/ Script(c)[FirstFrame(c)].flaw = "header"
       \/ HasFrame(c) /\ Script(c)[FirstFrame(c)].flaw = "payload"

Complete(c) == ~Malformed(c) /\ HasFrame(c)

RestDropped(c) == <<>>

\* What receive_frame leaves in the buffer after it took the first frame.
Rest(c) == SubSeq(link[c].buffer, FirstSize(c) + 1, Len(link[c].buffer))

\* The bound of receive_frame on a buffer without a frame.
Overfull(c) == Len(link[c].buffer) >= ReadCapacity + PayloadMax + Header

\* receive_frame gives up on the buffer.
Hopeless(c) == ~Malformed(c) => (~HasFrame(c) /\ Overfull(c))

-----------------------------------------------------------------------------
(* The operating system's side of a descriptor.                            *)

\* The client's data, its end of file or our own shutdown makes select return.
Readable(d) ==
    IF d \notin Conn THEN FALSE ELSE link[d].wire # <<>> \/ link[d].peer = "closed" \/ link[d].ended

\* A read on the number of connection d reports the end of the stream or fails;
\* a write on it fails.  Both fail on a number that is free or no socket.
AtEnd(d) == d \in Conn => link[d].ended \/ (link[d].peer = "closed" /\ link[d].wire = <<>>)
Broken(d) == d \in Conn => link[d].peer = "closed" \/ link[d].ended

FreeFd == {f \in Fd : owner[f] = None}
Close(f) == owner' = IF f = None THEN owner ELSE [owner EXCEPT ![f] = None]

NoSocket == [handle |-> None, released |-> FALSE]
NoThread == [pc |-> "none", held |-> None]

\* The connections in S are gone: socket, buffer and stream.
Forget(S) ==
    /\ sock' = [c \in Conn |-> IF c \in S THEN NoSocket ELSE sock[c]]
    /\ link' = [c \in Conn |-> IF c \in S THEN Fresh ELSE link[c]]
    /\ worker' = [c \in Conn |-> IF c \in S THEN NoThread ELSE worker[c]]

\* A thread goes on, with or without a copy of its descriptor.
At(c, pc) == worker' = [worker EXCEPT ![c] = [pc |-> pc, held |-> None]]
Holding(c, pc) == worker' = [worker EXCEPT ![c] = [pc |-> pc, held |-> sock[c].handle]]

-----------------------------------------------------------------------------
Init ==
    /\ running = FALSE
    /\ listening = FALSE
    /\ setup \in Setups
    /\ locked = FALSE
    /\ live = {}
    /\ acceptor = [pc |-> "done", conn |-> None]
    /\ worker = [c \in Conn |-> NoThread]
    /\ stopper = [pc |-> "done", closing |-> None]
    /\ sock = [c \in Conn |-> NoSocket]
    /\ owner = [f \in Fd |-> None]
    /\ link = [c \in Conn |-> Fresh]

\* Server::listen.  A failure on the way closes the listener again.
Listen(s) ==
    /\ ~running /\ stopper.pc = "done"
    /\ running' = TRUE
    /\ listening' = TRUE
    /\ setup' = s
    /\ live' = {}
    /\ acceptor' = [pc |-> "check", conn |-> None]
    /\ stopper' = [pc |-> "idle", closing |-> None]
    /\ UNCHANGED <<locked, connVars>>

-----------------------------------------------------------------------------
(* Clients.                                                                *)

\* The handshake is the kernel's; the connection waits to be accepted.
Connect(c) ==
    /\ listening
    /\ worker[c].pc = "none"
    /\ At(c, "queued")
    /\ UNCHANGED <<serverVars, sock, owner, link>>

\* The client still has something to do with the connection.
Connected(c) == worker[c].pc # "none" /\ link[c].peer = "open"

Send(c) ==
    /\ Connected(c)
    /\ link[c].next[1] <= Len(Script(c))
    /\ LET n == link[c].next[1]
           k == link[c].next[2]
       IN link' = [link EXCEPT ![c].next = After(c, n, k),
                               ![c].wire = Append(@, Unit(c, n, k))]
    /\ UNCHANGED <<serverVars, worker, sock, owner>>

Hangup(c) ==
    /\ Connected(c)
    /\ link' = [link EXCEPT ![c].peer = "closed"]
    /\ UNCHANGED <<serverVars, worker, sock, owner>>

-----------------------------------------------------------------------------
(* Server::accept_loop.                                                    *)

AcceptorGoes(pc, c) == acceptor' = [pc |-> pc, conn |-> c]

\* The flag, then the listener's descriptor under the mutex.
CheckListener ==
    /\ acceptor.pc = "check"
    /\ ~locked
    /\ AcceptorGoes(IF running /\ listening THEN "accept" ELSE "done", None)
    /\ UNCHANGED <<flags, stopper, connVars>>

\* accept returns a connection of the backlog under a number that is free.
Accept(c) ==
    /\ acceptor.pc = "accept"
    /\ listening
    /\ worker[c].pc = "queued"
    /\ \E f \in FreeFd :
          /\ owner' = [owner EXCEPT ![f] = c]
          /\ sock' = [sock EXCEPT ![c] = [handle |-> f, released |-> FALSE]]
    /\ AcceptorGoes("got", c)
    /\ At(c, "accepted")
    /\ UNCHANGED <<flags, stopper, link>>

\* accept on a closed listener fails; the flag was cleared before.
AcceptFails ==
    /\ acceptor.pc = "accept"
    /\ ~listening
    /\ AcceptorGoes(IF running THEN "check" ELSE "done", None)
    /\ UNCHANGED <<flags, stopper, connVars>>

\* The accepted descriptor is closed: the server is stopping or full.
Refuse ==
    LET c == acceptor.conn IN
    /\ acceptor.pc = "got"
    /\ ~locked
    /\ ~running \/ Cardinality(live) >= setup.max_sessions
    /\ Close(sock[c].handle)
    /\ AcceptorGoes(IF running THEN "check" ELSE "done", None)
    /\ Forget({c})
    /\ UNCHANGED <<flags, stopper>>

MayServeOneMore == running /\ Cardinality(live) <= setup.max_sessions

MayServeWhenStopping == Cardinality(live) < setup.max_sessions

\* Asked again under the mutex, after accept has returned.
MayServe == running /\ Cardinality(live) < setup.max_sessions

\* The connection enters the live set and gets its thread.
StartWorker ==
    LET c == acceptor.conn IN
    /\ acceptor.pc = "got"
    /\ ~locked
    /\ MayServe
    /\ live' = live \cup {c}
    /\ AcceptorGoes("check", None)
    /\ At(c, "open")
    /\ UNCHANGED <<running, listening, setup, locked, stopper, sock, owner, link>>

-----------------------------------------------------------------------------
(* Server::session_loop and the receive path it calls.                     *)

\* The head of the loop.
NextFrame(c) == At(c, IF running THEN "decode" ELSE "closing")

\* shutdown_socket, where its two steps do not matter.
Ended(c) == [link EXCEPT ![c].ended = ~sock[c].released \/ @]

\* on_open: a connection without a session is shut down and goes on to read.
OnOpen(c) ==
    /\ worker[c].pc = "open"
    /\ link' \in {link, Ended(c)}
    /\ NextFrame(c)
    /\ UNCHANGED <<serverVars, sock, owner>>

\* receive_frame finds a whole frame in its buffer and on_frame is called.
Deliver(c) ==
    /\ worker[c].pc = "decode"
    /\ Complete(c)
    /\ link' = [link EXCEPT ![c].buffer = Rest(c),
                            ![c].delivered = Append(@, FirstFrame(c))]
    /\ At(c, "serve")
    /\ UNCHANGED <<serverVars, sock, owner>>

\* A protocol violation, or a buffer over its bound, ends the session.
Reject(c) ==
    /\ worker[c].pc = "decode"
    /\ Hopeless(c)
    /\ At(c, "closing")
    /\ UNCHANGED <<serverVars, sock, owner, link>>

\* receive_raw copies the descriptor under the socket's mutex.
CopyDescriptor(c) ==
    /\ worker[c].pc = "decode"
    /\ ~Complete(c) /\ ~Hopeless(c)
    /\ \/ sock[c].released /\ At(c, "closing")
       \/ ~sock[c].released /\ Holding(c, "wait")
    /\ UNCHANGED <<serverVars, sock, owner, link>>

\* select has nothing to report when the slice is over, or fails on a number
\* that is free; the socket's state decides.
Timeout(c) ==
    LET d == owner[worker[c].held] IN
    /\ worker[c].pc = "wait"
    /\ ~Readable(d)
    /\ At(c, IF sock[c].released THEN "closing" ELSE "decode")
    /\ UNCHANGED <<serverVars, sock, owner, link>>

\* recv takes up to ReadCapacity units of whatever the number refers to.
Receive(c) ==
    LET d == owner[worker[c].held] IN
    /\ worker[c].pc = "wait"
    /\ Readable(d)
    /\ \E k \in 1..ReadCapacity :
          /\ k <= Len(link[d].wire)
          /\ link' = [link EXCEPT ![c].buffer = @ \o SubSeq(link[d].wire, 1, k),
                                  ![d].wire = SubSeq(@, k + 1, Len(@))]
    /\ At(c, "decode")
    /\ UNCHANGED <<serverVars, sock, owner>>

AfterEndRetried == "decode"

\* Where session_loop goes after the end of a stream.
AfterEnd == "closing"

\* End of file, a reset, or a descriptor closed since select returned.
ReceiveEnd(c) ==
    /\ worker[c].pc = "wait"
    /\ AtEnd(owner[worker[c].held])
    /\ At(c, AfterEnd)
    /\ UNCHANGED <<serverVars, sock, owner, link>>

\* on_frame: a reply follows, and a refusal shuts the socket down after it.
Serve(c) ==
    /\ worker[c].pc = "serve"
    /\ \/ sock[c].released /\ NextFrame(c)
       \/ ~sock[c].released /\ Holding(c, "send")
    /\ UNCHANGED <<serverVars, sock, owner, link>>

\* on_frame returns.  A refusal ends in shutdown_socket, whose own two steps are
\* shown below.
FrameDone(c) ==
    /\ link' \in {link, Ended(c)}
    /\ NextFrame(c)
    /\ UNCHANGED <<serverVars, sock, owner>>

\* send_raw returns when the client has taken enough of what it was sent, which
\* is up to the client ...
SendReply(c) ==
    /\ worker[c].pc = "send"
    /\ ~Broken(owner[worker[c].held])
    /\ FrameDone(c)

\* ... or when the descriptor is closed; the error is counted.  On the systems
\* this code builds for, Windows and those with SO_NOSIGPIPE, closing a socket
\* ends the calls that are in progress on it; release_for_teardown relies on it.
SendFails(c) ==
    /\ worker[c].pc = "send"
    /\ Broken(owner[worker[c].held])
    /\ FrameDone(c)

\* Connection::shutdown_socket, first half: the descriptor is copied.
BeginShutdownSocket(c) ==
    /\ worker[c].pc = "closing"
    /\ \/ sock[c].released /\ At(c, "erase")
       \/ ~sock[c].released /\ Holding(c, "shutting")
    /\ UNCHANGED <<serverVars, sock, owner, link>>

\* Second half: shutdown_native on the copy.
ShutdownNative(c) ==
    /\ worker[c].pc = "shutting"
    /\ LET d == owner[worker[c].held] IN
       link' = IF d \notin Conn THEN link ELSE [link EXCEPT ![d].ended = TRUE]
    /\ At(c, "erase")
    /\ UNCHANGED <<serverVars, sock, owner>>

\* on_close, then the connection leaves the live set under the mutex.
Erase(c) ==
    /\ worker[c].pc = "erase"
    /\ ~locked
    /\ live' = live \ {c}
    /\ At(c, "exit")
    /\ UNCHANGED <<running, listening, setup, locked, acceptor, stopper, sock, owner, link>>

\* The thread ends and the last shared_ptr goes: ~Socket closes the descriptor
\* unless teardown did.
Exit(c) ==
    /\ worker[c].pc = "exit"
    /\ IF sock[c].released THEN UNCHANGED owner ELSE Close(sock[c].handle)
    /\ Forget({c})
    /\ UNCHANGED serverVars

-----------------------------------------------------------------------------
(* Server::shutdown.                                                       *)

StopperGoes(pc) == stopper' = [pc |-> pc, closing |-> None]

\* The flag goes first, without the mutex.
Shutdown ==
    /\ stopper.pc = "idle"
    /\ running' = FALSE
    /\ StopperGoes("lock")
    /\ UNCHANGED <<listening, setup, locked, live, acceptor, connVars>>

\* The listener is closed under the mutex and with it the backlog.
CloseListener ==
    /\ listening' = FALSE
    /\ Forget({c \in Conn : worker[c].pc = "queued"})

Unreleased == {c \in live : ~sock[c].released}

LockAndClose ==
    /\ stopper.pc = "lock"
    /\ ~locked
    /\ locked' = TRUE
    /\ CloseListener
    /\ StopperGoes("release")
    /\ UNCHANGED <<running, setup, live, acceptor, owner>>

NothingToRelease == {}

\* The connections shutdown releases while it holds the mutex.
ToRelease == Unreleased

MarkReleasedKeepingHandle(c) ==
    /\ stopper.pc = "release" /\ stopper.closing = None
    /\ c \in ToRelease
    /\ stopper' = [stopper EXCEPT !.closing = sock[c].handle]
    /\ sock' = [sock EXCEPT ![c] = [handle |-> sock[c].handle, released |-> TRUE]]
    /\ UNCHANGED <<flags, acceptor, worker, owner, link>>

\* release_for_teardown: the socket is marked under its mutex ...
MarkReleased(c) ==
    /\ stopper.pc = "release" /\ stopper.closing = None
    /\ c \in ToRelease
    /\ stopper' = [stopper EXCEPT !.closing = sock[c].handle]
    /\ sock' = [sock EXCEPT ![c] = [handle |-> None, released |-> TRUE]]
    /\ UNCHANGED <<flags, acceptor, worker, owner, link>>

\* ... and closed after it.
CloseReleased ==
    /\ stopper.pc = "release" /\ stopper.closing # None
    /\ Close(stopper.closing)
    /\ stopper' = [stopper EXCEPT !.closing = None]
    /\ UNCHANGED <<flags, acceptor, worker, sock, link>>

Unlock ==
    /\ stopper.pc = "release" /\ stopper.closing = None
    /\ ToRelease = {}
    /\ locked' = FALSE
    /\ StopperGoes("join acceptor")
    /\ UNCHANGED <<running, listening, setup, live, acceptor, connVars>>

JoinAcceptor ==
    /\ stopper.pc = "join acceptor"
    /\ acceptor.pc = "done"
    /\ StopperGoes("join workers")
    /\ UNCHANGED <<flags, acceptor, connVars>>

\* The workers' threads are joined, what is left of the live set is dropped.
JoinWorkers ==
    /\ stopper.pc = "join workers"
    /\ \A c \in Conn : worker[c].pc = "none"
    /\ live' = {}
    /\ StopperGoes("done")
    /\ UNCHANGED <<running, listening, setup, locked, acceptor, connVars>>

-----------------------------------------------------------------------------
(* The rest of the process.                                                *)

\* A file is opened, as by write_all on the thread of another connection: fopen
\* draws from the table of descriptors that accept draws from.
OpenElsewhere ==
    /\ Cardinality({f \in Fd : owner[f] = Elsewhere}) < MaxElsewhere
    /\ \E f \in FreeFd : owner' = [owner EXCEPT ![f] = Elsewhere]
    /\ UNCHANGED <<serverVars, worker, sock, link>>

CloseElsewhere ==
    /\ \E f \in Fd : owner[f] = Elsewhere /\ owner' = [owner EXCEPT ![f] = None]
    /\ UNCHANGED <<serverVars, worker, sock, link>>

-----------------------------------------------------------------------------
Client(c) == Connect(c) \/ Send(c) \/ SendReply(c) \/ Hangup(c)

Acceptor ==
    \/ CheckListener \/ AcceptFails \/ Refuse \/ StartWorker
    \/ \E c \in Conn : Accept(c)

Worker(c) ==
    \/ OnOpen(c) \/ Deliver(c) \/ Reject(c)
    \/ CopyDescriptor(c) \/ Timeout(c) \/ Receive(c) \/ ReceiveEnd(c)
    \/ Serve(c) \/ SendFails(c) \/ BeginShutdownSocket(c) \/ ShutdownNative(c)
    \/ Erase(c) \/ Exit(c)

Stopper ==
    \/ LockAndClose \/ CloseReleased \/ Unlock \/ JoinAcceptor \/ JoinWorkers
    \/ \E c \in Conn : MarkReleased(c)

Next ==
    \/ \E s \in Setups : Listen(s)
    \/ Shutdown \/ Acceptor \/ Stopper \/ OpenElsewhere \/ CloseElsewhere
    \/ \E c \in Conn : Client(c) \/ Worker(c)

\* The operating system runs every thread that can run.  Nothing obliges a
\* client to send, to read its replies or to hang up, or the owner to listen or shut down.
Fairness == WF_vars(Acceptor) /\ WF_vars(Stopper) /\ \A c \in Conn : WF_vars(Worker(c))

Spec == Init /\ [][Next]_vars
FairSpec == Spec /\ Fairness

-----------------------------------------------------------------------------
(* Properties.                                                             *)

WorkerPc == {"none", "queued", "accepted", "open", "decode", "wait",
             "serve", "send", "closing", "shutting", "erase",
             "exit"}

\* Type correctness; the live set stays within its bound, and the read buffer
\* never holds more than the bound of receive_frame allows.
TypeOK ==
    /\ running \in BOOLEAN /\ listening \in BOOLEAN /\ locked \in BOOLEAN
    /\ setup \in Setups
    /\ live \subseteq Conn /\ Cardinality(live) <= setup.max_sessions
    /\ acceptor \in [pc : {"check", "accept", "got", "done"}, conn : Conn \cup {None}]
    /\ worker \in [Conn -> [pc : WorkerPc, held : Fd \cup {None}]]
    /\ stopper \in [pc : {"idle", "lock", "release", "join acceptor", "join workers", "done"},
                    closing : Fd \cup {None}]
    /\ sock \in [Conn -> [handle : Fd \cup {None}, released : BOOLEAN]]
    /\ owner \in [Fd -> Conn \cup {Elsewhere, None}]
    /\ \A c \in Conn :
          /\ link[c].peer \in {"open", "closed"} /\ link[c].ended \in BOOLEAN
          /\ link[c].next \in Nat \X Nat
          /\ Len(link[c].buffer) < 2 * ReadCapacity + PayloadMax + Header

\* transport.cpp:233-235: "no other thread can observe a reused descriptor here".
\* That is more than holds: a worker may be left with a copy whose number, closed
\* by shutdown, was reused by a file.  What holds is that this takes a released
\* socket, whose number nobody closes again; until then a copied number refers to
\* the thread's own connection, and at no time to another one, so that no thread
\* reads, answers or shuts down a stream that is not its own.
OwnStreamOnly ==
    /\ \A c \in Conn :
          /\ worker[c].pc \in {"wait", "send", "shutting"} =>
                IF sock[c].released THEN owner[worker[c].held] \notin Conn \ {c}
                                    ELSE owner[worker[c].held] = c
          /\ sock[c].handle # None => owner[sock[c].handle] = c
    /\ stopper.closing # None => owner[stopper.closing] \in live

\* What the server has of a client's stream and has not delivered, and the unit
\* the client sends next.
Ahead(c) == Append(link[c].buffer \o link[c].wire,
                   Unit(c, link[c].next[1], link[c].next[2]))

\* Whatever pieces a stream arrives in, every frame is handed to on_frame at
\* most once and in order, and what is buffered and in flight goes on from
\* there, unit by unit, to what the client sends next: nothing is lost, repeated
\* or taken from another connection.  And a well formed frame is never taken for
\* a protocol violation, however little of it has arrived and however much of the
\* next one came with it: the bound on the buffer leaves room for the longest.
StreamConserved ==
    \A c \in Conn :
        /\ link[c].delivered = [k \in 1..Len(link[c].delivered) |-> k]
        /\ Ahead(c)[1] = Unit(c, Len(link[c].delivered) + 1, 1)
        /\ \A i \in 1..(Len(Ahead(c)) - 1) :
              LET u == Ahead(c)[i]
                  next == After(c, u[2], u[3])
              IN  Ahead(c)[i + 1] = Unit(c, next[1], next[2])
        /\ link[c].buffer # <<>> /\ Script(c)[FirstFrame(c)].flaw = "none" => ~Hopeless(c)

\* Once shutdown has let go of the mutex no connection is served that it has
\* not released: the acceptor cannot slip one in behind its back.  When it
\* returns, no connection is live, no thread runs and every descriptor has been
\* closed (transport.hpp: it "leaves accounting at zero").
NothingLeftBehind ==
    /\ stopper.pc \in {"join acceptor", "join workers"} => Unreleased = {}
    /\ stopper.pc = "done" =>
          /\ live = {} /\ acceptor.pc = "done"
          /\ \A f \in Fd : owner[f] \notin Conn

\* README.md:236: "Teardown is ordered so that it cannot deadlock".  Whatever
\* clients do or leave undone, a reply they never read included, shutdown
\* returns: send_raw has no timeout of its own and depends on being released.
ShutdownReturns == stopper.pc = "lock" ~> stopper.pc = "done"

\* transport.cpp:570-573: a closed connection is never retried.  A client that
\* hung up leaves the live set, and with it makes room for another.
ClosedPeerLeaves == \A c \in Conn : (link[c].peer = "closed" /\ c \in live) ~> c \notin live
=============================================================================
