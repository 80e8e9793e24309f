------------------------------ MODULE Durability ------------------------------
(***************************************************************************)
(* How a durable mutation reaches the disk: the connection threads of      *)
(* CoordinatorServer (src/src/coordinator.cpp) run service operations and  *)
(* may flush before they answer, the owner's thread flushes and stops the  *)
(* server, and each save is the sequence of file operations of write_all   *)
(* (src/src/persistence.cpp), made with no lock held.  The process may die *)
(* between any two steps; files survive it.  What mutations do is left to  *)
(* modules Authority and Catalog: here a mutation is an element of the set *)
(* the memory holds.                                                       *)
(***************************************************************************)
EXTENDS Naturals, FiniteSets

CONSTANTS
    Worker,              \* connection threads
    Owner,               \* the thread that owns the server
    Mutation,            \* durable mutations, each executed at most once
    FirstInstall,        \* those that install the first policy or the first topology
    FileId,              \* identities of files, beyond their names
    None,                \* no file, no mutation
    Torn,                \* the content of a file that does not decode
    Setups,              \* the ways the server may be set up, see Setup
    MaxRestarts          \* bound: restarts explored

Thread == Worker \cup {Owner}

\* How a server is configured and used: persist, CoordinatorConfig's
\* persist_on_mutation; connections, how many requests are served at once; ops,
\* what the owner does; mayFail, whether file operations may fail; windows,
\* whether rename refuses to replace a file.
Setup == [persist : BOOLEAN, connections : Nat, ops : SUBSET {"flush", "stop"},
          mayFail : BOOLEAN, windows : BOOLEAN]

ASSUME DurabilityAssumption ==
    /\ Owner \notin Worker /\ IsFiniteSet(Worker)
    /\ IsFiniteSet(FileId)
    /\ Cardinality(FileId) > Cardinality(Thread) + 1
    /\ None \notin FileId /\ None \notin Mutation
    /\ FirstInstall \subseteq Mutation
    /\ \A s \in SUBSET Mutation : s # Torn
    /\ Setups \subseteq Setup
    /\ MaxRestarts \in Nat

VARIABLES
    setup,      \* the server's setup, chosen once
    phase,      \* "serving", "stopped", "exited" (stop has returned) or "dead"
    memory,     \* the mutations held by the catalog and the authority
    seq,        \* mutation_sequence_ of the service
    dirty,      \* persistence_dirty_
    thread,     \* [Thread -> where the thread is and what it holds]
    data,       \* [FileId -> content]
    tmp,        \* the file the name <path>.tmp refers to, or None
    target,     \* the file the snapshot path refers to, or None
    restarts,   \* restarts so far (bounded by MaxRestarts)
    executed,   \* ghost: mutations ever executed
    confirmed,  \* ghost: mutations acknowledged after a flush that reported success
    inherited   \* ghost: what memory held at the last start beyond the snapshot

files == <<data, tmp, target>>
ghosts == <<executed, confirmed, inherited>>
vars == <<phase, memory, seq, dirty, thread, files, restarts, setup, ghosts>>

-----------------------------------------------------------------------------
Content == {Torn} \cup SUBSET Mutation

\* A thread's request in progress: mine, the mutation it made; captured, the
\* mutation sequence its flush read; image, the contents it read with it; file,
\* the file it has open; alone, that no other thread opened that file meanwhile;
\* ok, that the flush reported success, a status no thread looks at.
Held == [pc : {"idle", "validated", "flush", "open", "write", "replace", "rename",
               "clear", "reply"},
         mine : Mutation \cup {None}, captured : Nat, image : SUBSET Mutation,
         file : FileId \cup {None}, alone : BOOLEAN, ok : BOOLEAN]
Idle == [pc |-> "idle", mine |-> None, captured |-> 0, image |-> {},
         file |-> None, alone |-> FALSE, ok |-> FALSE]

Goto(t, place) == [thread EXCEPT ![t].pc = place]

\* The flush ends with a status; a file still open is closed.
Finish(t, status) == [thread EXCEPT ![t].pc = "reply", ![t].file = None, ![t].ok = status]

\* The files something refers to; any other is free for a new one.
FilesInUse == {tmp, target} \cup {thread[t].file : t \in Thread}
FreshFile == CHOOSE f \in FileId : f \notin FilesInUse

OnDisk == IF target = None THEN {} ELSE data[target]

\* What a start can load.  A file that does not decode is refused and the
\* coordinator starts without it.
Loadable == IF OnDisk = Torn THEN {} ELSE OnDisk

\* What memory holds after a start.  Without a snapshot to load it stays as the
\* object has it; the load of one replaces the catalog and whatever of the
\* authority the snapshot holds, so a policy or topology stays that was installed
\* and never saved.
Restored ==
    IF target = None \/ OnDisk = Torn THEN memory
    ELSE OnDisk \cup (memory \cap FirstInstall)

MarkWithoutFlag == seq' = seq + 1 /\ UNCHANGED dirty

\* mark_durable_mutation.
MarkDurableMutation == seq' = seq + 1 /\ dirty' = TRUE

ClearAlways(t) == TRUE

\* A finished flush clears the flag only if no mutation landed meanwhile.
MayClear(t) == seq = thread[t].captured

-----------------------------------------------------------------------------
Init ==
    /\ setup \in Setups
    /\ phase = "serving"
    /\ memory = {}
    /\ seq = 0
    /\ dirty = FALSE
    /\ thread = [t \in Thread |-> Idle]
    /\ data = [f \in FileId |-> Torn]
    /\ tmp = None /\ target = None
    /\ restarts = 0
    /\ executed = {} /\ confirmed = {} /\ inherited = {}

\* on_frame: the envelope passes, under a lock acquisition of its own.
Validate(w) ==
    /\ thread[w].pc = "idle"
    /\ phase = "serving"
    /\ Cardinality({v \in Worker : thread[v].pc # "idle"}) < setup.connections
    /\ thread' = Goto(w, "validated")
    /\ UNCHANGED <<phase, memory, seq, dirty, files, restarts, setup, ghosts>>

\* dispatch: the service operation.  It may mutate, even after the service has
\* stopped (cancel_collective and retire_collective do not ask), or be refused
\* or find nothing to change; the handler goes on to the flush either way.
Execute(w) ==
    /\ thread[w].pc = "validated"
    /\ \/ \E m \in Mutation \ executed :
             /\ memory' = memory \cup {m}
             /\ MarkDurableMutation
             /\ executed' = executed \cup {m}
             /\ thread' = [thread EXCEPT ![w].pc = "flush", ![w].mine = m]
       \/ /\ thread' = Goto(w, "flush")
          /\ UNCHANGED <<memory, seq, dirty, executed>>
    /\ UNCHANGED <<phase, files, restarts, setup, confirmed, inherited>>

\* The locked first part of flush and of stop: read what is to be written, or
\* nothing when the flag is clear.
Capture(t) ==
    thread' = [thread EXCEPT ![t].pc = IF dirty THEN "open" ELSE "reply",
                             ![t].captured = seq,
                             ![t].image = IF dirty THEN memory ELSE {},
                             ![t].ok = ~dirty]

\* persist_if_configured.
WorkerFlush(w) ==
    /\ thread[w].pc = "flush"
    /\ IF setup.persist THEN Capture(w) ELSE thread' = Goto(w, "reply")
    /\ UNCHANGED <<phase, memory, seq, dirty, files, restarts, setup, ghosts>>

\* CoordinatorServer::flush.
OwnerFlush ==
    /\ "flush" \in setup.ops
    /\ thread[Owner].pc = "idle"
    /\ phase = "serving"
    /\ Capture(Owner)
    /\ UNCHANGED <<phase, memory, seq, dirty, files, restarts, setup, ghosts>>

\* CoordinatorServer::stop, up to the write of CoordinatorService::stop.
OwnerStop ==
    /\ "stop" \in setup.ops
    /\ thread[Owner].pc = "idle"
    /\ phase = "serving"
    /\ phase' = "stopped"
    /\ Capture(Owner)
    /\ UNCHANGED <<memory, seq, dirty, files, restarts, setup, ghosts>>

-----------------------------------------------------------------------------
(* write_all, one file operation after the other.                          *)

GiveUpRemovingSnapshot(t) ==
    /\ setup.mayFail
    /\ thread[t].pc \in {"open", "write", "rename"}
    /\ thread' = Finish(t, FALSE)
    /\ target' = None
    /\ UNCHANGED <<phase, memory, seq, dirty, data, tmp, restarts, setup, ghosts>>

RetryUntilSaved(t) ==
    /\ setup.mayFail
    /\ thread[t].pc \in {"open", "write", "rename"}
    /\ thread' = [thread EXCEPT ![t].pc = "open", ![t].file = None]
    /\ UNCHANGED <<phase, memory, seq, dirty, files, restarts, setup, ghosts>>

\* A failed operation ends the save; the file is closed and, except when it
\* could not be opened, the temporary name removed.
GiveUp(t) ==
    /\ setup.mayFail
    /\ thread[t].pc \in {"open", "write", "rename"}
    /\ thread' = Finish(t, FALSE)
    /\ tmp' = IF thread[t].pc = "open" THEN tmp ELSE None
    /\ UNCHANGED <<phase, memory, seq, dirty, data, target, restarts, setup, ghosts>>

\* fopen with "wb" truncates the file of that name, or creates one.
OpenTemporary(t) ==
    /\ thread[t].pc = "open"
    /\ LET f == IF tmp = None THEN FreshFile ELSE tmp
           others == {u \in Thread \ {t} : thread[u].file = f}
       IN /\ tmp' = f
          /\ data' = [data EXCEPT ![f] = Torn]
          /\ thread' = [u \in Thread |->
                IF u = t THEN [thread[t] EXCEPT !.pc = "write", !.file = f,
                                                !.alone = (others = {})]
                ELSE IF u \in others THEN [thread[u] EXCEPT !.alone = FALSE]
                ELSE thread[u]]
    /\ UNCHANGED <<phase, memory, seq, dirty, target, restarts, setup, ghosts>>

ShortWriteIgnored(t) ==
    /\ thread[t].pc = "write"
    /\ \E c \in {thread[t].image, Torn} : data' = [data EXCEPT ![thread[t].file] = c]
    /\ thread' = [thread EXCEPT ![t].file = None, ![t].alone = FALSE,
                    ![t].pc = IF setup.windows THEN "replace" ELSE "rename"]
    /\ UNCHANGED <<phase, memory, seq, dirty, tmp, target, restarts, setup, ghosts>>

\* fwrite, fflush, fsync, fclose.  Two threads that write one file leave the
\* longer image's tail, or the image written last, depending on their lengths.
WriteImage(t) ==
    /\ thread[t].pc = "write"
    /\ \E c \in {thread[t].image} \cup (IF thread[t].alone THEN {} ELSE {Torn}) :
          data' = [data EXCEPT ![thread[t].file] = c]
    /\ thread' = [thread EXCEPT ![t].file = None, ![t].alone = FALSE,
                    ![t].pc = IF setup.windows THEN "replace" ELSE "rename"]
    /\ UNCHANGED <<phase, memory, seq, dirty, tmp, target, restarts, setup, ghosts>>

\* Windows: std::remove of the snapshot.
RemoveTarget(t) ==
    /\ thread[t].pc = "replace"
    /\ target' = None
    /\ thread' = Goto(t, "rename")
    /\ UNCHANGED <<phase, memory, seq, dirty, data, tmp, restarts, setup, ghosts>>

\* The rename would succeed: the temporary name still exists (another thread
\* may have renamed it away) and, on Windows, the snapshot does not.
CanRename == tmp # None /\ (setup.windows => target = None)

\* rename over the snapshot; a failure removes the temporary name and is final.
Rename(t) ==
    /\ thread[t].pc = "rename"
    /\ \/ /\ CanRename
          /\ target' = tmp
          /\ thread' = Goto(t, "clear")
       \/ /\ ~CanRename
          /\ thread' = Finish(t, FALSE)
          /\ UNCHANGED target
    /\ tmp' = None
    /\ UNCHANGED <<phase, memory, seq, dirty, data, restarts, setup, ghosts>>

\* The locked last part of flush and of stop.
Clear(t) ==
    /\ thread[t].pc = "clear"
    /\ dirty' = (dirty /\ ~MayClear(t))
    /\ thread' = Finish(t, TRUE)
    /\ UNCHANGED <<phase, memory, seq, files, restarts, setup, ghosts>>

\* The answer goes out, whatever the status of the flush was.
Reply(t) ==
    /\ thread[t].pc = "reply"
    /\ thread' = [thread EXCEPT ![t] = Idle]
    /\ confirmed' = confirmed \cup (IF thread[t].ok THEN {thread[t].mine} \ {None} ELSE {})
    /\ UNCHANGED <<phase, memory, seq, dirty, files, restarts, setup, executed, inherited>>

-----------------------------------------------------------------------------
\* server_.shutdown() has joined every connection thread and stop returns.  The
\* object keeps its memory, whether or not the last save succeeded.
Exit ==
    /\ phase = "stopped"
    /\ \A t \in Thread : thread[t].pc = "idle"
    /\ phase' = "exited"
    /\ UNCHANGED <<memory, seq, dirty, thread, files, restarts, setup, ghosts>>

\* The process dies, or ends after a stop: its memory is gone.
Die ==
    /\ phase \in {"serving", "stopped", "exited"}
    /\ phase' = "dead"
    /\ memory' = {}
    /\ seq' = 0
    /\ dirty' = FALSE
    /\ thread' = [t \in Thread |-> Idle]
    /\ UNCHANGED <<files, restarts, setup, ghosts>>

\* CoordinatorServer::start, in a new process or of the object that was stopped:
\* configure_persistence clears the flag, then restore.
Restart ==
    /\ phase \in {"exited", "dead"}
    /\ restarts < MaxRestarts
    /\ restarts' = restarts + 1
    /\ phase' = "serving"
    /\ memory' = Restored
    /\ dirty' = FALSE
    /\ inherited' = memory' \ Loadable
    /\ UNCHANGED <<seq, thread, files, setup, executed, confirmed>>

\* A thread goes on with a request it has begun.
Proceed(t) ==
    \/ Execute(t) \/ WorkerFlush(t)
    \/ OpenTemporary(t) \/ WriteImage(t) \/ RemoveTarget(t) \/ Rename(t) \/ Clear(t)
    \/ Reply(t)

Next ==
    \/ \E w \in Worker : Validate(w)
    \/ \E t \in Thread : Proceed(t) \/ GiveUp(t)
    \/ OwnerFlush \/ OwnerStop
    \/ Exit \/ Die \/ Restart

Spec == Init /\ [][Next]_vars

\* The operating system runs every thread that can run, and a joined server
\* returns from stop.  Nothing makes a file operation fail, and nothing obliges
\* a client to send, the owner to flush or stop, or a restart to happen.
Fairness == WF_vars(Exit) /\ \A t \in Thread : WF_vars(Proceed(t))

FairSpec == Spec /\ Fairness

-----------------------------------------------------------------------------
(* Properties.                                                             *)

\* Type correctness; and a running process never runs out of fresh files, so a
\* temporary file is never one that is already the snapshot.
TypeOK ==
    /\ setup \in Setup
    /\ phase \in {"serving", "stopped", "exited", "dead"}
    /\ memory \in SUBSET Mutation
    /\ seq \in Nat
    /\ dirty \in BOOLEAN
    /\ thread \in [Thread -> Held]
    /\ data \in [FileId -> Content]
    /\ tmp \in FileId \cup {None} /\ target \in FileId \cup {None}
    /\ tmp = target => tmp = None
    /\ restarts \in Nat
    /\ executed \in SUBSET Mutation /\ confirmed \in SUBSET Mutation
    /\ inherited \in SUBSET Mutation

\* persistence.hpp:59-60: "A crash at any point leaves either the previous
\* complete file or the new complete file, never a mix".  The snapshot always
\* decodes.
SnapshotNeverTorn == OnDisk # Torn

\* service.hpp:229-231: "a mutation that lands during a write is never silently
\* forgotten".  While the flag is clear the snapshot holds every mutation made
\* since the server was last started, and nothing that memory does not hold, so no
\* such mutation is left that no later flush would write.  What the object kept
\* from before a start, because the save of its stop failed and there was nothing
\* to load over it, is exempt: start clears the flag that stood for it.
ClearMeansSaved ==
    phase \in {"serving", "stopped"} /\ ~dirty =>
        /\ OnDisk \subseteq memory
        /\ memory \subseteq OnDisk \cup inherited

\* A flush that reports success has saved the request's mutation: whatever was
\* acknowledged after one is on disk and, after any number of failed saves, deaths
\* and restarts, in memory (persist_if_configured, flush).  It is less than
\* README.md:210 says, "An acknowledgement never precedes its durability point":
\* persist_if_configured drops the status, and after a flush that failed the
\* acknowledgement goes out all the same.
ReportedSaveIsDurable ==
    setup.persist /\ ~setup.windows =>
        /\ confirmed \subseteq Loadable
        /\ phase \in {"serving", "stopped"} => confirmed \subseteq memory

\* README.md:236: "Teardown is ordered so that it cannot deadlock".  However
\* requests, their saves and the one of stop itself interleave and fail, the
\* threads finish, stop joins them and returns, or the process dies first.
StopReturns == phase = "stopped" ~> phase # "stopped"

\* Every save, step by step, is one atomic and monotone replacement of the
\* snapshot, and every restart continues from it.  Nothing is claimed of the
\* Windows build, which removes the snapshot first.
Kept == IF setup.windows THEN {} ELSE Loadable
Abstract == INSTANCE AtomicStore WITH
                memory <- IF setup.windows \/ phase = "dead" THEN Kept ELSE memory,
                snapshot <- Kept
ImplementsAtomicStore == Abstract!Spec
=============================================================================
