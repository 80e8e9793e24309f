--------------------------- MODULE DurabilityProofs ---------------------------
(***************************************************************************)
(* Proofs about Durability for every set of threads, mutations and files,  *)
(* every setup and any number of restarts.  What is on disk can be relied  *)
(* on while one thread saves at a time, which write_all neither checks nor *)
(* enforces: those theorems are about the behaviours whose setup has one   *)
(* thread that saves.                                                      *)
(***************************************************************************)
EXTENDS Durability, FiniteSetTheorems, FunctionTheorems, TLAPS

\* Only one thread ever saves: the owner, or the only connection there is.
SingleSaver == setup.persist => setup.connections <= 1 /\ setup.ops = {}

\* Between the read of what is to be written and the end of the flush.
Saving == {"open", "write", "replace", "rename", "clear"}

\* Only a thread that is writing has a file open.
OpenWhileWriting == \A t \in Thread : thread[t].file # None => thread[t].pc = "write"

\* No thread outlives its process.
NoThreadLeft == phase \in {"exited", "dead"} => \A t \in Thread : thread[t].pc = "idle"

\* The part of the invariant that holds whoever saves.
BaseInv == TypeOK /\ OpenWhileWriting /\ NoThreadLeft

\* The threads of a server with one saver.
OneAtATime ==
    /\ setup.persist => /\ thread[Owner].pc = "idle"
                        /\ \A v, w \in Worker :
                              thread[v].pc # "idle" /\ thread[w].pc # "idle" => v = w
    /\ ~setup.persist => \A w \in Worker : thread[w].pc \notin Saving
    /\ thread[Owner].pc \notin {"validated", "flush"}

\* The file of a save: open and unshared, then complete under the temporary
\* name, then complete under the name of the snapshot.
FileOfTheSave ==
    \A t \in Thread :
        /\ thread[t].pc = "write" =>
              tmp # None /\ thread[t].file = tmp /\ thread[t].alone = TRUE
        /\ thread[t].pc \in {"replace", "rename"} => tmp # None /\ data[tmp] = thread[t].image
        /\ thread[t].pc = "replace" => setup.windows
        /\ thread[t].pc = "clear" => target # None /\ data[target] = thread[t].image

\* What a save writes lies between the snapshot and the memory, is the memory if
\* no mutation landed since, and the flag stays set until the save is over.
SaveBehindMemory ==
    \A t \in Thread : thread[t].pc \in Saving =>
        /\ dirty
        /\ thread[t].captured <= seq
        /\ thread[t].captured = seq => thread[t].image = memory
        /\ thread[t].image \subseteq memory
        /\ OnDisk \subseteq thread[t].image

\* The snapshot decodes and is behind the memory of the process that runs.
SnapshotBehindMemory ==
    /\ OnDisk \in SUBSET Mutation
    /\ OnDisk \subseteq executed /\ memory \subseteq executed
    /\ phase # "dead" => OnDisk \subseteq memory
    /\ phase = "dead" => memory = {}

\* Where connections save the owner does not stop the server, so every start is of
\* a new process and memory begins as the snapshot.
NothingInherited == setup.persist => phase \in {"serving", "dead"} /\ inherited = {}

\* The setups in which a connection's flush saves and never removes a snapshot.
Persisting == setup.persist /\ ~setup.windows

\* A request's mutation is in memory, then in what its flush writes, and on disk
\* when the flush has reported success.
AckBehindSnapshot ==
    /\ \A t \in Thread : thread[t].mine # None =>
          /\ thread[t].pc \notin {"idle", "validated"}
          /\ thread[t].pc = "flush" => thread[t].mine \in memory
          /\ thread[t].pc \in Saving => thread[t].mine \in thread[t].image
          /\ thread[t].pc = "reply" /\ thread[t].ok = TRUE => thread[t].mine \in OnDisk
    /\ confirmed \subseteq OnDisk

\* The invariant of a server with one saver.
SaverInv ==
    /\ OneAtATime
    /\ FileOfTheSave
    /\ SaveBehindMemory
    /\ SnapshotBehindMemory
    /\ ClearMeansSaved
    /\ NothingInherited
    /\ Persisting => AckBehindSnapshot

\* The inductive invariant.
IInv == BaseInv /\ (SingleSaver => SaverInv)

-----------------------------------------------------------------------------
(* Threads: what an update of one of them leaves.                          *)

\* Thread t becomes r, and nothing else happens to the threads.
Becomes(t, r) ==
    /\ r \in Held
    /\ thread' \in [Thread -> Held] /\ thread'[t] = r
    /\ \A u \in Thread \ {t} : thread'[u] = thread[u]

\* One thread is replaced.
LEMMA ThreadReplaced ==
    ASSUME TypeOK, NEW t \in Thread, NEW r \in Held, thread' = [thread EXCEPT ![t] = r]
    PROVE  Becomes(t, r)
  BY DEF TypeOK, Becomes

\* A thread between two requests.
LEMMA IdleHeld ==
    Idle \in Held /\ Idle.pc = "idle" /\ Idle.mine = None /\ Idle.file = None /\ Idle.ok = FALSE
  BY DEF Idle, Held

\* A thread goes to another place and keeps all it holds.
LEMMA Goes ==
    ASSUME TypeOK, NEW t \in Thread,
           NEW place \in {"idle", "validated", "flush", "open", "write", "replace", "rename",
                          "clear", "reply"},
           thread' = Goto(t, place)
    PROVE  \E r : /\ Becomes(t, r) /\ r.pc = place
                  /\ r.mine = thread[t].mine /\ r.captured = thread[t].captured
                  /\ r.image = thread[t].image /\ r.file = thread[t].file
                  /\ r.alone = thread[t].alone /\ r.ok = thread[t].ok
  <1>1. thread[t] \in Held
    BY DEF TypeOK
  <1>2. PICK r : r = [thread[t] EXCEPT !.pc = place]
    OBVIOUS
  <1>3. /\ r \in Held /\ r.pc = place
        /\ r.mine = thread[t].mine /\ r.captured = thread[t].captured
        /\ r.image = thread[t].image /\ r.file = thread[t].file
        /\ r.alone = thread[t].alone /\ r.ok = thread[t].ok
    BY <1>1, <1>2 DEF Held
  <1>4. thread' = [thread EXCEPT ![t] = r]
    BY <1>2 DEF Goto
  <1>5. QED
    BY <1>3, <1>4, ThreadReplaced

\* A thread reads what it is to write, or finds nothing to write.
LEMMA Captures ==
    ASSUME TypeOK, NEW t \in Thread, Capture(t)
    PROVE  \E r : /\ Becomes(t, r)
                  /\ r.pc = IF dirty THEN "open" ELSE "reply"
                  /\ r.captured = seq /\ r.image = IF dirty THEN memory ELSE {}
                  /\ r.mine = thread[t].mine /\ r.file = thread[t].file
                  /\ r.alone = thread[t].alone
  <1>1. thread[t] \in Held /\ seq \in Nat /\ memory \in SUBSET Mutation
    BY DEF TypeOK
  <1>2. PICK place : place = IF dirty THEN "open" ELSE "reply"
    OBVIOUS
  <1>3. PICK image : image = IF dirty THEN memory ELSE {}
    OBVIOUS
  <1>4. place \in {"open", "reply"} /\ image \in SUBSET Mutation
    BY <1>1, <1>2, <1>3
  <1>5. PICK b : b = ~dirty
    OBVIOUS
  <1>6. b \in BOOLEAN
    BY <1>5
  <1>7. PICK r : r = [thread[t] EXCEPT !.pc = place, !.captured = seq, !.image = image,
                                       !.ok = b]
    OBVIOUS
  <1>8. /\ r \in Held /\ r.pc = place /\ r.captured = seq /\ r.image = image
        /\ r.mine = thread[t].mine /\ r.file = thread[t].file
        /\ r.alone = thread[t].alone
    BY <1>1, <1>4, <1>6, <1>7 DEF Held
  <1>9. thread' = [thread EXCEPT ![t] = r]
    BY <1>2, <1>3, <1>5, <1>7 DEF Capture
  <1>10. QED
    BY <1>2, <1>3, <1>8, <1>9, ThreadReplaced

\* A thread makes a mutation.
LEMMA Mutates ==
    ASSUME TypeOK, NEW t \in Thread, NEW m \in Mutation,
           thread' = [thread EXCEPT ![t].pc = "flush", ![t].mine = m]
    PROVE  \E r : /\ Becomes(t, r) /\ r.pc = "flush" /\ r.mine = m
                  /\ r.file = thread[t].file
  <1>1. thread[t] \in Held
    BY DEF TypeOK
  <1>2. PICK r : r = [thread[t] EXCEPT !.pc = "flush", !.mine = m]
    OBVIOUS
  <1>3. r \in Held /\ r.pc = "flush" /\ r.mine = m /\ r.file = thread[t].file
    BY <1>1, <1>2 DEF Held
  <1>4. thread' = [thread EXCEPT ![t] = r]
    BY <1>2
  <1>5. QED
    BY <1>3, <1>4, ThreadReplaced

\* A flush ends with a status.
LEMMA Finishes ==
    ASSUME TypeOK, NEW t \in Thread, NEW status \in BOOLEAN,
           thread' = Finish(t, status)
    PROVE  \E r : /\ Becomes(t, r) /\ r.pc = "reply" /\ r.file = None
                  /\ r.mine = thread[t].mine /\ r.ok = status
  <1>1. thread[t] \in Held
    BY DEF TypeOK
  <1>2. PICK r : r = [thread[t] EXCEPT !.pc = "reply", !.file = None, !.ok = status]
    OBVIOUS
  <1>3. /\ r \in Held /\ r.pc = "reply" /\ r.file = None /\ r.mine = thread[t].mine
        /\ r.ok = status
    BY <1>1, <1>2 DEF Held
  <1>4. thread' = [thread EXCEPT ![t] = r]
    BY <1>2 DEF Finish
  <1>5. QED
    BY <1>3, <1>4, ThreadReplaced

\* The file is written and closed.
LEMMA Writes ==
    ASSUME TypeOK, NEW t \in Thread, WriteImage(t)
    PROVE  \E r : /\ Becomes(t, r) /\ r.pc \in {"replace", "rename"} /\ r.file = None
                  /\ r.mine = thread[t].mine /\ r.captured = thread[t].captured
                  /\ r.image = thread[t].image
                  /\ r.pc = "replace" => setup.windows
  <1>1. thread[t] \in Held
    BY DEF TypeOK
  <1>2. PICK place : place = IF setup.windows THEN "replace" ELSE "rename"
    OBVIOUS
  <1>3. place \in {"replace", "rename"} /\ (place = "replace" => setup.windows)
    BY <1>2
  <1>4. PICK r : r = [thread[t] EXCEPT !.file = None, !.alone = FALSE, !.pc = place]
    OBVIOUS
  <1>5. /\ r \in Held /\ r.pc = place /\ r.file = None
        /\ r.mine = thread[t].mine /\ r.captured = thread[t].captured
        /\ r.image = thread[t].image
    BY <1>1, <1>3, <1>4 DEF Held
  <1>6. thread' = [thread EXCEPT ![t] = r]
    BY <1>2, <1>4 DEF WriteImage
  <1>7. QED
    BY <1>3, <1>5, <1>6, ThreadReplaced

-----------------------------------------------------------------------------
(* Files.                                                                  *)

\* There are more files than the names and the threads can refer to.
LEMMA FreshFileExists ==
    ASSUME TypeOK, tmp = None, NEW t \in Thread, thread[t].file = None
    PROVE  FreshFile \in FileId /\ FreshFile \notin FilesInUse
  <1> DEFINE R == {thread[u].file : u \in Thread}
             g == [u \in Thread |-> thread[u].file]
  <1>1. IsFiniteSet(Thread)
    <2>1. IsFiniteSet(Worker)
      BY DurabilityAssumption
    <2>2. QED
      BY <2>1, FS_AddElement DEF Thread
  <1>2. g \in Surjection(Thread, R)
    BY DEF Surjection
  <1>3. IsFiniteSet(R) /\ Cardinality(R) <= Cardinality(Thread)
    <2> HIDE DEF g, R
    <2>1. QED
      BY <1>1, <1>2, FS_Surjection
  <1>4. None \in R
    OBVIOUS
  <1>5. FilesInUse = R \cup {target}
    BY <1>4 DEF FilesInUse
  <1> HIDE DEF R
  <1>6. IsFiniteSet(FilesInUse) /\ Cardinality(FilesInUse) <= Cardinality(R) + 1
    <2>1. Cardinality(R) \in Nat
      BY <1>3, FS_CardinalityType
    <2>2. /\ IsFiniteSet(R \cup {target})
          /\ Cardinality(R \cup {target})
                = IF target \in R THEN Cardinality(R) ELSE Cardinality(R) + 1
      BY <1>3, FS_AddElement
    <2>3. QED
      BY <1>5, <2>1, <2>2
  <1>7. ~(FileId \subseteq FilesInUse)
    <2>1. /\ Cardinality(R) \in Nat /\ Cardinality(Thread) \in Nat
          /\ Cardinality(FilesInUse) \in Nat /\ Cardinality(FileId) \in Nat
      BY <1>1, <1>3, <1>6, DurabilityAssumption, FS_CardinalityType
    <2>2. Cardinality(FilesInUse) < Cardinality(FileId)
      BY <1>3, <1>6, <2>1, DurabilityAssumption
    <2>3. FileId \subseteq FilesInUse => Cardinality(FileId) <= Cardinality(FilesInUse)
      BY <1>6, FS_Subset
    <2>4. QED
      BY <2>1, <2>2, <2>3
  <1>8. \E f \in FileId : f \notin FilesInUse
    BY <1>7
  <1>9. QED
    BY <1>8 DEF FreshFile

\* A start leaves mutations in memory.
LEMMA RestoredType ==
    ASSUME data \in [FileId -> Content], target \in FileId \cup {None},
           memory \in SUBSET Mutation
    PROVE  Restored \in SUBSET Mutation
  BY DEF Restored, OnDisk, Content

\* What opening the temporary file does: f is truncated, and not the snapshot;
\* if no other thread has it open, the opener has it to itself.
Opened(t, f, r) ==
    /\ f \in FileId /\ f # target /\ (tmp # None => f = tmp)
    /\ tmp' = f /\ data' = [data EXCEPT ![f] = Torn]
    /\ r \in Held /\ r.pc = "write" /\ r.file = f
    /\ r.mine = thread[t].mine /\ r.captured = thread[t].captured
    /\ r.image = thread[t].image
    /\ thread' \in [Thread -> Held] /\ thread'[t] = r
    /\ \A u \in Thread \ {t} :
          thread'[u].pc = thread[u].pc /\ thread'[u].file = thread[u].file
    /\ (\A u \in Thread \ {t} : thread[u].file # f) =>
          r.alone = TRUE /\ \A u \in Thread \ {t} : thread'[u] = thread[u]

\* A thread that loses the exclusive use of its file keeps the rest.
LEMMA NotAlone ==
    ASSUME NEW h \in Held
    PROVE  LET q == [h EXCEPT !.alone = FALSE]
           IN  q \in Held /\ q.pc = h.pc /\ q.file = h.file
  BY DEF Held

\* fopen of the temporary name.
LEMMA Opens ==
    ASSUME BaseInv, NEW t \in Thread, OpenTemporary(t)
    PROVE  \E f, r : Opened(t, f, r)
  <1> USE DEF BaseInv
  <1>1. thread \in [Thread -> Held] /\ thread[t] \in Held
    BY DEF TypeOK
  <1>2. thread[t].pc = "open" /\ thread[t].file = None
    BY DEF OpenTemporary, OpenWhileWriting
  <1>3. PICK f : f = IF tmp = None THEN FreshFile ELSE tmp
    OBVIOUS
  <1>4. PICK others : others = {u \in Thread \ {t} : thread[u].file = f}
    OBVIOUS
  <1>5. PICK b : b = (others = {})
    OBVIOUS
  <1>6. PICK r : r = [thread[t] EXCEPT !.pc = "write", !.file = f, !.alone = b]
    OBVIOUS
  <1>7. /\ tmp' = f /\ data' = [data EXCEPT ![f] = Torn]
        /\ thread' = [u \in Thread |->
                IF u = t THEN r
                ELSE IF u \in others THEN [thread[u] EXCEPT !.alone = FALSE]
                ELSE thread[u]]
    BY <1>3, <1>4, <1>5, <1>6 DEF OpenTemporary
  <1>8. f \in FileId /\ f # target /\ (tmp # None => f = tmp)
    <2>1. CASE tmp = None
      BY <1>2, <1>3, <2>1, FreshFileExists DEF FilesInUse
    <2>2. CASE tmp # None
      BY <1>3, <2>2 DEF TypeOK
    <2>3. QED
      BY <2>1, <2>2
  <1>9. /\ r \in Held /\ r.pc = "write" /\ r.file = f
        /\ r.mine = thread[t].mine /\ r.captured = thread[t].captured
        /\ r.image = thread[t].image /\ r.alone = b
    BY <1>1, <1>5, <1>6, <1>8 DEF Held
  <1>10. thread'[t] = r
    BY <1>7
  <1>11. ASSUME NEW u \in Thread \ {t}
         PROVE  /\ thread'[u] \in Held
                /\ thread'[u].pc = thread[u].pc /\ thread'[u].file = thread[u].file
                /\ u \notin others => thread'[u] = thread[u]
    <2>1. CASE u \in others
      <3>1. thread'[u] = [thread[u] EXCEPT !.alone = FALSE]
        BY <1>7, <2>1
      <3>2. QED
        BY <1>1, <2>1, <3>1, NotAlone
    <2>2. CASE u \notin others
      <3>1. thread'[u] = thread[u]
        BY <1>7, <2>2
      <3>2. QED
        BY <1>1, <3>1
    <2>3. QED
      BY <2>1, <2>2
  <1>12. thread' \in [Thread -> Held]
    BY <1>7, <1>9, <1>10, <1>11
  <1>13. (\A u \in Thread \ {t} : thread[u].file # f) =>
            r.alone = TRUE /\ \A u \in Thread \ {t} : thread'[u] = thread[u]
    BY <1>4, <1>5, <1>9, <1>11
  <1>14. tmp' = f /\ data' = [data EXCEPT ![f] = Torn]
    BY <1>7
  <1>15. Opened(t, f, r)
    BY <1>8, <1>9, <1>10, <1>11, <1>12, <1>13, <1>14 DEF Opened
  <1>16. QED
    BY <1>15

-----------------------------------------------------------------------------
(* The part of the invariant that holds whoever saves.                     *)

\* One thread goes on, to a place that holds no file; the process goes on.
LEMMA BaseKept ==
    ASSUME BaseInv, NEW t \in Thread, NEW r, Becomes(t, r),
           r.file # None => r.pc = "write",
           phase' \in {"serving", "stopped"}, setup' = setup, restarts' = restarts,
           memory' \in SUBSET Mutation, seq' \in Nat, dirty' \in BOOLEAN,
           data' \in [FileId -> Content],
           tmp' \in FileId \cup {None}, target' \in FileId \cup {None},
           tmp' = target' => tmp' = None,
           executed' \in SUBSET Mutation, confirmed' \in SUBSET Mutation,
           inherited' \in SUBSET Mutation
    PROVE  BaseInv'
  <1>1. TypeOK'
    BY DEF BaseInv, TypeOK, Becomes
  <1>2. OpenWhileWriting'
    BY DEF BaseInv, OpenWhileWriting, Becomes
  <1>3. NoThreadLeft'
    BY DEF NoThreadLeft
  <1>4. QED
    BY <1>1, <1>2, <1>3 DEF BaseInv

\* A thread that does something does it in a process.
LEMMA Running ==
    ASSUME BaseInv, NEW t \in Thread, thread[t].pc # "idle"
    PROVE  phase \in {"serving", "stopped"}
  BY DEF BaseInv, NoThreadLeft, TypeOK

\* Every step preserves it.
LEMMA NextBase == BaseInv /\ [Next]_vars => BaseInv'
  <1> SUFFICES ASSUME BaseInv, [Next]_vars PROVE BaseInv'
    OBVIOUS
  <1> USE DEF files, ghosts
  <1>0. TypeOK /\ OpenWhileWriting
    BY DEF BaseInv
  <1>1. /\ memory \in SUBSET Mutation /\ seq \in Nat /\ dirty \in BOOLEAN
        /\ data \in [FileId -> Content]
        /\ tmp \in FileId \cup {None} /\ target \in FileId \cup {None}
        /\ tmp = target => tmp = None
        /\ executed \in SUBSET Mutation /\ confirmed \in SUBSET Mutation
        /\ inherited \in SUBSET Mutation
        /\ thread \in [Thread -> Held]
    BY <1>0 DEF TypeOK
  <1>2. Owner \in Thread /\ Worker \subseteq Thread
    BY DEF Thread
  <1>3. ASSUME NEW w \in Worker, Validate(w) PROVE BaseInv'
    <2>1. PICK r : Becomes(w, r) /\ r.pc = "validated" /\ r.file = thread[w].file
      BY <1>0, <1>2, <1>3, Goes DEF Validate
    <2>2. thread[w].file = None
      BY <1>0, <1>2, <1>3 DEF Validate, OpenWhileWriting
    <2>3. QED
      BY <1>1, <1>2, <1>3, <2>1, <2>2, BaseKept DEF Validate
  <1>4. ASSUME NEW w \in Thread, Execute(w) PROVE BaseInv'
    <2>1. thread[w].pc = "validated" /\ phase' = phase /\ thread[w].file = None
      BY <1>0, <1>4 DEF Execute, OpenWhileWriting
    <2>2. phase \in {"serving", "stopped"}
      BY <2>1, Running
    <2>3. CASE \E m \in Mutation \ executed :
                  /\ memory' = memory \cup {m} /\ MarkDurableMutation
                  /\ executed' = executed \cup {m}
                  /\ thread' = [thread EXCEPT ![w].pc = "flush", ![w].mine = m]
      <3>1. PICK m \in Mutation \ executed :
                  /\ memory' = memory \cup {m} /\ MarkDurableMutation
                  /\ executed' = executed \cup {m}
                  /\ thread' = [thread EXCEPT ![w].pc = "flush", ![w].mine = m]
        BY <2>3
      <3>2. PICK r : Becomes(w, r) /\ r.pc = "flush" /\ r.file = thread[w].file
        BY <1>0, <3>1, Mutates
      <3>3. /\ memory' \in SUBSET Mutation /\ executed' \in SUBSET Mutation
            /\ seq' \in Nat /\ dirty' \in BOOLEAN
        BY <1>1, <3>1 DEF MarkDurableMutation
      <3>4. UNCHANGED <<phase, files, restarts, setup, confirmed, inherited>>
        BY <1>4 DEF Execute
      <3>5. QED
        BY <1>1, <2>1, <2>2, <3>2, <3>3, <3>4, BaseKept
    <2>4. CASE thread' = Goto(w, "flush") /\ UNCHANGED <<memory, seq, dirty, executed>>
      <3>1. PICK r : Becomes(w, r) /\ r.pc = "flush" /\ r.file = thread[w].file
        BY <1>0, <2>4, Goes
      <3>2. UNCHANGED <<phase, files, restarts, setup, confirmed, inherited>>
        BY <1>4 DEF Execute
      <3>3. QED
        BY <1>1, <2>1, <2>2, <2>4, <3>1, <3>2, BaseKept
    <2>5. QED
      BY <1>4, <2>3, <2>4 DEF Execute
  <1>5. ASSUME NEW t \in Thread, Capture(t), thread[t].file = None,
               phase' \in {"serving", "stopped"},
               UNCHANGED <<memory, seq, dirty, files, restarts, setup, ghosts>>
        PROVE  BaseInv'
    <2>1. PICK r : Becomes(t, r) /\ r.file = thread[t].file
      BY <1>0, <1>5, Captures
    <2>2. QED
      BY <1>1, <1>5, <2>1, BaseKept
  <1>6. ASSUME NEW w \in Thread, WorkerFlush(w) PROVE BaseInv'
    <2>1. thread[w].pc = "flush" /\ phase' = phase /\ thread[w].file = None
      BY <1>0, <1>6 DEF WorkerFlush, OpenWhileWriting
    <2>2. phase \in {"serving", "stopped"}
      BY <2>1, Running
    <2>3. UNCHANGED <<memory, seq, dirty, files, restarts, setup, ghosts>>
      BY <1>6 DEF WorkerFlush
    <2>4. CASE Capture(w)
      BY <1>5, <2>1, <2>2, <2>3, <2>4
    <2>5. CASE thread' = Goto(w, "reply")
      <3>1. PICK r : Becomes(w, r) /\ r.file = thread[w].file
        BY <1>0, <2>5, Goes
      <3>2. QED
        BY <1>1, <2>1, <2>2, <2>3, <3>1, BaseKept
    <2>6. QED
      BY <1>6, <2>4, <2>5 DEF WorkerFlush
  <1>7. CASE OwnerFlush \/ OwnerStop
    <2>1. thread[Owner].file = None
      BY <1>0, <1>2, <1>7 DEF OwnerFlush, OwnerStop, OpenWhileWriting
    <2>2. /\ Capture(Owner) /\ phase' \in {"serving", "stopped"}
          /\ UNCHANGED <<memory, seq, dirty, files, restarts, setup, ghosts>>
      BY <1>7 DEF OwnerFlush, OwnerStop
    <2>3. QED
      BY <1>2, <1>5, <2>1, <2>2
  <1>8. ASSUME NEW t \in Thread, GiveUp(t) PROVE BaseInv'
    <2>1. /\ thread[t].pc # "idle" /\ tmp' \in {tmp, None}
          /\ UNCHANGED <<phase, memory, seq, dirty, data, target, restarts, setup, ghosts>>
      BY <1>8 DEF GiveUp
    <2>2. PICK r : Becomes(t, r) /\ r.file = None
      BY <1>0, <1>8, Finishes DEF GiveUp
    <2>3. phase' \in {"serving", "stopped"}
      BY <2>1, Running
    <2>4. QED
      BY <1>1, <2>1, <2>2, <2>3, BaseKept
  <1>9. ASSUME NEW t \in Thread, OpenTemporary(t) PROVE BaseInv'
    <2>1. /\ thread[t].pc # "idle"
          /\ UNCHANGED <<phase, memory, seq, dirty, target, restarts, setup, ghosts>>
      BY <1>9 DEF OpenTemporary
    <2>2. phase' \in {"serving", "stopped"}
      BY <2>1, Running
    <2>3. PICK f, r : Opened(t, f, r)
      BY <1>9, Opens
    <2>4. data' \in [FileId -> Content]
      BY <1>1, <2>3 DEF Opened, Content
    <2>5. TypeOK'
      BY <1>0, <2>1, <2>3, <2>4 DEF TypeOK, Opened
    <2>6. OpenWhileWriting'
      BY <1>0, <2>3 DEF Opened, OpenWhileWriting
    <2>7. NoThreadLeft'
      BY <2>2 DEF NoThreadLeft
    <2>8. QED
      BY <2>5, <2>6, <2>7 DEF BaseInv
  <1>10. ASSUME NEW t \in Thread, WriteImage(t) PROVE BaseInv'
    <2>1. /\ thread[t].pc # "idle"
          /\ UNCHANGED <<phase, memory, seq, dirty, tmp, target, restarts, setup, ghosts>>
      BY <1>10 DEF WriteImage
    <2>2. PICK r : Becomes(t, r) /\ r.file = None
      BY <1>0, <1>10, Writes
    <2>3. data' \in [FileId -> Content]
      <3>1. thread[t].image \in SUBSET Mutation
        BY <1>1 DEF Held
      <3>2. PICK c \in {thread[t].image, Torn} : data' = [data EXCEPT ![thread[t].file] = c]
        BY <1>10 DEF WriteImage
      <3>3. QED
        BY <1>1, <3>1, <3>2 DEF Content
    <2>4. phase' \in {"serving", "stopped"}
      BY <2>1, Running
    <2>5. QED
      BY <1>1, <2>1, <2>2, <2>3, <2>4, BaseKept
  <1>11. ASSUME NEW t \in Thread, RemoveTarget(t) \/ Rename(t) \/ Clear(t) PROVE BaseInv'
    <2>1. /\ thread[t].pc \notin {"idle", "write"}
          /\ \/ \E place \in {"rename", "clear"} : thread' = Goto(t, place)
             \/ \E status \in BOOLEAN : thread' = Finish(t, status)
          /\ \/ tmp' = tmp /\ target' \in {target, None}
             \/ tmp' = None /\ target' \in {target, tmp}
          /\ dirty' \in BOOLEAN
          /\ UNCHANGED <<phase, memory, seq, data, restarts, setup, ghosts>>
      BY <1>1, <1>11 DEF RemoveTarget, Rename, Clear
    <2>2. thread[t].file = None
      BY <1>0, <2>1 DEF OpenWhileWriting
    <2>3. PICK r : Becomes(t, r) /\ r.file = None
      BY <1>0, <2>1, <2>2, Goes, Finishes
    <2>4. phase' \in {"serving", "stopped"}
      BY <2>1, Running
    <2>5. QED
      BY <1>1, <2>1, <2>3, <2>4, BaseKept
  <1>12. ASSUME NEW t \in Thread, Reply(t) PROVE BaseInv'
    <2>1. /\ thread[t].pc # "idle" /\ thread' = [thread EXCEPT ![t] = Idle]
          /\ confirmed' \subseteq confirmed \cup ({thread[t].mine} \ {None})
          /\ UNCHANGED <<phase, memory, seq, dirty, files, restarts, setup, executed, inherited>>
      BY <1>12 DEF Reply
    <2>2. Becomes(t, Idle) /\ Idle.file = None
      BY <1>0, <2>1, IdleHeld, ThreadReplaced
    <2>3. confirmed' \in SUBSET Mutation
      <3>1. thread[t].mine \in Mutation \cup {None}
        BY <1>1 DEF Held
      <3>2. QED
        BY <1>1, <2>1, <3>1
    <2>4. phase' \in {"serving", "stopped"}
      BY <2>1, Running
    <2>5. QED
      BY <1>1, <2>1, <2>2, <2>3, <2>4, BaseKept
  <1>13. CASE Die
    <2>1. thread' \in [Thread -> Held] /\ \A t \in Thread : thread'[t] = Idle
      BY <1>13, IdleHeld DEF Die
    <2>2. TypeOK'
      BY <1>0, <1>13, <2>1 DEF Die, TypeOK
    <2>3. OpenWhileWriting' /\ NoThreadLeft'
      BY <2>1, IdleHeld DEF OpenWhileWriting, NoThreadLeft
    <2>4. QED
      BY <2>2, <2>3 DEF BaseInv
  <1>14. CASE Restart
    <2>1. Restored \in SUBSET Mutation
      BY <1>1, RestoredType
    <2>2. TypeOK'
      <3>1. /\ phase' = "serving" /\ memory' = Restored
            /\ restarts' = restarts + 1 /\ inherited' = memory' \ Loadable
            /\ UNCHANGED <<seq, thread, data, tmp, target, setup, executed, confirmed>>
        BY <1>14 DEF Restart
      <3>2. memory' \in SUBSET Mutation /\ inherited' \in SUBSET Mutation
        BY <2>1, <3>1
      <3>3. restarts' \in Nat
        BY <1>0, <3>1 DEF TypeOK
      <3>6. dirty' \in BOOLEAN
        BY <1>14, Zenon DEF Restart
      <3>4. phase' \in {"serving", "stopped", "exited", "dead"}
        BY <3>1
      <3>5. QED
        BY <1>0, <3>1, <3>2, <3>3, <3>4, <3>6 DEF TypeOK
    <2>3. OpenWhileWriting' /\ NoThreadLeft'
      BY <1>0, <1>14 DEF Restart, OpenWhileWriting, NoThreadLeft
    <2>4. QED
      BY <2>2, <2>3 DEF BaseInv
  <1>17. CASE Exit
    <2>1. TypeOK'
      BY <1>0, <1>17 DEF Exit, TypeOK
    <2>2. OpenWhileWriting' /\ NoThreadLeft'
      BY <1>0, <1>17 DEF Exit, OpenWhileWriting, NoThreadLeft
    <2>3. QED
      BY <2>1, <2>2 DEF BaseInv
  <1>15. CASE UNCHANGED vars
    BY <1>15 DEF vars, BaseInv, TypeOK, OpenWhileWriting, NoThreadLeft
  <1>16. QED
    BY <1>3, <1>4, <1>6, <1>7, <1>8, <1>9, <1>10, <1>11, <1>12, <1>13, <1>14, <1>15, <1>17
       DEF Next, Proceed

-----------------------------------------------------------------------------
(* One thread saves at a time.                                             *)

\* Two threads that save are one.
LEMMA SaverIsUnique ==
    ASSUME OneAtATime, NEW t \in Thread, NEW u \in Thread,
           thread[t].pc \in Saving, thread[u].pc \in Saving
    PROVE  t = u
  BY DEF OneAtATime, Saving, Thread

\* A thread that is at work goes on, and only the one that may save saves.
LEMMA TurnsKept ==
    ASSUME OneAtATime, NEW t \in Thread, NEW r, Becomes(t, r), setup' = setup,
           thread[t].pc # "idle",
           r.pc \notin {"validated", "flush"} \/ thread[t].pc \in {"validated", "flush"},
           r.pc \in Saving => thread[t].pc \in Saving \/ (thread[t].pc = "flush" /\ setup.persist)
    PROVE  OneAtATime'
  <1>1. /\ thread'[t] = r
        /\ \A u \in Thread \ {t} : thread'[u] = thread[u]
    BY DEF Becomes
  <1>2. Owner \in Thread /\ Worker \subseteq Thread
    BY DEF Thread
  <1>3. \A u \in Thread : thread'[u].pc # "idle" => thread[u].pc # "idle"
    BY <1>1
  <1>4. setup'.persist => /\ thread'[Owner].pc = "idle"
                          /\ \A v, w \in Worker :
                                thread'[v].pc # "idle" /\ thread'[w].pc # "idle" => v = w
    BY <1>2, <1>3 DEF OneAtATime
  <1>5. ~setup'.persist => \A w \in Worker : thread'[w].pc \notin Saving
    BY <1>1, <1>2 DEF OneAtATime
  <1>6. thread'[Owner].pc \notin {"validated", "flush"}
    BY <1>1, <1>2 DEF OneAtATime
  <1>7. QED
    BY <1>4, <1>5, <1>6 DEF OneAtATime

\* Nobody saves after the step.
LEMMA NobodySaves ==
    ASSUME \A u \in Thread : thread'[u].pc \notin Saving
    PROVE  FileOfTheSave' /\ SaveBehindMemory'
  BY DEF FileOfTheSave, SaveBehindMemory, Saving

\* The saver stops saving.
LEMMA SaverStops ==
    ASSUME OneAtATime, NEW t \in Thread, thread[t].pc \in Saving, NEW r, Becomes(t, r),
           r.pc \notin Saving
    PROVE  FileOfTheSave' /\ SaveBehindMemory'
  <1>1. \A u \in Thread \ {t} : thread[u].pc \notin Saving
    BY SaverIsUnique
  <1>2. \A u \in Thread : thread'[u].pc \notin Saving
    BY <1>1 DEF Becomes
  <1>3. QED
    BY <1>2, NobodySaves

\* The saver goes on, and what holds of its save now is what the invariant asks.
LEMMA SaverGoesOn ==
    ASSUME OneAtATime, NEW t \in Thread, thread[t].pc \in Saving, NEW r, Becomes(t, r),
           r.pc = "write" => tmp' # None /\ r.file = tmp' /\ r.alone = TRUE,
           r.pc \in {"replace", "rename"} => tmp' # None /\ data'[tmp'] = r.image,
           r.pc = "replace" => setup'.windows,
           r.pc = "clear" => target' # None /\ data'[target'] = r.image,
           dirty', r.captured <= seq', r.captured = seq' => r.image = memory',
           r.image \subseteq memory', OnDisk' \subseteq r.image
    PROVE  FileOfTheSave' /\ SaveBehindMemory'
  <1>1. \A u \in Thread \ {t} : thread[u].pc \notin Saving
    BY SaverIsUnique
  <1>2. thread'[t] = r /\ \A u \in Thread \ {t} : thread'[u].pc \notin Saving
    BY <1>1 DEF Becomes
  <1>3. FileOfTheSave'
    BY <1>2 DEF FileOfTheSave, Saving
  <1>4. SaveBehindMemory'
    BY <1>2 DEF SaveBehindMemory
  <1>5. QED
    BY <1>3, <1>4

\* The saves in progress do not notice the step.
LEMMA SavesUntouched ==
    ASSUME SaverInv, UNCHANGED <<memory, seq, dirty, data, tmp, target, setup>>,
           NEW t \in Thread, NEW r, Becomes(t, r), r.pc \notin Saving
    PROVE  FileOfTheSave' /\ SaveBehindMemory'
  <1>1. thread'[t] = r /\ \A u \in Thread \ {t} : thread'[u] = thread[u]
    BY DEF Becomes
  <1>2. OnDisk' = OnDisk
    BY DEF OnDisk
  <1>3. FileOfTheSave'
    BY <1>1 DEF SaverInv, FileOfTheSave, Saving
  <1>4. SaveBehindMemory'
    BY <1>1, <1>2 DEF SaverInv, SaveBehindMemory
  <1>5. QED
    BY <1>3, <1>4

\* One request goes on, memory and snapshot only grow, and what is answered is on
\* disk.
LEMMA AcksKept ==
    ASSUME AckBehindSnapshot, NEW t \in Thread, NEW r, Becomes(t, r),
           r.mine # None =>
              /\ r.pc \notin {"idle", "validated"}
              /\ r.pc = "flush" => r.mine \in memory'
              /\ r.pc \in Saving => r.mine \in r.image
              /\ r.pc = "reply" /\ r.ok = TRUE => r.mine \in OnDisk',
           memory \subseteq memory', OnDisk \subseteq OnDisk', confirmed' \subseteq OnDisk'
    PROVE  AckBehindSnapshot'
  <1>1. thread'[t] = r /\ \A u \in Thread \ {t} : thread'[u] = thread[u]
    BY DEF Becomes
  <1>2. ASSUME NEW u \in Thread, thread'[u].mine # None
        PROVE  /\ thread'[u].pc \notin {"idle", "validated"}
               /\ thread'[u].pc = "flush" => thread'[u].mine \in memory'
               /\ thread'[u].pc \in Saving => thread'[u].mine \in thread'[u].image
               /\ thread'[u].pc = "reply" /\ thread'[u].ok = TRUE => thread'[u].mine \in OnDisk'
    <2>1. CASE u = t
      BY <1>1, <1>2, <2>1
    <2>2. CASE u # t
      BY <1>1, <1>2, <2>2 DEF AckBehindSnapshot
    <2>3. QED
      BY <2>1, <2>2
  <1>3. QED
    BY <1>2 DEF AckBehindSnapshot

\* A step that touches neither the files nor what is to be saved, of a thread that
\* does not save after it.
LEMMA QuietStep ==
    ASSUME SaverInv, OneAtATime', UNCHANGED <<memory, seq, dirty, data, tmp, target, setup, executed, inherited>>,
           phase \in {"serving", "stopped"}, phase' \in {"serving", "stopped"},
           setup.persist => phase' = phase,
           NEW t \in Thread, NEW r, Becomes(t, r), r.pc \notin Saving,
           Persisting => /\ r.mine # None =>
                               /\ r.pc \notin {"idle", "validated"}
                               /\ r.pc = "flush" => r.mine \in memory
                               /\ r.pc = "reply" /\ r.ok = TRUE => r.mine \in OnDisk
                         /\ confirmed' \subseteq OnDisk
    PROVE  SaverInv'
  <1>1. OnDisk' = OnDisk /\ Persisting' = Persisting
    BY DEF OnDisk, Persisting
  <1>2. FileOfTheSave' /\ SaveBehindMemory'
    BY SavesUntouched
  <1>3. SnapshotBehindMemory' /\ ClearMeansSaved' /\ NothingInherited'
    BY <1>1 DEF SaverInv, SnapshotBehindMemory, ClearMeansSaved, NothingInherited
  <1>4. Persisting' => AckBehindSnapshot'
    BY <1>1, AcksKept DEF SaverInv
  <1>5. QED
    BY <1>2, <1>3, <1>4 DEF SaverInv

-----------------------------------------------------------------------------
(* The actions of a server with one saver.                                 *)

\* A request is validated; with a thread that saves, only if no other is served.
LEMMA ValidateKeeps ==
    ASSUME BaseInv, SingleSaver, SaverInv, NEW w \in Worker, Validate(w)
    PROVE  SaverInv'
  <1>1. /\ thread[w].pc = "idle" /\ phase = "serving" /\ w \in Thread /\ w # Owner
        /\ Cardinality({v \in Worker : thread[v].pc # "idle"}) < setup.connections
        /\ UNCHANGED <<phase, memory, seq, dirty, data, tmp, target, setup, executed, confirmed, inherited>>
    BY DurabilityAssumption DEF Validate, files, ghosts, Thread
  <1>2. PICK r : Becomes(w, r) /\ r.pc = "validated" /\ r.mine = thread[w].mine
    BY <1>1, Goes DEF Validate, BaseInv
  <1>3. setup.persist => \A v \in Worker : thread[v].pc = "idle"
    <2> SUFFICES ASSUME setup.persist
                 PROVE  {v \in Worker : thread[v].pc # "idle"} = {}
      OBVIOUS
    <2> DEFINE B == {v \in Worker : thread[v].pc # "idle"}
    <2>1. IsFiniteSet(B)
      <3>1. IsFiniteSet(Worker) /\ B \in SUBSET Worker
        BY DurabilityAssumption
      <3>2. QED
        BY <3>1, FS_Subset
    <2>2. setup.connections \in Nat /\ setup.connections <= 1
      BY DEF SingleSaver, BaseInv, TypeOK, Setup
    <2>3. Cardinality(B) < setup.connections
      BY <1>1
    <2> HIDE DEF B
    <2>4. Cardinality(B) = 0
      BY <2>1, <2>2, <2>3, FS_CardinalityType
    <2>5. B = {}
      BY <2>1, <2>4, FS_EmptySet
    <2>6. QED
      BY <2>5 DEF B
  <1>4. OneAtATime'
    <2>1. thread'[w] = r /\ \A u \in Thread \ {w} : thread'[u] = thread[u]
      BY <1>2 DEF Becomes
    <2>2. thread'[Owner] = thread[Owner]
      BY <1>1, <2>1 DEF Thread
    <2>3. \A v \in Worker \ {w} : thread'[v] = thread[v]
      BY <2>1 DEF Thread
    <2>4. QED
      BY <1>1, <1>2, <1>3, <2>1, <2>2, <2>3 DEF SaverInv, OneAtATime, Saving
  <1>5. Persisting => r.mine = None /\ confirmed' \subseteq OnDisk
    BY <1>1, <1>2 DEF SaverInv, AckBehindSnapshot
  <1>6. r.pc \notin Saving
    BY <1>2 DEF Saving
  <1>7. QED
    BY <1>1, <1>2, <1>4, <1>5, <1>6, QuietStep

\* A service operation mutates or leaves all as it is.
LEMMA ExecuteKeeps ==
    ASSUME BaseInv, SingleSaver, SaverInv, NEW w \in Thread, Execute(w)
    PROVE  SaverInv'
  <1>1. /\ thread[w].pc = "validated"
        /\ UNCHANGED <<phase, data, tmp, target, setup, confirmed, inherited>>
    BY DEF Execute, files
  <1>2. phase \in {"serving", "stopped"}
    BY <1>1, Running
  <1>3. OnDisk' = OnDisk /\ Persisting' = Persisting
    BY <1>1 DEF OnDisk, Persisting
  <1>4. TypeOK
    BY DEF BaseInv
  <1>5. CASE \E m \in Mutation \ executed :
                /\ memory' = memory \cup {m} /\ MarkDurableMutation
                /\ executed' = executed \cup {m}
                /\ thread' = [thread EXCEPT ![w].pc = "flush", ![w].mine = m]
    <2>1. PICK m \in Mutation \ executed :
                /\ memory' = memory \cup {m} /\ MarkDurableMutation
                /\ executed' = executed \cup {m}
                /\ thread' = [thread EXCEPT ![w].pc = "flush", ![w].mine = m]
      BY <1>5
    <2>2. PICK r : Becomes(w, r) /\ r.pc = "flush" /\ r.mine = m
      <3>1. m \in Mutation /\ thread' = [thread EXCEPT ![w].pc = "flush", ![w].mine = m]
        BY <2>1
      <3>2. \E r : /\ Becomes(w, r) /\ r.pc = "flush" /\ r.mine = m
                   /\ r.file = thread[w].file
        BY <1>4, <3>1, Mutates
      <3>3. QED
        BY <3>2
    <2>3. seq' = seq + 1 /\ dirty' = TRUE /\ memory \subseteq memory' /\ m \in memory'
      BY <2>1 DEF MarkDurableMutation
    <2>4. r.pc \notin Saving
      BY <2>2 DEF Saving
    <2>5. OneAtATime'
      BY <1>1, <2>2, <2>4, TurnsKept DEF SaverInv
    <2>6. thread'[w] = r /\ \A u \in Thread \ {w} : thread'[u] = thread[u]
      BY <2>2 DEF Becomes
    <2>7. FileOfTheSave'
      BY <1>1, <2>4, <2>6 DEF SaverInv, FileOfTheSave, Saving
    <2>8. SaveBehindMemory'
      <3> SUFFICES ASSUME NEW u \in Thread, thread'[u].pc \in Saving
                   PROVE  /\ dirty' /\ thread'[u].captured <= seq'
                          /\ thread'[u].captured = seq' => thread'[u].image = memory'
                          /\ thread'[u].image \subseteq memory'
                          /\ OnDisk' \subseteq thread'[u].image
        BY DEF SaveBehindMemory
      <3>1. thread'[u] = thread[u]
        BY <2>4, <2>6
      <3>2. /\ thread[u].captured <= seq /\ thread[u].image \subseteq memory
            /\ OnDisk \subseteq thread[u].image
        BY <3>1 DEF SaverInv, SaveBehindMemory
      <3>3. thread[u].captured \in Nat /\ seq \in Nat
        BY <1>4 DEF TypeOK, Held
      <3>4. thread[u].captured <= seq' /\ thread[u].captured # seq'
        BY <2>3, <3>2, <3>3
      <3>5. QED
        BY <1>3, <2>3, <3>1, <3>2, <3>4
    <2>9. SnapshotBehindMemory'
      BY <1>1, <1>2, <1>3, <2>1 DEF SaverInv, SnapshotBehindMemory
    <2>10. ClearMeansSaved' /\ NothingInherited'
      BY <1>1, <2>3 DEF SaverInv, ClearMeansSaved, NothingInherited
    <2>11. Persisting' => AckBehindSnapshot'
      <3> SUFFICES ASSUME Persisting PROVE AckBehindSnapshot'
        BY <1>3
      <3>1. AckBehindSnapshot
        BY DEF SaverInv
      <3>2. confirmed' \subseteq OnDisk'
        BY <1>1, <1>3, <3>1 DEF AckBehindSnapshot
      <3>3. QED
        BY <1>3, <2>2, <2>3, <2>4, <3>1, <3>2, AcksKept
    <2>12. QED
      BY <2>5, <2>7, <2>8, <2>9, <2>10, <2>11 DEF SaverInv
  <1>6. CASE thread' = Goto(w, "flush") /\ UNCHANGED <<memory, seq, dirty, executed>>
    <2>1. PICK r : Becomes(w, r) /\ r.pc = "flush" /\ r.mine = thread[w].mine
      BY <1>4, <1>6, Goes
    <2>2. r.pc \notin Saving
      BY <2>1 DEF Saving
    <2>3. OneAtATime'
      BY <1>1, <2>1, <2>2, TurnsKept DEF SaverInv
    <2>4. Persisting => r.mine = None /\ confirmed' \subseteq OnDisk
      BY <1>1, <2>1 DEF SaverInv, AckBehindSnapshot
    <2>5. QED
      BY <1>1, <1>2, <1>6, <2>1, <2>2, <2>3, <2>4, QuietStep
  <1>7. QED
    BY <1>5, <1>6 DEF Execute

\* A flush reads what it is to write; what it will write is the memory.
LEMMA CaptureKeeps ==
    ASSUME BaseInv, SaverInv, OneAtATime', NEW t \in Thread, Capture(t),
           phase \in {"serving", "stopped"}, phase' \in {"serving", "stopped"},
           UNCHANGED <<memory, seq, dirty, data, tmp, target, setup, executed, confirmed, inherited>>,
           setup.persist => phase' = phase,
           thread[t].pc \in {"flush", "idle"}
    PROVE  SaverInv'
  <1>1. PICK r : /\ Becomes(t, r)
                 /\ r.pc = IF dirty THEN "open" ELSE "reply"
                 /\ r.captured = seq /\ r.image = IF dirty THEN memory ELSE {}
                 /\ r.mine = thread[t].mine
    BY Captures DEF BaseInv
  <1>2. OnDisk' = OnDisk /\ Persisting' = Persisting
    BY DEF OnDisk, Persisting
  <1>3. Persisting /\ r.mine # None => r.mine \in memory
    BY <1>1 DEF SaverInv, AckBehindSnapshot
  <1>4. Persisting => confirmed' \subseteq OnDisk
    BY DEF SaverInv, AckBehindSnapshot
  <1>5. CASE ~dirty
    <2>1. r.pc = "reply" /\ r.pc \notin Saving
      BY <1>1, <1>5 DEF Saving
    <2>2. Persisting => OnDisk = memory
      BY <1>5 DEF SaverInv, ClearMeansSaved, NothingInherited, Persisting
    <2>3. QED
      BY <1>1, <1>3, <1>4, <2>1, <2>2, QuietStep
  <1>6. CASE dirty
    <2>1. r.pc = "open" /\ r.image = memory /\ r.captured = seq /\ seq \in Nat
      BY <1>1, <1>6 DEF BaseInv, TypeOK
    <2>2. thread'[t] = r /\ \A u \in Thread \ {t} : thread'[u] = thread[u]
      BY <1>1 DEF Becomes
    <2>3. OnDisk \subseteq memory
      BY DEF SaverInv, SnapshotBehindMemory
    <2>4. FileOfTheSave'
      BY <2>1, <2>2 DEF SaverInv, FileOfTheSave
    <2>5. SaveBehindMemory'
      <3> SUFFICES ASSUME NEW u \in Thread, thread'[u].pc \in Saving
                   PROVE  /\ dirty' /\ thread'[u].captured <= seq'
                          /\ thread'[u].captured = seq' => thread'[u].image = memory'
                          /\ thread'[u].image \subseteq memory'
                          /\ OnDisk' \subseteq thread'[u].image
        BY DEF SaveBehindMemory
      <3>1. CASE u = t
        BY <1>2, <1>6, <2>1, <2>2, <2>3, <3>1
      <3>2. CASE u # t
        BY <1>2, <2>2, <3>2 DEF SaverInv, SaveBehindMemory
      <3>3. QED
        BY <3>1, <3>2
    <2>6. SnapshotBehindMemory' /\ ClearMeansSaved' /\ NothingInherited'
      BY <1>2, <1>6 DEF SaverInv, SnapshotBehindMemory, ClearMeansSaved, NothingInherited
    <2>7. Persisting' => AckBehindSnapshot'
      <3> SUFFICES ASSUME Persisting PROVE AckBehindSnapshot'
        BY <1>2
      <3>1. AckBehindSnapshot
        BY DEF SaverInv
      <3>2. QED
        BY <1>1, <1>2, <1>3, <1>4, <2>1, <3>1, AcksKept
    <2>8. QED
      BY <2>4, <2>5, <2>6, <2>7 DEF SaverInv
  <1>7. QED
    BY <1>5, <1>6

\* persist_if_configured.
LEMMA WorkerFlushKeeps ==
    ASSUME BaseInv, SingleSaver, SaverInv, NEW w \in Thread, WorkerFlush(w)
    PROVE  SaverInv'
  <1>1. /\ thread[w].pc = "flush"
        /\ UNCHANGED <<phase, memory, seq, dirty, data, tmp, target, setup, executed, confirmed, inherited>>
    BY DEF WorkerFlush, files, ghosts
  <1>2. phase \in {"serving", "stopped"}
    BY <1>1, Running
  <1>3. TypeOK
    BY DEF BaseInv
  <1>4. CASE setup.persist /\ Capture(w)
    <2>1. PICK r : Becomes(w, r) /\ r.pc = IF dirty THEN "open" ELSE "reply"
      BY <1>3, <1>4, Captures
    <2>2. r.pc \in {"open", "reply"}
      BY <2>1
    <2>3. OneAtATime'
      BY <1>1, <1>4, <2>1, <2>2, TurnsKept DEF SaverInv
    <2>4. QED
      BY <1>1, <1>2, <1>4, <2>3, CaptureKeeps
  <1>5. CASE ~setup.persist /\ thread' = Goto(w, "reply")
    <2>1. PICK r : Becomes(w, r) /\ r.pc = "reply"
      BY <1>3, <1>5, Goes
    <2>2. r.pc \notin Saving
      BY <2>1 DEF Saving
    <2>3. OneAtATime'
      BY <1>1, <2>1, <2>2, TurnsKept DEF SaverInv
    <2>4. ~Persisting
      BY <1>5 DEF Persisting
    <2>5. QED
      BY <1>1, <1>2, <2>1, <2>2, <2>3, <2>4, QuietStep
  <1>6. QED
    BY <1>4, <1>5 DEF WorkerFlush

\* The owner saves only where connections do not.
LEMMA OwnerKeeps ==
    ASSUME BaseInv, SingleSaver, SaverInv, OwnerFlush \/ OwnerStop
    PROVE  SaverInv'
  <1>1. /\ thread[Owner].pc = "idle" /\ phase = "serving" /\ setup.ops # {}
        /\ phase' \in {"serving", "stopped"} /\ Capture(Owner) /\ Owner \in Thread
        /\ UNCHANGED <<memory, seq, dirty, data, tmp, target, setup, executed, confirmed, inherited>>
    BY DEF OwnerFlush, OwnerStop, files, ghosts, Thread
  <1>2. ~setup.persist
    BY <1>1 DEF SingleSaver
  <1>3. PICK r : Becomes(Owner, r) /\ r.pc = IF dirty THEN "open" ELSE "reply"
    BY <1>1, Captures DEF BaseInv
  <1>4. r.pc \in {"open", "reply"}
    BY <1>3
  <1>5. thread'[Owner] = r /\ \A u \in Worker : thread'[u] = thread[u]
    BY <1>3, DurabilityAssumption DEF Becomes, Thread
  <1>6. OneAtATime'
    BY <1>1, <1>2, <1>4, <1>5 DEF SaverInv, OneAtATime
  <1>7. QED
    BY <1>1, <1>2, <1>6, CaptureKeeps

\* What the invariant says of the thread that saves.
LEMMA OfTheSaver ==
    ASSUME BaseInv, SaverInv, NEW t \in Thread, thread[t].pc \in Saving
    PROVE  /\ phase \in {"serving", "stopped"} /\ dirty
           /\ thread[t].captured <= seq
           /\ thread[t].captured = seq => thread[t].image = memory
           /\ thread[t].image \subseteq memory /\ thread[t].image \in SUBSET Mutation
           /\ OnDisk \subseteq thread[t].image
           /\ Persisting => /\ confirmed \subseteq OnDisk
                            /\ thread[t].mine # None => thread[t].mine \in thread[t].image
  <1>1. thread[t].pc # "idle"
    BY DEF Saving
  <1>2. phase \in {"serving", "stopped"}
    BY <1>1, Running
  <1>3. thread[t].image \in SUBSET Mutation
    BY DEF BaseInv, TypeOK, Held
  <1>4. QED
    BY <1>2, <1>3 DEF SaverInv, SaveBehindMemory, AckBehindSnapshot

\* A failed save leaves the snapshot and the flag as they were.
LEMMA FailedSaveKeeps ==
    ASSUME BaseInv, SaverInv, NEW t \in Thread, thread[t].pc \in Saving,
           thread' = Finish(t, FALSE),
           UNCHANGED <<phase, memory, seq, dirty, data, target, setup, executed, confirmed, inherited>>
    PROVE  SaverInv'
  <1>1. thread[t].pc # "idle" /\ thread[t].pc \notin {"idle", "validated", "flush"}
    BY DEF Saving
  <1>2. PICK r : Becomes(t, r) /\ r.pc = "reply" /\ r.mine = thread[t].mine /\ r.ok = FALSE
    BY Finishes DEF BaseInv
  <1>3. r.pc \notin Saving
    BY <1>2 DEF Saving
  <1>4. OneAtATime'
    BY <1>1, <1>2, <1>3, TurnsKept DEF SaverInv
  <1>5. FileOfTheSave' /\ SaveBehindMemory'
    BY <1>2, <1>3, SaverStops DEF SaverInv
  <1>6. OnDisk' = OnDisk /\ Persisting' = Persisting
    BY DEF OnDisk, Persisting
  <1>7. SnapshotBehindMemory' /\ ClearMeansSaved' /\ NothingInherited'
    BY <1>6 DEF SaverInv, SnapshotBehindMemory, ClearMeansSaved, NothingInherited
  <1>8. Persisting' => AckBehindSnapshot'
    <2> SUFFICES ASSUME Persisting PROVE AckBehindSnapshot'
      BY <1>6
    <2>1. AckBehindSnapshot /\ confirmed' \subseteq OnDisk'
      BY <1>6 DEF SaverInv, AckBehindSnapshot
    <2>2. QED
      BY <1>2, <1>3, <1>6, <2>1, AcksKept
  <1>9. QED
    BY <1>4, <1>5, <1>7, <1>8 DEF SaverInv

\* One of the file operations fails.
LEMMA GiveUpKeeps ==
    ASSUME BaseInv, SaverInv, NEW t \in Thread, GiveUp(t)
    PROVE  SaverInv'
  <1>1. /\ thread[t].pc \in Saving /\ thread' = Finish(t, FALSE)
        /\ UNCHANGED <<phase, memory, seq, dirty, data, target, setup, executed, confirmed, inherited>>
    BY DEF GiveUp, Saving, ghosts
  <1>2. QED
    BY <1>1, FailedSaveKeeps

\* The saver's step leaves the snapshot alone.
LEMMA SnapshotUntouched ==
    ASSUME BaseInv, SaverInv, OneAtATime', FileOfTheSave', SaveBehindMemory',
           OnDisk' = OnDisk,
           UNCHANGED <<phase, memory, dirty, setup, executed, confirmed, inherited>>,
           NEW t \in Thread, thread[t].pc \in Saving, NEW r, Becomes(t, r), r.pc \in Saving,
           r.mine = thread[t].mine, r.image = thread[t].image
    PROVE  SaverInv'
  <1>1. SnapshotBehindMemory' /\ ClearMeansSaved' /\ NothingInherited'
    BY DEF SaverInv, SnapshotBehindMemory, ClearMeansSaved, NothingInherited
  <1>2. Persisting' => AckBehindSnapshot'
    <2> SUFFICES ASSUME Persisting PROVE AckBehindSnapshot'
      BY DEF Persisting
    <2>1. AckBehindSnapshot
      BY DEF SaverInv
    <2>2. r.pc \notin {"idle", "validated", "flush", "reply"}
      BY DEF Saving
    <2>3. QED
      BY <2>1, <2>2, OfTheSaver, AcksKept
  <1>3. QED
    BY <1>1, <1>2 DEF SaverInv

\* The temporary file is opened, and not by another thread as well.
LEMMA OpenKeeps ==
    ASSUME BaseInv, SaverInv, NEW t \in Thread, OpenTemporary(t)
    PROVE  SaverInv'
  <1>1. /\ thread[t].pc = "open" /\ thread[t].pc \in Saving
        /\ UNCHANGED <<phase, memory, seq, dirty, target, setup, executed, confirmed, inherited>>
    BY DEF OpenTemporary, Saving, ghosts
  <1>2. PICK f, r : Opened(t, f, r)
    BY Opens
  <1>3. /\ f \in FileId /\ f # target /\ tmp' = f /\ data' = [data EXCEPT ![f] = Torn]
        /\ r.pc = "write" /\ r.file = f /\ r.mine = thread[t].mine
        /\ r.captured = thread[t].captured /\ r.image = thread[t].image
    BY <1>2 DEF Opened
  <1>4. \A u \in Thread \ {t} : thread[u].file # f
    <2>1. \A u \in Thread \ {t} : thread[u].pc \notin Saving
      BY <1>1, SaverIsUnique DEF SaverInv
    <2>2. \A u \in Thread \ {t} : thread[u].file = None
      BY <2>1 DEF BaseInv, OpenWhileWriting, Saving
    <2>3. QED
      BY <1>3, <2>2, DurabilityAssumption
  <1>5. Becomes(t, r) /\ r.alone = TRUE
    BY <1>2, <1>4 DEF Opened, Becomes
  <1>6. r.pc \in Saving /\ r.pc \notin {"validated", "flush"}
    BY <1>3 DEF Saving
  <1>7. OneAtATime'
    BY <1>1, <1>5, <1>6, TurnsKept DEF SaverInv
  <1>8. data \in [FileId -> Content] /\ target \in FileId \cup {None}
    BY DEF BaseInv, TypeOK
  <1>9. OnDisk' = OnDisk
    BY <1>1, <1>3, <1>8 DEF OnDisk
  <1>10. tmp' # None
    BY <1>3, DurabilityAssumption
  <1>11. FileOfTheSave' /\ SaveBehindMemory'
    BY <1>1, <1>3, <1>5, <1>9, <1>10, OfTheSaver, SaverGoesOn DEF SaverInv
  <1>12. QED
    BY <1>1, <1>3, <1>5, <1>6, <1>7, <1>9, <1>11, SnapshotUntouched

\* The whole image goes into the temporary file.
LEMMA WriteKeeps ==
    ASSUME BaseInv, SaverInv, NEW t \in Thread, WriteImage(t)
    PROVE  SaverInv'
  <1>1. /\ thread[t].pc = "write" /\ thread[t].pc \in Saving
        /\ UNCHANGED <<phase, memory, seq, dirty, tmp, target, setup, executed, confirmed, inherited>>
    BY DEF WriteImage, Saving, ghosts
  <1>2. tmp # None /\ thread[t].file = tmp /\ thread[t].alone = TRUE
    BY <1>1 DEF SaverInv, FileOfTheSave
  <1>3. data' = [data EXCEPT ![tmp] = thread[t].image]
    BY <1>2 DEF WriteImage
  <1>4. PICK r : /\ Becomes(t, r) /\ r.pc \in {"replace", "rename"}
                 /\ r.mine = thread[t].mine /\ r.captured = thread[t].captured
                 /\ r.image = thread[t].image /\ (r.pc = "replace" => setup.windows)
    BY Writes DEF BaseInv
  <1>5. r.pc \in Saving /\ r.pc \notin {"idle", "validated", "flush", "write", "clear"}
    BY <1>4 DEF Saving
  <1>6. OneAtATime'
    BY <1>1, <1>4, <1>5, TurnsKept DEF SaverInv
  <1>7. /\ data \in [FileId -> Content] /\ tmp \in FileId /\ tmp # target
        /\ target \in FileId \cup {None}
    BY <1>2 DEF BaseInv, TypeOK
  <1>8. OnDisk' = OnDisk /\ data'[tmp'] = r.image
    BY <1>1, <1>3, <1>4, <1>7 DEF OnDisk
  <1>9. FileOfTheSave' /\ SaveBehindMemory'
    BY <1>1, <1>2, <1>4, <1>5, <1>8, OfTheSaver, SaverGoesOn DEF SaverInv
  <1>10. QED
    BY <1>1, <1>4, <1>5, <1>6, <1>8, <1>9, SnapshotUntouched

\* Windows removes the snapshot before it renames.
LEMMA RemoveKeeps ==
    ASSUME BaseInv, SaverInv, NEW t \in Thread, RemoveTarget(t)
    PROVE  SaverInv'
  <1>1. /\ thread[t].pc = "replace" /\ thread[t].pc \in Saving /\ target' = None
        /\ UNCHANGED <<phase, memory, seq, dirty, data, tmp, setup, executed, confirmed, inherited>>
    BY DEF RemoveTarget, Saving, ghosts
  <1>2. tmp # None /\ data[tmp] = thread[t].image /\ setup.windows
    BY <1>1 DEF SaverInv, FileOfTheSave
  <1>3. PICK r : /\ Becomes(t, r) /\ r.pc = "rename"
                 /\ r.captured = thread[t].captured /\ r.image = thread[t].image
    BY Goes DEF BaseInv, RemoveTarget
  <1>4. OneAtATime'
    BY <1>1, <1>3, TurnsKept DEF SaverInv
  <1>5. OnDisk' = {} /\ ~Persisting'
    BY <1>1, <1>2 DEF OnDisk, Persisting
  <1>6. FileOfTheSave' /\ SaveBehindMemory'
    BY <1>1, <1>2, <1>3, <1>5, OfTheSaver, SaverGoesOn DEF SaverInv
  <1>7. SnapshotBehindMemory'
    BY <1>1, <1>5 DEF SaverInv, SnapshotBehindMemory
  <1>8. ClearMeansSaved' /\ NothingInherited'
    BY <1>1, OfTheSaver DEF SaverInv, ClearMeansSaved, NothingInherited
  <1>9. QED
    BY <1>4, <1>5, <1>6, <1>7, <1>8 DEF SaverInv

\* A rename puts the whole image in the snapshot's place; it fails only where
\* nothing is promised of it.
LEMMA RenameKeeps ==
    ASSUME BaseInv, SaverInv, NEW t \in Thread, Rename(t)
    PROVE  /\ SaverInv'
           /\ OnDisk' = OnDisk \/ (OnDisk' = thread[t].image /\ UNCHANGED memory)
  <1>1. /\ thread[t].pc = "rename" /\ thread[t].pc \in Saving /\ tmp' = None
        /\ UNCHANGED <<phase, memory, seq, dirty, data, setup, executed, confirmed, inherited>>
    BY DEF Rename, Saving, ghosts
  <1>2. tmp # None /\ data[tmp] = thread[t].image
    BY <1>1 DEF SaverInv, FileOfTheSave
  <1>3. Persisting' = Persisting
    BY <1>1 DEF Persisting
  <1>4. CASE target' = tmp /\ thread' = Goto(t, "clear")
    <2>1. PICK r : /\ Becomes(t, r) /\ r.pc = "clear" /\ r.mine = thread[t].mine
                   /\ r.captured = thread[t].captured /\ r.image = thread[t].image
      BY <1>4, Goes DEF BaseInv
    <2>2. r.pc \in Saving /\ r.pc \notin {"idle", "validated", "flush", "reply"}
      BY <2>1 DEF Saving
    <2>3. OneAtATime'
      BY <1>1, <2>1, <2>2, TurnsKept DEF SaverInv
    <2>4. OnDisk' = thread[t].image
      BY <1>1, <1>2, <1>4 DEF OnDisk
    <2>5. data'[target'] = r.image /\ target' # None
      BY <1>1, <1>2, <1>4, <2>1
    <2>6. FileOfTheSave' /\ SaveBehindMemory'
      BY <1>1, <2>1, <2>4, <2>5, OfTheSaver, SaverGoesOn DEF SaverInv
    <2>7. SnapshotBehindMemory'
      BY <1>1, <2>4, OfTheSaver DEF SaverInv, SnapshotBehindMemory
    <2>8. ClearMeansSaved' /\ NothingInherited'
      BY <1>1, OfTheSaver DEF SaverInv, ClearMeansSaved, NothingInherited
    <2>9. Persisting' => AckBehindSnapshot'
      <3> SUFFICES ASSUME Persisting PROVE AckBehindSnapshot'
        BY <1>3
      <3>1. AckBehindSnapshot
        BY DEF SaverInv
      <3>2. OnDisk \subseteq OnDisk' /\ confirmed' \subseteq OnDisk'
        BY <1>1, <2>4, OfTheSaver
      <3>3. r.mine # None => r.mine \in r.image
        BY <1>1, <2>1, OfTheSaver
      <3>4. QED
        BY <1>1, <2>1, <2>2, <3>1, <3>2, <3>3, AcksKept
    <2>10. QED
      BY <1>1, <2>3, <2>4, <2>6, <2>7, <2>8, <2>9 DEF SaverInv
  <1>5. CASE thread' = Finish(t, FALSE) /\ target' = target
    <2>1. OnDisk' = OnDisk
      BY <1>1, <1>5 DEF OnDisk
    <2>2. QED
      BY <1>1, <1>5, <2>1, FailedSaveKeeps
  <1>6. QED
    BY <1>4, <1>5 DEF Rename

\* The flag is cleared only when the snapshot is the memory.
LEMMA ClearKeeps ==
    ASSUME BaseInv, SaverInv, NEW t \in Thread, Clear(t)
    PROVE  SaverInv'
  <1>1. /\ thread[t].pc = "clear" /\ thread[t].pc \in Saving
        /\ dirty' = (dirty /\ ~MayClear(t))
        /\ UNCHANGED <<phase, memory, seq, data, tmp, target, setup, executed, confirmed, inherited>>
    BY DEF Clear, Saving, files, ghosts
  <1>2. OnDisk = thread[t].image
    BY <1>1 DEF SaverInv, FileOfTheSave, OnDisk
  <1>3. PICK r : Becomes(t, r) /\ r.pc = "reply" /\ r.mine = thread[t].mine
    BY Finishes DEF BaseInv, Clear
  <1>4. r.pc \notin Saving
    BY <1>3 DEF Saving
  <1>5. OneAtATime'
    BY <1>1, <1>3, <1>4, TurnsKept DEF SaverInv
  <1>6. FileOfTheSave' /\ SaveBehindMemory'
    BY <1>1, <1>3, <1>4, SaverStops DEF SaverInv
  <1>7. OnDisk' = OnDisk /\ Persisting' = Persisting
    BY <1>1 DEF OnDisk, Persisting
  <1>8. SnapshotBehindMemory'
    BY <1>1, <1>7 DEF SaverInv, SnapshotBehindMemory
  <1>9. ClearMeansSaved'
    <2>1. ~dirty' => thread[t].captured = seq
      BY <1>1, OfTheSaver DEF MayClear
    <2>2. QED
      BY <1>1, <1>2, <1>7, <2>1, OfTheSaver DEF ClearMeansSaved
  <1>10. Persisting' => AckBehindSnapshot'
    <2> SUFFICES ASSUME Persisting PROVE AckBehindSnapshot'
      BY <1>7
    <2>1. AckBehindSnapshot
      BY DEF SaverInv
    <2>2. confirmed' \subseteq OnDisk' /\ (r.mine # None => r.mine \in OnDisk')
      BY <1>1, <1>2, <1>3, <1>7, OfTheSaver
    <2>3. QED
      BY <1>1, <1>3, <1>4, <1>7, <2>1, <2>2, AcksKept
  <1>11. NothingInherited'
    BY <1>1 DEF SaverInv, NothingInherited
  <1>12. QED
    BY <1>5, <1>6, <1>8, <1>9, <1>10, <1>11 DEF SaverInv

\* An answer goes out; after a successful flush, for what is on disk.
LEMMA ReplyKeeps ==
    ASSUME BaseInv, SaverInv, NEW t \in Thread, Reply(t)
    PROVE  SaverInv'
  <1>1. /\ thread[t].pc = "reply" /\ thread' = [thread EXCEPT ![t] = Idle]
        /\ confirmed' = confirmed \cup (IF thread[t].ok THEN {thread[t].mine} \ {None} ELSE {})
        /\ UNCHANGED <<phase, memory, seq, dirty, data, tmp, target, setup, executed, inherited>>
    BY DEF Reply, files
  <1>2. phase \in {"serving", "stopped"}
    BY <1>1, Running
  <1>3. Becomes(t, Idle) /\ Idle.mine = None /\ Idle.pc = "idle"
    BY <1>1, IdleHeld, ThreadReplaced DEF BaseInv
  <1>4. Idle.pc \notin Saving
    BY <1>3 DEF Saving
  <1>5. OneAtATime'
    BY <1>1, <1>3, <1>4, TurnsKept DEF SaverInv
  <1>6. Persisting => confirmed' \subseteq OnDisk
    BY <1>1 DEF SaverInv, AckBehindSnapshot
  <1>7. QED
    BY <1>1, <1>2, <1>3, <1>4, <1>5, <1>6, QuietStep

\* All threads are gone; the files stay.
LEMMA DieKeeps ==
    ASSUME SaverInv, Die
    PROVE  SaverInv'
  <1>1. /\ phase' = "dead" /\ memory' = {} /\ \A t \in Thread : thread'[t] = Idle
        /\ UNCHANGED <<data, tmp, target, setup, executed, confirmed, inherited>>
    BY DEF Die, files, ghosts
  <1>2. \A t \in Thread : thread'[t].pc = "idle" /\ thread'[t].mine = None
    BY <1>1, IdleHeld
  <1>3. \A t \in Thread : thread'[t].pc \notin Saving
    BY <1>2 DEF Saving
  <1>4. OneAtATime'
    BY <1>2, <1>3 DEF OneAtATime, Thread
  <1>5. FileOfTheSave' /\ SaveBehindMemory'
    BY <1>3, NobodySaves
  <1>6. OnDisk' = OnDisk /\ Persisting' = Persisting
    BY <1>1 DEF OnDisk, Persisting
  <1>7. SnapshotBehindMemory' /\ ClearMeansSaved' /\ NothingInherited'
    BY <1>1, <1>6 DEF SaverInv, SnapshotBehindMemory, ClearMeansSaved, NothingInherited
  <1>8. Persisting' => AckBehindSnapshot'
    BY <1>1, <1>2, <1>6 DEF SaverInv, AckBehindSnapshot
  <1>9. QED
    BY <1>4, <1>5, <1>7, <1>8 DEF SaverInv

\* Stop returns; the object and the files stay as they are.
LEMMA ExitKeeps ==
    ASSUME SaverInv, Exit
    PROVE  SaverInv'
  <1>1. /\ phase = "stopped" /\ phase' = "exited"
        /\ UNCHANGED <<memory, seq, dirty, thread, data, tmp, target, setup, executed, confirmed, inherited>>
    BY DEF Exit, files, ghosts
  <1>2. OnDisk' = OnDisk /\ Persisting' = Persisting
    BY <1>1 DEF OnDisk, Persisting
  <1>3. OneAtATime' /\ FileOfTheSave'
    BY <1>1 DEF SaverInv, OneAtATime, FileOfTheSave
  <1>4. SaveBehindMemory' /\ SnapshotBehindMemory' /\ ClearMeansSaved' /\ NothingInherited'
    BY <1>1, <1>2 DEF SaverInv, SaveBehindMemory, SnapshotBehindMemory, ClearMeansSaved,
                      NothingInherited
  <1>5. Persisting' => AckBehindSnapshot'
    BY <1>1, <1>2 DEF SaverInv, AckBehindSnapshot
  <1>6. QED
    BY <1>3, <1>4, <1>5 DEF SaverInv

\* A snapshot that decodes is what a restart loads.
LEMMA LoadsSnapshot ==
    ASSUME OnDisk \in SUBSET Mutation
    PROVE  Loadable = OnDisk /\ OnDisk # Torn
  BY DurabilityAssumption DEF Loadable

\* What a start leaves in memory: the snapshot, and from an object that was
\* stopped perhaps more of what it had.
LEMMA RestartMemory ==
    ASSUME BaseInv, SaverInv, Restart
    PROVE  /\ Loadable = OnDisk /\ OnDisk \subseteq memory'
           /\ memory' \subseteq OnDisk \cup memory
           /\ phase = "exited" => OnDisk \subseteq memory
           /\ phase = "dead" => memory' = OnDisk
  <1>1. /\ OnDisk \in SUBSET Mutation
        /\ phase # "dead" => OnDisk \subseteq memory
        /\ phase = "dead" => memory = {}
    BY DEF SaverInv, SnapshotBehindMemory
  <1>2. Loadable = OnDisk /\ OnDisk # Torn
    BY <1>1, LoadsSnapshot
  <1>3. memory' = Restored /\ phase \in {"exited", "dead"}
    BY DEF Restart
  <1>4. CASE target = None
    <2>1. OnDisk = {} /\ memory' = memory
      BY <1>3, <1>4 DEF Restored, OnDisk
    <2>2. QED
      BY <1>1, <1>2, <2>1
  <1>5. CASE target # None
    <2>1. memory' = OnDisk \cup (memory \cap FirstInstall)
      BY <1>2, <1>3, <1>5 DEF Restored
    <2>2. QED
      BY <1>1, <1>2, <2>1
  <1>6. QED
    BY <1>4, <1>5

\* A restart continues from the snapshot.
LEMMA RestartKeeps ==
    ASSUME BaseInv, SaverInv, Restart
    PROVE  SaverInv'
  <1>1. /\ phase \in {"exited", "dead"} /\ phase' = "serving"
        /\ inherited' = memory' \ Loadable
        /\ UNCHANGED <<thread, data, tmp, target, setup, executed, confirmed>>
    BY DEF Restart, files
  <1>2. \A t \in Thread : thread'[t].pc = "idle"
    BY <1>1 DEF BaseInv, NoThreadLeft
  <1>3. \A t \in Thread : thread'[t].pc \notin Saving
    BY <1>2 DEF Saving
  <1>4. OneAtATime'
    BY <1>1 DEF SaverInv, OneAtATime
  <1>5. FileOfTheSave' /\ SaveBehindMemory'
    BY <1>3, NobodySaves
  <1>6. OnDisk' = OnDisk /\ Persisting' = Persisting
    BY <1>1 DEF OnDisk, Persisting
  <1>7. SnapshotBehindMemory'
    BY <1>1, <1>6, RestartMemory DEF SaverInv, SnapshotBehindMemory
  <1>8. ClearMeansSaved'
    BY <1>1, <1>6, RestartMemory DEF ClearMeansSaved
  <1>9. NothingInherited'
    BY <1>1, RestartMemory DEF SaverInv, NothingInherited
  <1>10. Persisting' => AckBehindSnapshot'
    BY <1>1, <1>2, <1>6 DEF SaverInv, AckBehindSnapshot
  <1>11. QED
    BY <1>4, <1>5, <1>7, <1>8, <1>9, <1>10 DEF SaverInv

-----------------------------------------------------------------------------
(* The invariant.                                                          *)

\* The initial states.
LEMMA InitIInv == Init => IInv
  <1> SUFFICES ASSUME Init PROVE IInv
    OBVIOUS
  <1>1. \A t \in Thread : thread[t] = Idle
    BY DEF Init
  <1>2. \A t \in Thread : thread[t].pc = "idle" /\ thread[t].file = None /\ thread[t].mine = None
    BY <1>1, IdleHeld
  <1>3. TypeOK
    <2>1. setup \in Setup
      BY DurabilityAssumption DEF Init
    <2>2. thread \in [Thread -> Held] /\ data \in [FileId -> Content]
      BY IdleHeld DEF Init, Content
    <2>3. QED
      BY <2>1, <2>2 DEF Init, TypeOK
  <1>4. BaseInv
    BY <1>2, <1>3 DEF BaseInv, OpenWhileWriting, NoThreadLeft
  <1>5. OnDisk = {}
    BY DEF OnDisk, Init
  <1>6. OneAtATime /\ FileOfTheSave /\ SaveBehindMemory
    BY <1>2 DEF OneAtATime, FileOfTheSave, SaveBehindMemory, Saving, Thread
  <1>7. SnapshotBehindMemory /\ ClearMeansSaved /\ NothingInherited /\ AckBehindSnapshot
    BY <1>2, <1>5 DEF SnapshotBehindMemory, ClearMeansSaved, NothingInherited,
                      AckBehindSnapshot, Init
  <1>8. QED
    BY <1>4, <1>6, <1>7 DEF IInv, SaverInv

\* No step changes the setup.
LEMMA SetupKept == [Next]_vars => setup' = setup
  BY DEF Next, vars, Proceed, Validate, Execute, WorkerFlush, OwnerFlush, OwnerStop, GiveUp,
         OpenTemporary, WriteImage, RemoveTarget, Rename, Clear, Reply, Exit, Die, Restart

\* Every step of a server with one saver preserves its invariant.
LEMMA NextSaver == BaseInv /\ SingleSaver /\ SaverInv /\ [Next]_vars => SaverInv'
  <1> SUFFICES ASSUME BaseInv, SingleSaver, SaverInv, [Next]_vars PROVE SaverInv'
    OBVIOUS
  <1>1. ASSUME NEW w \in Worker, Validate(w) PROVE SaverInv'
    BY <1>1, ValidateKeeps
  <1>2. ASSUME NEW t \in Thread, Proceed(t) PROVE SaverInv'
    BY <1>2, ExecuteKeeps, WorkerFlushKeeps, OpenKeeps, WriteKeeps, RemoveKeeps,
       RenameKeeps, ClearKeeps, ReplyKeeps DEF Proceed
  <1>3. ASSUME NEW t \in Thread, GiveUp(t) PROVE SaverInv'
    BY <1>3, GiveUpKeeps
  <1>4. CASE OwnerFlush \/ OwnerStop
    BY <1>4, OwnerKeeps
  <1>5. CASE Exit \/ Die
    BY <1>5, ExitKeeps, DieKeeps
  <1>6. CASE Restart
    BY <1>6, RestartKeeps
  <1>7. CASE UNCHANGED vars
    <2>1. UNCHANGED <<phase, memory, seq, dirty, thread, data, tmp, target, setup, executed, confirmed, inherited>>
      BY <1>7 DEF vars, files, ghosts
    <2>2. OnDisk' = OnDisk /\ Persisting' = Persisting
      BY <2>1 DEF OnDisk, Persisting
    <2>3. OneAtATime' /\ FileOfTheSave'
      BY <2>1 DEF SaverInv, OneAtATime, FileOfTheSave
    <2>4. SaveBehindMemory' /\ SnapshotBehindMemory' /\ ClearMeansSaved' /\ NothingInherited'
      BY <2>1, <2>2 DEF SaverInv, SaveBehindMemory, SnapshotBehindMemory, ClearMeansSaved,
                        NothingInherited
    <2>5. Persisting' => AckBehindSnapshot'
      BY <2>1, <2>2 DEF SaverInv, AckBehindSnapshot
    <2>6. QED
      BY <2>3, <2>4, <2>5 DEF SaverInv
  <1>8. QED
    BY <1>1, <1>2, <1>3, <1>4, <1>5, <1>6, <1>7 DEF Next

\* Every step preserves the invariant.
LEMMA NextIInv == IInv /\ [Next]_vars => IInv'
  <1> SUFFICES ASSUME IInv, [Next]_vars PROVE IInv'
    OBVIOUS
  <1>1. BaseInv'
    BY NextBase DEF IInv
  <1>2. SingleSaver' = SingleSaver
    BY SetupKept DEF SingleSaver
  <1>3. QED
    BY <1>1, <1>2, NextSaver DEF IInv

-----------------------------------------------------------------------------
(* Refinement of AtomicStore.                                              *)

\* The memory of the abstract store.
StoreMemory == IF setup.windows \/ phase = "dead" THEN Kept ELSE memory

\* A step that leaves the snapshot and the memory of the process alone.
LEMMA StoreStutters ==
    ASSUME OnDisk' = OnDisk, UNCHANGED <<memory, setup>>,
           phase \in {"serving", "stopped"}, phase' \in {"serving", "stopped"}
    PROVE  UNCHANGED <<StoreMemory, Kept>>
  BY DEF StoreMemory, Kept, Loadable

\* The initial states of the store.
LEMMA StoreInit == Init => Abstract!Init
  <1> SUFFICES ASSUME Init PROVE Abstract!Init
    OBVIOUS
  <1>1. OnDisk = {} /\ memory = {} /\ phase = "serving"
    BY DEF Init, OnDisk
  <1>2. Kept = {}
    BY <1>1 DEF Kept, Loadable
  <1>3. QED
    BY <1>1, <1>2 DEF Abstract!Init

\* A step of the store, in the words of this module.
StoreStep ==
    \/ \E m \in Mutation \ StoreMemory : StoreMemory' = StoreMemory \cup {m} /\ Kept' = Kept
    \/ Kept' \in SUBSET StoreMemory /\ Kept \subseteq Kept' /\ StoreMemory' = StoreMemory
    \/ StoreMemory' \in SUBSET StoreMemory /\ Kept \subseteq StoreMemory' /\ Kept' = Kept
    \/ UNCHANGED <<StoreMemory, Kept>>

\* Every step of a server with one saver is a step of the store.
LEMMA StepIsStoreStep ==
    ASSUME BaseInv, SingleSaver, SaverInv, [Next]_vars
    PROVE  StoreStep
  <1> USE DEF files, ghosts
  <1>1. setup' = setup
    BY SetupKept
  <1>2. OnDisk \in SUBSET Mutation /\ Loadable = OnDisk
    BY LoadsSnapshot DEF SaverInv, SnapshotBehindMemory
  <1>3. CASE setup.windows
    BY <1>1, <1>3 DEF StoreStep, StoreMemory, Kept
  <1> SUFFICES ASSUME ~setup.windows PROVE StoreStep
    BY <1>3
  <1>4. Kept = OnDisk /\ Kept' = Loadable'
    BY <1>1, <1>2 DEF Kept
  <1>5. ASSUME OnDisk' = OnDisk PROVE Kept' = Kept
    BY <1>4, <1>5, <1>2 DEF Loadable
  <1>6. ASSUME NEW t \in Thread, thread[t].pc # "idle", phase' = phase
        PROVE  /\ phase \in {"serving", "stopped"} /\ phase' \in {"serving", "stopped"}
               /\ StoreMemory = memory /\ StoreMemory' = memory'
    BY <1>1, <1>6, Running DEF StoreMemory
  <1>7. ASSUME phase \in {"serving", "stopped"}, phase' \in {"serving", "stopped"},
               UNCHANGED <<memory, data, target>>
        PROVE  StoreStep
    <2>1. OnDisk' = OnDisk
      BY <1>7 DEF OnDisk
    <2>2. QED
      BY <1>1, <1>7, <2>1, StoreStutters DEF StoreStep
  <1>8. ASSUME NEW w \in Worker, Validate(w) PROVE StoreStep
    BY <1>7, <1>8 DEF Validate
  <1>9. ASSUME NEW t \in Thread, Execute(t) PROVE StoreStep
    <2>1. /\ thread[t].pc # "idle" /\ UNCHANGED <<phase, data, target>>
      BY <1>9 DEF Execute
    <2>2. OnDisk' = OnDisk /\ StoreMemory = memory /\ StoreMemory' = memory'
      BY <1>6, <2>1 DEF OnDisk
    <2>3. CASE memory' = memory
      BY <1>5, <2>2, <2>3 DEF StoreStep
    <2>4. CASE \E m \in Mutation \ executed : memory' = memory \cup {m}
      <3>1. memory \subseteq executed
        BY DEF SaverInv, SnapshotBehindMemory
      <3>2. \E m \in Mutation \ memory : memory' = memory \cup {m}
        BY <2>4, <3>1
      <3>3. QED
        BY <1>5, <2>2, <3>2 DEF StoreStep
    <2>5. QED
      BY <1>9, <2>3, <2>4 DEF Execute
  <1>10. ASSUME NEW t \in Thread, WorkerFlush(t) \/ Clear(t) \/ Reply(t) \/ GiveUp(t)
         PROVE  StoreStep
    <2>1. thread[t].pc # "idle" /\ UNCHANGED <<phase, memory, data, target>>
      BY <1>10 DEF WorkerFlush, Clear, Reply, GiveUp
    <2>2. QED
      BY <1>6, <1>7, <2>1
  <1>11. ASSUME NEW t \in Thread, OpenTemporary(t) PROVE StoreStep
    <2>1. thread[t].pc # "idle" /\ UNCHANGED <<phase, memory, target>>
      BY <1>11 DEF OpenTemporary
    <2>2. PICK f, r : Opened(t, f, r)
      BY <1>11, Opens
    <2>3. data \in [FileId -> Content] /\ target \in FileId \cup {None}
      BY DEF BaseInv, TypeOK
    <2>4. OnDisk' = OnDisk
      BY <2>1, <2>2, <2>3 DEF Opened, OnDisk
    <2>5. QED
      BY <1>1, <1>6, <2>1, <2>4, StoreStutters DEF StoreStep
  <1>12. ASSUME NEW t \in Thread, WriteImage(t) PROVE StoreStep
    <2>1. /\ thread[t].pc = "write" /\ UNCHANGED <<phase, memory, target>>
          /\ \E c : data' = [data EXCEPT ![thread[t].file] = c]
      BY <1>12 DEF WriteImage
    <2>2. /\ data \in [FileId -> Content] /\ target \in FileId \cup {None}
          /\ tmp = target => tmp = None
      BY DEF BaseInv, TypeOK
    <2>3. thread[t].file = tmp /\ tmp # None
      BY <2>1 DEF SaverInv, FileOfTheSave
    <2>4. OnDisk' = OnDisk
      BY <2>1, <2>2, <2>3 DEF OnDisk
    <2>5. QED
      BY <1>1, <1>6, <2>1, <2>4, StoreStutters DEF StoreStep
  <1>13. ASSUME NEW t \in Thread, RemoveTarget(t) PROVE StoreStep
    BY <1>13 DEF RemoveTarget, SaverInv, FileOfTheSave
  <1>14. ASSUME NEW t \in Thread, Rename(t) PROVE StoreStep
    <2>1. /\ thread[t].pc # "idle" /\ thread[t].pc \in Saving
          /\ phase' = phase /\ memory' = memory
      BY <1>14 DEF Rename, Saving
    <2>2. StoreMemory = memory /\ StoreMemory' = memory
      BY <1>6, <2>1
    <2>3. CASE OnDisk' = OnDisk
      BY <1>5, <2>2, <2>3 DEF StoreStep
    <2>4. CASE OnDisk' = thread[t].image
      <3>1. /\ OnDisk \subseteq thread[t].image /\ thread[t].image \in SUBSET memory
            /\ thread[t].image \in SUBSET Mutation
        BY <2>1, OfTheSaver
      <3>2. Loadable' = OnDisk'
        BY <2>4, <3>1, DurabilityAssumption DEF Loadable
      <3>3. QED
        BY <1>4, <2>2, <2>4, <3>1, <3>2 DEF StoreStep
    <2>5. QED
      BY <1>14, <2>3, <2>4, RenameKeeps
  <1>15. CASE OwnerFlush \/ OwnerStop
    BY <1>7, <1>15 DEF OwnerFlush, OwnerStop
  <1>16. CASE Die
    <2>1. /\ phase # "dead" /\ phase' = "dead" /\ UNCHANGED <<data, target>>
      BY <1>16 DEF Die
    <2>2. OnDisk' = OnDisk /\ OnDisk \subseteq memory
      BY <2>1 DEF OnDisk, SaverInv, SnapshotBehindMemory
    <2>3. StoreMemory' = Kept' /\ StoreMemory = memory
      BY <2>1 DEF StoreMemory
    <2>4. QED
      BY <1>4, <1>5, <2>2, <2>3 DEF StoreStep
  <1>17. CASE Restart
    <2>1. /\ phase \in {"exited", "dead"} /\ phase' = "serving" /\ UNCHANGED <<data, target>>
      BY <1>17 DEF Restart
    <2>2. OnDisk' = OnDisk /\ StoreMemory' = memory'
      BY <1>1, <2>1 DEF OnDisk, StoreMemory
    <2>3. CASE phase = "dead"
      BY <1>4, <1>5, <1>17, <2>2, <2>3, RestartMemory DEF StoreStep, StoreMemory
    <2>4. CASE phase = "exited"
      <3>1. StoreMemory = memory /\ OnDisk \subseteq memory' /\ memory' \subseteq memory
        BY <1>17, <2>4, RestartMemory DEF StoreMemory
      <3>2. QED
        BY <1>4, <1>5, <2>2, <3>1 DEF StoreStep
    <2>5. QED
      BY <2>1, <2>3, <2>4
  <1>20. CASE Exit
    <2>1. /\ phase = "stopped" /\ phase' = "exited" /\ UNCHANGED <<memory, data, target>>
      BY <1>20 DEF Exit
    <2>2. OnDisk' = OnDisk
      BY <2>1 DEF OnDisk
    <2>3. StoreMemory' = StoreMemory
      BY <1>1, <2>1 DEF StoreMemory
    <2>4. QED
      BY <1>5, <2>2, <2>3 DEF StoreStep
  <1>18. CASE UNCHANGED vars
    <2>1. UNCHANGED <<phase, memory, setup, data, target>>
      BY <1>18 DEF vars
    <2>2. UNCHANGED <<StoreMemory, Kept>>
      BY <2>1 DEF StoreMemory, Kept, Loadable, OnDisk
    <2>3. QED
      BY <2>2 DEF StoreStep
  <1>19. QED
    BY <1>8, <1>9, <1>10, <1>11, <1>12, <1>13, <1>14, <1>15, <1>16, <1>17, <1>18, <1>20
       DEF Next, Proceed

\* The same, in the words of AtomicStore.
LEMMA StoreStepIsNext == StoreStep => [Abstract!Next]_(Abstract!vars)
  BY DEF StoreStep, StoreMemory, Abstract!Next, Abstract!vars, Abstract!Apply,
         Abstract!Replace, Abstract!Restart

-----------------------------------------------------------------------------
(* The theorems.                                                           *)

\* The invariant holds in every state, after any number of deaths and restarts.
THEOREM Invariance == Spec => []IInv
  BY InitIInv, NextIInv, PTL DEF Spec

\* Types, whoever saves; in particular the temporary name never refers to the
\* snapshot's file, so that opening it truncates no snapshot (write_all).
THEOREM TypeCorrect == Spec => []TypeOK
  <1>1. IInv => TypeOK
    BY DEF IInv, BaseInv
  <1>2. QED
    BY <1>1, Invariance, PTL

\* With one thread that saves, the snapshot decodes at every moment at which the
\* process may die (write_all: temporary file, then rename).
THEOREM SnapshotDecodes == Spec => [](SingleSaver => SnapshotNeverTorn)
  <1>1. IInv => (SingleSaver => SnapshotNeverTorn)
    BY LoadsSnapshot DEF IInv, SaverInv, SnapshotBehindMemory, SnapshotNeverTorn
  <1>2. QED
    BY <1>1, Invariance, PTL

\* With one thread that saves, no mutation is left that no later flush would write:
\* the sequence number tells a flush whether one landed meanwhile (flush, stop).
THEOREM NothingForgotten == Spec => [](SingleSaver => ClearMeansSaved)
  <1>1. IInv => (SingleSaver => ClearMeansSaved)
    BY DEF IInv, SaverInv
  <1>2. QED
    BY <1>1, Invariance, PTL

\* With one connection that saves, a mutation acknowledged after a flush that
\* reported success survives any number of failed saves, deaths and restarts
\* (flush, write_all, restore).
THEOREM ReportedSaveSurvives == Spec => [](SingleSaver => ReportedSaveIsDurable)
  <1>1. IInv => (SingleSaver => ReportedSaveIsDurable)
    <2> SUFFICES ASSUME SaverInv, Persisting
                 PROVE  /\ confirmed \subseteq Loadable
                        /\ phase \in {"serving", "stopped"} => confirmed \subseteq memory
      BY DEF IInv, ReportedSaveIsDurable, Persisting
    <2>1. confirmed \subseteq OnDisk /\ OnDisk \in SUBSET Mutation
      BY DEF SaverInv, AckBehindSnapshot, SnapshotBehindMemory
    <2>2. QED
      BY <2>1, LoadsSnapshot DEF SaverInv, SnapshotBehindMemory
  <1>2. QED
    BY <1>1, Invariance, PTL

\* Saving with one thread implements AtomicStore: the file operations of write_all,
\* interleaved with mutations and cut short by failures and deaths, are atomic and
\* monotone replacements of the snapshot, and a restart continues from it.
THEOREM Refinement == Spec /\ SingleSaver => ImplementsAtomicStore
  <1>1. IInv /\ SingleSaver /\ [Next]_vars => [Abstract!Next]_(Abstract!vars)
    BY StepIsStoreStep, StoreStepIsNext DEF IInv
  <1>2. SingleSaver /\ [Next]_vars => SingleSaver'
    BY SetupKept DEF SingleSaver
  <1>3. Spec /\ SingleSaver => []SingleSaver
    BY <1>2, PTL DEF Spec
  <1>4. QED
    BY <1>1, <1>3, StoreInit, Invariance, PTL DEF Spec, ImplementsAtomicStore, Abstract!Spec
===============================================================================
