----------------------------- MODULE AtomicStore -----------------------------
(***************************************************************************)
(* What saving promises (src/include/ctf/persistence.hpp, the comment on   *)
(* SnapshotStore): the snapshot is replaced as a whole, by a state the     *)
(* memory went through and never by an older one, and a restart continues  *)
(* from it.  Module Durability is shown to implement this.                 *)
(***************************************************************************)
CONSTANT Mutation       \* durable mutations, each applied once

VARIABLES
    memory,             \* the mutations the durable part of memory holds
    snapshot            \* the mutations the snapshot holds

vars == <<memory, snapshot>>

Init == memory = {} /\ snapshot = {}

Apply(m) ==
    /\ m \in Mutation \ memory
    /\ memory' = memory \cup {m}
    /\ UNCHANGED snapshot

\* A save may be late: it stores a state memory was in, not the current one.
Replace ==
    /\ snapshot' \in {s \in SUBSET memory : snapshot \subseteq s}
    /\ UNCHANGED memory

\* A new process has the snapshot alone; an object that was stopped and is
\* started again may keep more of what it had.
Restart ==
    /\ memory' \in {s \in SUBSET memory : snapshot \subseteq s}
    /\ UNCHANGED snapshot

Next == (\E m \in Mutation : Apply(m)) \/ Replace \/ Restart

Spec == Init /\ [][Next]_vars
=============================================================================
