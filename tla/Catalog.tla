------------------------------- MODULE Catalog -------------------------------
(***************************************************************************)
(* CollectiveCatalog (src/src/catalog.cpp) behind the lifecycle operations *)
(* of CoordinatorService (src/src/service.cpp): registration, generation   *)
(* advance, attempts, activation by a granting decision, cancellation and  *)
(* retirement, with the catalog's part of a snapshot and its reload.  The  *)
(* service holds its mutex for the whole of each operation, so an          *)
(* operation is one action; a refused one changes nothing and stutters.    *)
(* Saving is atomic here; module Durability takes it apart.                *)
(***************************************************************************)
EXTENDS Naturals, FiniteSets

CONSTANTS
    Collective,          \* collective identities
    Definition,          \* definitions that are not equivalent to each other
    Attempt,             \* attempt identities
    GivenGen,            \* generations a first registration may bring along
    None,                \* the unset identity
    Capacity,            \* catalog capacity (kCollectivesMaxLive in the code)
    MaxSeq,              \* bound: mutations explored
    MaxBoots             \* bound: stops and process deaths explored

ASSUME CatalogAssumption ==
    /\ None \notin Definition \cup Attempt
    /\ Capacity \in Nat /\ MaxSeq \in Nat /\ MaxBoots \in Nat

VARIABLES
    phase,      \* "serving", "stopped" (service stopped, object alive) or "down"
    records,    \* [Collective -> record]
    sequence,   \* mutation_sequence_ of the catalog
    dirty,      \* persistence_dirty_ of the service
    disk,       \* [exists : BOOLEAN, records] : the snapshot file
    boots,      \* stops and deaths so far (bounded by MaxBoots)
    stored,     \* ghost: <<collective, generation, definition>> ever saved
    begun       \* ghost: <<collective, generation, attempt>> ever begun

ghosts == <<stored, begun>>
vars == <<phase, records, sequence, dirty, disk, boots, ghosts>>

-----------------------------------------------------------------------------
(* CollectiveState and its predicates.                                     *)

Terminal == {"completed", "cancelled", "retired", "timed_out"}
AcceptsNewAuthority == {"registered", "planning", "active", "draining"}
State == {"unregistered"} \cup AcceptsNewAuthority \cup Terminal

\* A generation is brought by the caller or minted from the mutation sequence;
\* the two mint seeds differ in a constant (0xC0FFEE, 0xBEEF), so distinct
\* sequences give distinct identities within one kind.
Generation == ({"given"} \X GivenGen) \cup ({"registered", "advanced"} \X Nat)

\* CollectiveRecord: lifecycle, definition, generation, current attempt, and the
\* sequence of its last mutation.  Times, the attempt count, the ancestry depth
\* and the declared volume decide nothing here and are left out.
Record == [state : State, def : Definition \cup {None},
           gen : Generation \cup {None}, attempt : Attempt \cup {None}, last : Nat]
Unregistered == [state |-> "unregistered", def |-> None, gen |-> None,
                 attempt |-> None, last |-> 0]

Registered == {c \in Collective : records[c].state # "unregistered"}

\* Which generation names which definition in a set of records.
Named(recs) == {<<c, recs[c].gen, recs[c].def>> :
                  c \in {d \in Collective : recs[d].state # "unregistered"}}

\* The mutation sequence a load resumes from: the highest one on record.
HighestIn(recs) ==
    CHOOSE n \in {0} \cup {recs[c].last : c \in Collective} :
        \A c \in Collective : recs[c].last <= n

\* How many collectives a set of records holds.
CountIn(recs) == Cardinality({c \in Collective : recs[c].state # "unregistered"})

\* The capacity check of a first registration.
HasRoom == CountIn(records) < Capacity

\* The identity a new registration gets.
MintedGeneration(given) ==
    IF given = None THEN <<"registered", sequence + 1>> ELSE <<"given", given>>

\* The identity a changed definition gets; what the caller brought is ignored.
AdvancedGenerationKept(c) == records[c].gen

AdvancedGeneration(c) == <<"advanced", sequence + 1>>

\* The attempt a changed definition starts with.
AttemptCarriedOver(c) == records[c].attempt

AttemptAfterAdvance(c) == None

MayReopenTerminal(c) == records[c].state # "unregistered"

\* A stored definition that may be replaced by another.
MayAdvance(c) == /\ records[c].state # "unregistered"
                 /\ records[c].state \notin Terminal

SequenceRestarted(recs) == CountIn(recs)

ResumedSequence(recs) == HighestIn(recs)

\* Store a mutated record, stamped with the sequence the mutation draws.
Stamped(c, r) == [records EXCEPT ![c] = [r EXCEPT !.last = sequence + 1]]

-----------------------------------------------------------------------------
Init ==
    /\ phase = "serving"
    /\ records = [c \in Collective |-> Unregistered]
    /\ sequence = 0
    /\ dirty = FALSE
    /\ disk = [exists |-> FALSE, records |-> [c \in Collective |-> Unregistered]]
    /\ boots = 0
    /\ stored = {} /\ begun = {}

\* The catalog mutation c |-> r of one operation; durable says whether the
\* service marks it (mark_durable_mutation).
Mutate(c, r, durable) ==
    /\ sequence < MaxSeq
    /\ sequence' = sequence + 1
    /\ records' = Stamped(c, r)
    /\ dirty' = (dirty \/ durable)
    /\ UNCHANGED <<phase, disk, boots>>

\* register_collective for an identity the catalog does not know.
RegisterNew(c, d, given) ==
    /\ phase = "serving"
    /\ records[c].state = "unregistered"
    /\ HasRoom
    /\ Mutate(c, [Unregistered EXCEPT !.state = "registered", !.def = d,
                                       !.gen = MintedGeneration(given)], TRUE)
    /\ UNCHANGED ghosts

\* register_collective for a known, non-terminal identity with a definition that
\* is not equivalent to the stored one: the generation advances and the attempt
\* is dropped.  An equivalent one changes nothing.
RegisterChanged(c, d) ==
    /\ phase = "serving"
    /\ MayAdvance(c)
    /\ records[c].def # d
    /\ Mutate(c, [records[c] EXCEPT !.state = "registered", !.def = d,
                                     !.gen = AdvancedGeneration(c),
                                     !.attempt = AttemptAfterAdvance(c)], TRUE)
    /\ UNCHANGED ghosts

\* begin_attempt, called with the generation in force.  Only the attempt that is
\* current already is refused.
BeginAttempt(c, a) ==
    /\ phase = "serving"
    /\ records[c].state \in AcceptsNewAuthority
    /\ records[c].attempt # a
    /\ Mutate(c, [records[c] EXCEPT !.state = "planning", !.attempt = a], TRUE)
    /\ begun' = begun \cup {<<c, records[c].gen, a>>}
    /\ UNCHANGED stored

\* plan_flow_group reaches a granting decision for the current attempt: the
\* collective becomes active.  The service does not mark this as durable.
Activate(c) ==
    /\ phase = "serving"
    /\ records[c].attempt # None
    /\ records[c].state \notin Terminal
    /\ Mutate(c, [records[c] EXCEPT !.state = "active"], FALSE)
    /\ UNCHANGED ghosts

\* cancel_collective and retire_collective, called with the generation in force
\* and an attempt that is unset or current.  Neither asks whether the service is
\* running.
Close(c, a, st) ==
    /\ phase \in {"serving", "stopped"}
    /\ records[c].state \notin Terminal \cup {"unregistered"}
    /\ records[c].attempt = None \/ a = None \/ a = records[c].attempt
    /\ Mutate(c, [records[c] EXCEPT !.state = st], TRUE)
    /\ UNCHANGED ghosts

CancelCollective(c, a) == Close(c, a, "cancelled")

RetireCollective(c, a) == Close(c, a, "retired")

\* A completed save of the catalog (export_all).
SaveCatalog ==
    /\ disk' = [exists |-> TRUE, records |-> records]
    /\ dirty' = FALSE
    /\ stored' = stored \cup Named(records)

Save ==
    /\ phase \in {"serving", "stopped"}
    /\ dirty
    /\ SaveCatalog
    /\ UNCHANGED <<phase, records, sequence, boots, begun>>

\* CoordinatorService::stop flushes what is dirty; the write may fail, and the
\* service is stopped all the same.
StopService ==
    /\ phase = "serving"
    /\ boots < MaxBoots
    /\ phase' = "stopped"
    /\ boots' = boots + 1
    /\ \/ dirty /\ SaveCatalog
       \/ UNCHANGED <<disk, dirty, stored>>
    /\ UNCHANGED <<records, sequence, begun>>

\* The process dies, or exits after a stop; what was not saved is lost.
ProcessDeath ==
    /\ phase # "down"
    /\ boots < MaxBoots
    /\ phase' = "down"
    /\ records' = [c \in Collective |-> Unregistered]
    /\ sequence' = 0
    /\ dirty' = FALSE
    /\ boots' = boots + 1
    /\ UNCHANGED <<disk, ghosts>>

\* CoordinatorServer::start: configure_persistence clears the dirty flag, then
\* restore loads the snapshot when there is one; the records of an object that
\* was stopped are replaced by it.
Start ==
    /\ phase \in {"stopped", "down"}
    /\ phase' = "serving"
    /\ dirty' = FALSE
    /\ \/ /\ disk.exists
          /\ records' = disk.records
          /\ sequence' = ResumedSequence(disk.records)
       \/ /\ ~disk.exists
          /\ UNCHANGED <<records, sequence>>
    /\ UNCHANGED <<disk, boots, ghosts>>

Next ==
    \/ \E c \in Collective, d \in Definition :
          \/ \E given \in GivenGen \cup {None} : RegisterNew(c, d, given)
          \/ RegisterChanged(c, d)
    \/ \E c \in Collective, a \in Attempt : BeginAttempt(c, a)
    \/ \E c \in Collective : Activate(c)
    \/ \E c \in Collective, a \in Attempt \cup {None} :
          CancelCollective(c, a) \/ RetireCollective(c, a)
    \/ Save
    \/ StopService
    \/ ProcessDeath
    \/ Start

Spec == Init /\ [][Next]_vars

-----------------------------------------------------------------------------
(* Properties.                                                             *)

\* Type correctness of the catalog and its snapshot; the snapshot never holds
\* more collectives than the capacity, which load would refuse for good.
TypeOK ==
    /\ phase \in {"serving", "stopped", "down"}
    /\ records \in [Collective -> Record]
    /\ sequence \in Nat
    /\ dirty \in BOOLEAN
    /\ disk \in [exists : BOOLEAN, records : [Collective -> Record]]
    /\ CountIn(records) <= Capacity /\ CountIn(disk.records) <= Capacity
    /\ boots \in Nat
    /\ stored \in SUBSET (Collective \X Generation \X Definition)
    /\ begun \in SUBSET (Collective \X Generation \X Attempt)

\* Mutations are totally ordered: no two records carry the same sequence and
\* none is ahead of the counter, in memory and after any reload, so the counter
\* a load computes is never one already drawn by a record it loaded
\* (register_definition, begin_attempt, set_state, load).
MutationsTotallyOrdered ==
    /\ \A c \in Collective : records[c].last <= sequence
    /\ \A c, d \in Registered : c # d => records[c].last # records[d].last

\* A collective whose cancellation or retirement reached the disk is never live
\* again: no registration, attempt, decision, restart or process death brings it
\* back or changes what it was (service.cpp: "a durable definition is never
\* resurrected").
DurablyTerminalIsForever ==
    phase # "down" => \A c \in Collective :
        disk.records[c].state \in Terminal => records[c] = disk.records[c]

\* The current attempt was begun under the current generation, and an active or
\* planning collective has one: no attempt of an earlier membership is carried
\* into a new generation, by an advance or a reload.
AttemptOfThisGeneration ==
    \A c \in Collective :
        /\ records[c].attempt # None => <<c, records[c].gen, records[c].attempt>> \in begun
        /\ records[c].state \in {"planning", "active"} => records[c].attempt # None

\* A generation of a collective never names two definitions among all that was
\* ever saved and what is in memory, although mutations are lost, a reload turns
\* the sequence back that generations are minted from, and activations draw
\* numbers that are never saved (catalog.cpp: "Every membership or semantics
\* change mints a new generation").
GenerationNamesOneDefinition ==
    \A x, y \in stored \cup Named(records) : x[1] = y[1] /\ x[2] = y[2] => x[3] = y[3]
=============================================================================
