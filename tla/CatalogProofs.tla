---------------------------- MODULE CatalogProofs ----------------------------
(***************************************************************************)
(* Proofs about Catalog for every set of collectives, definitions,         *)
(* attempts and brought generations, every capacity and every bound.       *)
(***************************************************************************)
EXTENDS Catalog, FiniteSetTheorems, TLAPS

\* The collectives a set of records holds.
Known(recs) == {c \in Collective : recs[c].state # "unregistered"}

\* What holds of every record, in memory and on disk: an identity without a
\* record is blank, a registered one has a definition, a generation and a
\* sequence, a minted generation's number is not ahead of it, and the attempt
\* was begun under the generation it stands with.
WellFormed(recs) == \A c \in Collective :
    /\ recs[c].state = "unregistered" => recs[c] = Unregistered
    /\ recs[c].state # "unregistered" =>
          /\ recs[c].def \in Definition /\ recs[c].gen \in Generation /\ recs[c].last >= 1
          /\ \A k \in {"registered", "advanced"}, n \in Nat :
                recs[c].gen = <<k, n>> => n <= recs[c].last
    /\ recs[c].attempt # None => <<c, recs[c].gen, recs[c].attempt>> \in begun
    /\ recs[c].state \in {"planning", "active"} => recs[c].attempt # None

\* n is the highest sequence on record (or 0), and no two records share one.
OrderedUpTo(recs, n) ==
    /\ n = 0 \/ \E c \in Collective : recs[c].last = n
    /\ \A c \in Collective : recs[c].last <= n
    /\ \A c, d \in Known(recs) : c # d => recs[c].last # recs[d].last

\* The snapshot is never ahead of a running process: each record on disk is an
\* earlier or the present version of the one in memory, and a terminal one is
\* the present version.
DiskBehindMemory ==
    /\ phase # "down" => \A c \in Collective :
          /\ disk.records[c].last <= records[c].last
          /\ c \in Known(disk.records) => c \in Known(records)
    /\ phase = "down" => \A c \in Collective : records[c] = Unregistered
    /\ phase = "down" => sequence = 0
    /\ ~disk.exists => \A c \in Collective : disk.records[c] = Unregistered

\* Whatever was ever saved for a collective is not newer than its record on
\* disk, and what is on disk was saved.
StoredBehindDisk ==
    /\ \A c \in Collective, g \in Generation, d \in Definition :
          <<c, g, d>> \in stored =>
             /\ c \in Known(disk.records)
             /\ \A k \in {"registered", "advanced"}, n \in Nat :
                   g = <<k, n>> => n <= disk.records[c].last
    /\ \A c \in Known(disk.records) :
          <<c, disk.records[c].gen, disk.records[c].def>> \in stored

\* A generation names one definition, said of the two sources apart.
OneDefinition ==
    \A c \in Collective, g \in Generation, d \in Definition :
        <<c, g, d>> \in stored =>
           /\ \A e \in Definition : <<c, g, e>> \in stored => e = d
           /\ c \in Known(records) /\ records[c].gen = g => records[c].def = d

\* The inductive invariant behind the safety theorems.
IInv ==
    /\ TypeOK
    /\ IsFiniteSet(Known(records)) /\ IsFiniteSet(Known(disk.records))
    /\ WellFormed(records) /\ WellFormed(disk.records)
    /\ OrderedUpTo(records, sequence)
    /\ \E n \in Nat : OrderedUpTo(disk.records, n)
    /\ DiskBehindMemory
    /\ DurablyTerminalIsForever
    /\ StoredBehindDisk
    /\ OneDefinition

-----------------------------------------------------------------------------
(* What the operators give.                                                *)

\* The blank record of an unknown identity is a record.
LEMMA UnregisteredIsARecord == Unregistered \in Record
  BY DEF Unregistered, Record, State

\* The sequence a load computes is the highest one among the records it loaded
\* (CollectiveCatalog::load).
LEMMA ResumedIsHighest ==
    ASSUME NEW recs \in [Collective -> Record], NEW n \in Nat, OrderedUpTo(recs, n)
    PROVE  ResumedSequence(recs) = n
  <1> DEFINE S == {0} \cup {recs[c].last : c \in Collective}
             Top(m) == \A c \in Collective : recs[c].last <= m
  <1>1. n \in S /\ Top(n)
    BY DEF OrderedUpTo
  <1>2. \A c \in Collective : recs[c].last \in Nat
    BY DEF Record
  <1>3. \A m \in S : Top(m) => m = n
    <2> SUFFICES ASSUME NEW m \in S, Top(m) PROVE m = n
      OBVIOUS
    <2>1. m \in Nat /\ m <= n
      BY <1>1, <1>2
    <2>2. n <= m
      BY <1>1, <2>1
    <2>3. QED
      BY <2>1, <2>2
  <1>4. (CHOOSE m \in S : Top(m)) = n
    <2> HIDE DEF S, Top
    <2> QED
      BY <1>1, <1>3
  <1>5. QED
    BY <1>4 DEF ResumedSequence, HighestIn

\* Stamping a record changes its sequence and nothing else.
LEMMA StampedRecord ==
    ASSUME NEW r \in Record, NEW n \in Nat
    PROVE  LET q == [r EXCEPT !.last = n]
           IN  /\ q \in Record /\ q.last = n /\ q.state = r.state
               /\ q.def = r.def /\ q.gen = r.gen /\ q.attempt = r.attempt
  BY DEF Record

\* What Mutate leaves of the records: one of them replaced and stamped.
LEMMA MutatedRecords ==
    ASSUME TypeOK, NEW c \in Collective, NEW r \in Record, NEW durable \in BOOLEAN,
           Mutate(c, r, durable)
    PROVE  /\ records' \in [Collective -> Record]
           /\ sequence' = sequence + 1 /\ sequence' \in Nat
           /\ records'[c].state = r.state
           /\ records'[c].def = r.def
           /\ records'[c].gen = r.gen
           /\ records'[c].attempt = r.attempt
           /\ records'[c].last = sequence + 1
           /\ \A d \in Collective \ {c} : records'[d] = records[d]
  <1> DEFINE q == [r EXCEPT !.last = sequence + 1]
  <1>1. sequence \in Nat /\ records \in [Collective -> Record]
    BY DEF TypeOK
  <1>2. /\ q \in Record /\ q.last = sequence + 1 /\ q.state = r.state
        /\ q.def = r.def /\ q.gen = r.gen /\ q.attempt = r.attempt
    BY <1>1, StampedRecord
  <1>3. records' = [records EXCEPT ![c] = q] /\ sequence' = sequence + 1
    BY DEF Mutate, Stamped
  <1>4. QED
    <2> HIDE DEF q
    <2> QED
      BY <1>1, <1>2, <1>3

-----------------------------------------------------------------------------
(* Every mutation preserves the invariant.                                 *)

\* A mutation of a live or new record preserves IInv when it keeps the record
\* well formed, fits the capacity and gives no saved generation another
\* definition.
LEMMA MutatePreserves ==
    ASSUME IInv, phase # "down",
           NEW c \in Collective, NEW r \in Record, NEW durable \in BOOLEAN,
           Mutate(c, r, durable),
           records[c].state \notin Terminal,
           c \in Known(records) \/ CountIn(records) < Capacity,
           r.state # "unregistered", r.def \in Definition, r.gen \in Generation,
           \A k \in {"registered", "advanced"}, n \in Nat :
               r.gen = <<k, n>> => n <= sequence + 1,
           \A d \in Definition : <<c, r.gen, d>> \in stored => d = r.def,
           stored' = stored, begun \subseteq begun',
           begun' \in SUBSET (Collective \X Generation \X Attempt),
           r.attempt # None => <<c, r.gen, r.attempt>> \in begun',
           r.state \in {"planning", "active"} => r.attempt # None
    PROVE  IInv'
  <1> USE DEF Known
  <1>1. /\ records' \in [Collective -> Record]
        /\ sequence' = sequence + 1 /\ sequence' \in Nat
        /\ records'[c].state = r.state
        /\ records'[c].def = r.def
        /\ records'[c].gen = r.gen
        /\ records'[c].attempt = r.attempt
        /\ records'[c].last = sequence + 1
        /\ \A d \in Collective \ {c} : records'[d] = records[d]
    BY MutatedRecords DEF IInv
  <1>2. /\ UNCHANGED <<phase, disk, boots>>
        /\ dirty' = (dirty \/ durable)
    BY DEF Mutate
  <1>3. \A d \in Collective : records[d].last \in Nat /\ records[d].last <= sequence
    BY DEF IInv, TypeOK, Record, OrderedUpTo
  <1>a. sequence \in Nat
    BY DEF IInv, TypeOK
  <1>4. Known(records') = Known(records) \cup {c}
    BY <1>1
  <1>5. IsFiniteSet(Known(records')) /\ CountIn(records') <= Capacity
    <2>1. IsFiniteSet(Known(records)) /\ CountIn(records) = Cardinality(Known(records))
      BY DEF IInv, CountIn
    <2>2. CountIn(records') = Cardinality(Known(records'))
      BY DEF CountIn
    <2>3. /\ IsFiniteSet(Known(records) \cup {c})
          /\ \/ c \in Known(records) /\ Cardinality(Known(records) \cup {c}) = Cardinality(Known(records))
             \/ Cardinality(Known(records) \cup {c}) = Cardinality(Known(records)) + 1
      <3> HIDE DEF Known
      <3> QED BY <2>1, FS_AddElement
    <2>4. CountIn(records) \in Nat /\ CountIn(records) <= Capacity /\ Capacity \in Nat
      BY <2>1, FS_CardinalityType, CatalogAssumption DEF IInv, TypeOK
    <2>5. CASE c \in Known(records)
      <3>1. Known(records') = Known(records)
        BY <1>4, <2>5
      <3>2. QED
        BY <2>1, <2>2, <2>4, <3>1
    <2>6. CASE c \notin Known(records)
      <3>1. CountIn(records) + 1 <= Capacity
        BY <2>4, <2>6
      <3>2. CountIn(records') = CountIn(records) + 1
        BY <1>4, <2>1, <2>2, <2>3, <2>6
      <3>3. IsFiniteSet(Known(records'))
        BY <1>4, <2>3
      <3>4. QED
        BY <3>1, <3>2, <3>3
    <2>7. QED
      BY <2>5, <2>6
  <1>6. TypeOK'
    BY <1>1, <1>2, <1>5 DEF IInv, TypeOK, CountIn
  <1>7. WellFormed(records)'
    BY <1>1, <1>3, <1>a DEF IInv, WellFormed
  <1>8. WellFormed(disk.records)'
    BY <1>2 DEF IInv, WellFormed
  <1>9. OrderedUpTo(records, sequence)'
    BY <1>1, <1>3, <1>a, <1>4 DEF IInv, OrderedUpTo
  <1>10. (\E n \in Nat : OrderedUpTo(disk.records, n))'
    BY <1>2 DEF IInv, OrderedUpTo
  <1>11. DiskBehindMemory'
    <2>1. \A d \in Collective : disk.records[d].last \in Nat
      BY DEF IInv, TypeOK, Record
    <2>2. disk.records[c].last <= sequence + 1
      BY <1>3, <1>a, <2>1 DEF IInv, DiskBehindMemory
    <2>3. QED
      BY <1>1, <1>2, <1>4, <2>2 DEF IInv, DiskBehindMemory
  <1>12. DurablyTerminalIsForever'
    BY <1>1, <1>2 DEF IInv, DurablyTerminalIsForever
  <1>13. StoredBehindDisk'
    BY <1>2 DEF IInv, StoredBehindDisk
  <1>14. OneDefinition'
    BY <1>1, <1>4 DEF IInv, OneDefinition
  <1>15. (IsFiniteSet(Known(records)) /\ IsFiniteSet(Known(disk.records)))'
    BY <1>2, <1>5 DEF IInv
  <1>16. QED
    BY <1>6, <1>7, <1>8, <1>9, <1>10, <1>11, <1>12, <1>13, <1>14, <1>15 DEF IInv

\* A first registration: nothing was ever saved under its identity, so whatever
\* generation it brings or gets is not taken.
LEMMA RegisterNewPreserves ==
    ASSUME IInv, NEW c \in Collective, NEW d \in Definition,
           NEW given \in GivenGen \cup {None}, RegisterNew(c, d, given)
    PROVE  IInv'
  <1> DEFINE r == [Unregistered EXCEPT !.state = "registered", !.def = d,
                                        !.gen = MintedGeneration(given)]
  <1>1. /\ Mutate(c, r, TRUE) /\ UNCHANGED <<stored, begun>> /\ phase = "serving"
        /\ records[c].state = "unregistered" /\ CountIn(records) < Capacity
    BY DEF RegisterNew, ghosts, HasRoom
  <1>2. sequence \in Nat
    BY DEF IInv, TypeOK
  <1>3. /\ MintedGeneration(given) \in Generation
        /\ \A k \in {"registered", "advanced"}, n \in Nat :
              MintedGeneration(given) = <<k, n>> => n <= sequence + 1
    <2>1. CASE given = None
      BY <1>2, <2>1 DEF MintedGeneration, Generation
    <2>2. CASE given # None
      BY <2>2 DEF MintedGeneration, Generation
    <2>3. QED
      BY <2>1, <2>2
  <1>4. /\ r \in Record /\ r.state = "registered" /\ r.def = d
        /\ r.gen = MintedGeneration(given) /\ r.attempt = None
    BY <1>3 DEF Unregistered, Record, State, AcceptsNewAuthority
  <1>5. \A e \in Definition, g \in Generation : <<c, g, e>> \notin stored
    BY <1>1 DEF IInv, StoredBehindDisk, DiskBehindMemory, Known
  <1>6. records[c].state \notin Terminal
    BY <1>1 DEF Terminal
  <1>7. begun' \in SUBSET (Collective \X Generation \X Attempt)
    BY <1>1 DEF IInv, TypeOK
  <1>8. QED
    <2> HIDE DEF r
    <2> QED
      BY <1>1, <1>3, <1>4, <1>5, <1>6, <1>7, MutatePreserves

\* A changed definition: its generation carries a number above every one the
\* disk has seen, and the attempt is gone.
LEMMA RegisterChangedPreserves ==
    ASSUME IInv, NEW c \in Collective, NEW d \in Definition, RegisterChanged(c, d)
    PROVE  IInv'
  <1> DEFINE r == [records[c] EXCEPT !.state = "registered", !.def = d,
                                      !.gen = AdvancedGeneration(c),
                                      !.attempt = AttemptAfterAdvance(c)]
  <1>1. /\ Mutate(c, r, TRUE) /\ UNCHANGED <<stored, begun>> /\ phase = "serving"
        /\ records[c].state # "unregistered" /\ records[c].state \notin Terminal
    BY DEF RegisterChanged, MayAdvance, ghosts
  <1>2. sequence \in Nat /\ records[c] \in Record
    BY DEF IInv, TypeOK
  <1>3. /\ AdvancedGeneration(c) \in Generation
        /\ \A k \in {"registered", "advanced"}, n \in Nat :
              AdvancedGeneration(c) = <<k, n>> => n <= sequence + 1
    BY <1>2 DEF AdvancedGeneration, Generation
  <1>4. /\ r \in Record /\ r.state = "registered" /\ r.def = d
        /\ r.gen = AdvancedGeneration(c) /\ r.attempt = None
    BY <1>2, <1>3 DEF Record, State, AcceptsNewAuthority, AttemptAfterAdvance
  <1>5. \A e \in Definition : <<c, AdvancedGeneration(c), e>> \notin stored
    <2> SUFFICES ASSUME NEW e \in Definition, <<c, AdvancedGeneration(c), e>> \in stored
                 PROVE  FALSE
      OBVIOUS
    <2>1. sequence + 1 <= disk.records[c].last
      BY <1>2, <1>3 DEF IInv, StoredBehindDisk, AdvancedGeneration
    <2>2. disk.records[c].last <= records[c].last /\ records[c].last <= sequence
      BY <1>1 DEF IInv, DiskBehindMemory, OrderedUpTo
    <2>3. disk.records[c].last \in Nat /\ records[c].last \in Nat
      BY DEF IInv, TypeOK, Record
    <2>4. QED
      BY <1>2, <2>1, <2>2, <2>3
  <1>6. c \in Known(records)
    BY <1>1 DEF Known
  <1>7. begun' \in SUBSET (Collective \X Generation \X Attempt)
    BY <1>1 DEF IInv, TypeOK
  <1>8. QED
    <2> HIDE DEF r
    <2> QED
      BY <1>1, <1>3, <1>4, <1>5, <1>6, <1>7, MutatePreserves

\* A mutation that keeps definition and generation of a live record.
LEMMA SameGenerationPreserves ==
    ASSUME IInv, phase # "down", NEW c \in Collective, NEW r \in Record,
           NEW durable \in BOOLEAN, Mutate(c, r, durable),
           records[c].state \notin Terminal, records[c].state # "unregistered",
           r.def = records[c].def, r.gen = records[c].gen, r.state # "unregistered",
           stored' = stored, begun \subseteq begun',
           begun' \in SUBSET (Collective \X Generation \X Attempt),
           r.attempt # None => <<c, r.gen, r.attempt>> \in begun',
           r.state \in {"planning", "active"} => r.attempt # None
    PROVE  IInv'
  <1>1. sequence \in Nat /\ records[c].last \in Nat
    BY DEF IInv, TypeOK, Record
  <1>2. c \in Known(records)
    BY DEF Known
  <1>3. records[c].def \in Definition /\ records[c].gen \in Generation
    BY DEF IInv, WellFormed
  <1>4. \A k \in {"registered", "advanced"}, n \in Nat :
            records[c].gen = <<k, n>> => n <= sequence + 1
    <2>1. records[c].last <= sequence
      BY DEF IInv, OrderedUpTo
    <2>2. \A k \in {"registered", "advanced"}, n \in Nat :
              records[c].gen = <<k, n>> => n <= records[c].last
      BY DEF IInv, WellFormed
    <2>3. \A n \in Nat : n <= records[c].last => n <= sequence + 1
      BY <1>1, <2>1
    <2>4. QED
      BY <2>2, <2>3
  <1>5. \A d \in Definition : <<c, records[c].gen, d>> \in stored => d = records[c].def
    BY <1>2, <1>3 DEF IInv, OneDefinition
  <1>6. QED
    BY <1>2, <1>3, <1>4, <1>5, MutatePreserves

\* An attempt that begins is recorded with the generation in force (begin_attempt).
LEMMA BeginAttemptPreserves ==
    ASSUME IInv, NEW c \in Collective, NEW a \in Attempt, BeginAttempt(c, a)
    PROVE  IInv'
  <1> DEFINE r == [records[c] EXCEPT !.state = "planning", !.attempt = a]
  <1>1. /\ Mutate(c, r, TRUE)
        /\ phase = "serving" /\ stored' = stored
        /\ records[c].state \in AcceptsNewAuthority
        /\ begun' = begun \cup {<<c, records[c].gen, a>>}
    BY DEF BeginAttempt
  <1>2. records[c] \in Record
    BY DEF IInv, TypeOK
  <1>3. /\ r \in Record /\ r.state = "planning" /\ r.attempt = a
        /\ r.def = records[c].def /\ r.gen = records[c].gen
    BY <1>2 DEF Record, State, AcceptsNewAuthority
  <1> HIDE DEF r
  <1>4. records[c].state \notin Terminal /\ records[c].state # "unregistered"
    BY <1>1 DEF Terminal, AcceptsNewAuthority
  <1>5. records[c].gen \in Generation
    BY <1>4 DEF IInv, WellFormed
  <1>6. begun' \in SUBSET (Collective \X Generation \X Attempt)
    BY <1>1, <1>5 DEF IInv, TypeOK
  <1>7. a # None
    BY CatalogAssumption
  <1>8. <<c, r.gen, r.attempt>> \in begun' /\ begun \subseteq begun'
    BY <1>1, <1>3
  <1>9. QED
    BY <1>1, <1>3, <1>4, <1>6, <1>7, <1>8, SameGenerationPreserves

\* A mutation of the state alone, as a granting decision, a cancellation or a
\* retirement makes it.
LEMMA NewStatePreserves ==
    ASSUME IInv, phase # "down", NEW c \in Collective, NEW st \in State, NEW durable \in BOOLEAN,
           Mutate(c, [records[c] EXCEPT !.state = st], durable), UNCHANGED ghosts,
           records[c].state \notin Terminal, records[c].state # "unregistered",
           st # "unregistered", st \in {"planning", "active"} => records[c].attempt # None
    PROVE  IInv'
  <1>1. records[c] \in Record
    BY DEF IInv, TypeOK
  <1>2. PICK r : r = [records[c] EXCEPT !.state = st]
    OBVIOUS
  <1>3. Mutate(c, r, durable)
    BY <1>2
  <1>4. /\ r \in Record /\ r.state = st /\ r.attempt = records[c].attempt
        /\ r.def = records[c].def /\ r.gen = records[c].gen
    BY <1>1, <1>2 DEF Record
  <1>5. records[c].attempt # None => <<c, records[c].gen, records[c].attempt>> \in begun
    BY Zenon DEF IInv, WellFormed
  <1>6. stored' = stored /\ begun' = begun
    BY Zenon DEF ghosts
  <1>7. begun' \in SUBSET (Collective \X Generation \X Attempt)
    BY <1>6, Zenon DEF IInv, TypeOK
  <1>8. /\ r.attempt # None => <<c, r.gen, r.attempt>> \in begun'
        /\ r.state \in {"planning", "active"} => r.attempt # None
        /\ r.state # "unregistered" /\ begun \subseteq begun'
    BY <1>4, <1>5, <1>6, Zenon
  <1>9. QED
    BY <1>3, <1>4, <1>6, <1>7, <1>8, SameGenerationPreserves, Zenon

\* A granting decision activates only a collective that has an attempt, hence a
\* registered one (plan_flow_group).
LEMMA ActivatePreserves ==
    ASSUME IInv, NEW c \in Collective, Activate(c)
    PROVE  IInv'
  <1>1. records[c].attempt # None
    BY DEF Activate
  <1>2. records[c].state # "unregistered"
    <2>1. Unregistered.attempt = None
      BY DEF Unregistered
    <2>2. records[c].state = "unregistered" => records[c] = Unregistered
      BY DEF IInv, WellFormed
    <2>3. QED
      BY <1>1, <2>1, <2>2
  <1>3. "active" \in State /\ "active" # "unregistered"
    BY DEF State, AcceptsNewAuthority
  <1>4. /\ phase # "down" /\ UNCHANGED ghosts /\ records[c].state \notin Terminal
        /\ Mutate(c, [records[c] EXCEPT !.state = "active"], FALSE)
    BY DEF Activate
  <1>5. QED
    BY <1>1, <1>2, <1>3, <1>4, NewStatePreserves

\* A cancellation or a retirement changes the state alone (cancel_collective,
\* retire_collective).
LEMMA ClosePreserves ==
    ASSUME IInv, NEW c \in Collective, NEW a, NEW st \in {"cancelled", "retired"},
           Close(c, a, st)
    PROVE  IInv'
  <1>1. st \in State /\ st # "unregistered" /\ st \notin {"planning", "active"}
    BY DEF State, Terminal
  <1>2. /\ phase # "down" /\ UNCHANGED ghosts
        /\ records[c].state \notin Terminal /\ records[c].state # "unregistered"
        /\ Mutate(c, [records[c] EXCEPT !.state = st], TRUE)
    BY DEF Close
  <1>3. QED
    BY <1>1, <1>2, NewStatePreserves

-----------------------------------------------------------------------------
(* Saving, stopping, dying and starting.                                   *)

\* A completed save makes the disk equal to memory, in any phase that is alive.
LEMMA SavePreserves ==
    ASSUME IInv, phase # "down", SaveCatalog, UNCHANGED <<records, sequence, begun>>,
           phase' \in {"serving", "stopped"}, boots' \in Nat
    PROVE  IInv'
  <1> USE DEF Known
  <1>1. /\ disk' = [exists |-> TRUE, records |-> records] /\ dirty' = FALSE
        /\ stored' = stored \cup Named(records)
    BY DEF SaveCatalog
  <1>2. disk'.exists /\ disk'.records = records
    BY <1>1
  <1>3. \A c \in Collective, g \in Generation, d \in Definition :
            <<c, g, d>> \in Named(records)
               <=> c \in Known(records) /\ records[c].gen = g /\ records[c].def = d
    BY DEF Named
  <1>4. \A c \in Known(records) : records[c].gen \in Generation /\ records[c].def \in Definition
    BY DEF IInv, WellFormed
  <1>5. Named(records) \subseteq Collective \X Generation \X Definition
    BY <1>4 DEF Named
  <1>6. TypeOK'
    BY <1>1, <1>2, <1>5 DEF IInv, TypeOK, CountIn
  <1>7. WellFormed(records)' /\ WellFormed(disk.records)'
    BY <1>2 DEF IInv, WellFormed
  <1>8. OrderedUpTo(records, sequence)'
    BY DEF IInv, OrderedUpTo
  <1>9. (\E n \in Nat : OrderedUpTo(disk.records, n))'
    BY <1>2 DEF IInv, OrderedUpTo, TypeOK
  <1>10. DiskBehindMemory'
    <2>1. \A c \in Collective : records[c].last \in Nat
      BY DEF IInv, TypeOK, Record
    <2>2. QED
      BY <1>2, <2>1 DEF DiskBehindMemory
  <1>11. DurablyTerminalIsForever'
    BY <1>2 DEF DurablyTerminalIsForever
  <1>12. StoredBehindDisk'
    <2>1. ASSUME NEW c \in Collective, NEW g \in Generation, NEW d \in Definition,
                 <<c, g, d>> \in stored'
          PROVE  /\ c \in Known(records)
                 /\ \A k \in {"registered", "advanced"}, n \in Nat :
                       g = <<k, n>> => n <= records[c].last
      <3>1. CASE <<c, g, d>> \in Named(records)
        <4>1. c \in Known(records) /\ records[c].gen = g
          BY <1>3, <3>1
        <4>2. QED
          BY <4>1 DEF IInv, WellFormed
      <3>2. CASE <<c, g, d>> \in stored
        <4>1. records[c].last \in Nat /\ disk.records[c].last \in Nat
          BY DEF IInv, TypeOK, Record
        <4>2. c \in Known(records) /\ disk.records[c].last <= records[c].last
          BY <3>2 DEF IInv, StoredBehindDisk, DiskBehindMemory
        <4>3. \A k \in {"registered", "advanced"}, n \in Nat :
                 g = <<k, n>> => n <= disk.records[c].last
          BY <3>2 DEF IInv, StoredBehindDisk
        <4>4. QED
          BY <4>1, <4>2, <4>3
      <3>3. QED
        BY <1>1, <2>1, <3>1, <3>2
    <2>2. \A c \in Known(records) : <<c, records[c].gen, records[c].def>> \in stored'
      BY <1>1, <1>3, <1>4
    <2>3. QED
      BY <1>2, <2>1, <2>2 DEF StoredBehindDisk
  <1>13. OneDefinition'
    <2>1. \A c \in Collective, g \in Generation, d \in Definition :
             <<c, g, d>> \in stored' =>
                \/ <<c, g, d>> \in stored
                \/ c \in Known(records) /\ records[c].gen = g /\ records[c].def = d
      BY <1>1, <1>3
    <2>2. QED
      BY <2>1 DEF IInv, OneDefinition
  <1>14. (IsFiniteSet(Known(records)) /\ IsFiniteSet(Known(disk.records)))'
    BY <1>2 DEF IInv
  <1>15. QED
    BY <1>6, <1>7, <1>8, <1>9, <1>10, <1>11, <1>12, <1>13, <1>14 DEF IInv

\* A step that touches neither records, disk nor ghosts, stopping included.
LEMMA QuietPreserves ==
    ASSUME IInv, UNCHANGED <<records, sequence, disk, stored, begun>>,
           phase' = phase \/ (phase # "down" /\ phase' \in {"serving", "stopped"}),
           dirty' \in BOOLEAN, boots' \in Nat
    PROVE  IInv'
  <1> USE DEF Known
  <1>1. TypeOK'
    BY DEF IInv, TypeOK, CountIn
  <1>2. /\ WellFormed(records)' /\ WellFormed(disk.records)'
        /\ OrderedUpTo(records, sequence)'
        /\ (\E n \in Nat : OrderedUpTo(disk.records, n))'
        /\ (IsFiniteSet(Known(records)) /\ IsFiniteSet(Known(disk.records)))'
    BY DEF IInv, WellFormed, OrderedUpTo
  <1>3. DiskBehindMemory' /\ DurablyTerminalIsForever'
    BY DEF IInv, DiskBehindMemory, DurablyTerminalIsForever, TypeOK
  <1>4. StoredBehindDisk' /\ OneDefinition'
    BY DEF IInv, StoredBehindDisk, OneDefinition
  <1>5. QED
    BY <1>1, <1>2, <1>3, <1>4 DEF IInv

\* Blank records are a consistent catalog: the one of a new process, and the one
\* on a disk that has no snapshot.
LEMMA BlankRecords ==
    ASSUME NEW recs \in [Collective -> Record],
           \A c \in Collective : recs[c] = Unregistered
    PROVE  /\ IsFiniteSet(Known(recs)) /\ CountIn(recs) = 0
           /\ WellFormed(recs) /\ OrderedUpTo(recs, 0)
           /\ Known(recs) = {}
  <1>1. /\ Unregistered.state = "unregistered" /\ Unregistered.last = 0
        /\ Unregistered.gen = None /\ Unregistered.attempt = None
    BY DEF Unregistered
  <1>2. Known(recs) = {}
    BY <1>1 DEF Known
  <1>3. IsFiniteSet(Known(recs)) /\ CountIn(recs) = 0
    BY <1>2, FS_EmptySet DEF CountIn, Known
  <1>4. OrderedUpTo(recs, 0)
    BY <1>1, <1>2 DEF OrderedUpTo
  <1>5. WellFormed(recs)
    BY <1>1 DEF WellFormed
  <1>6. QED
    BY <1>2, <1>3, <1>4, <1>5

\* A process death leaves the disk and blank records.
LEMMA ProcessDeathPreserves ==
    ASSUME IInv, ProcessDeath
    PROVE  IInv'
  <1>1. /\ phase' = "down" /\ records' = [c \in Collective |-> Unregistered]
        /\ sequence' = 0 /\ dirty' = FALSE /\ boots' = boots + 1
        /\ disk' = disk /\ stored' = stored /\ begun' = begun
    BY DEF ProcessDeath, ghosts
  <1>2. /\ records' \in [Collective -> Record]
        /\ \A c \in Collective : records'[c] = Unregistered
    BY <1>1, UnregisteredIsARecord
  <1>3. \A recs \in [Collective -> Record] :
            (\A c \in Collective : recs[c] = Unregistered) =>
               /\ IsFiniteSet(Known(recs)) /\ CountIn(recs) = 0
               /\ OrderedUpTo(recs, 0) /\ Known(recs) = {}
    BY BlankRecords
  <1>4. /\ IsFiniteSet(Known(records')) /\ CountIn(records') = 0
        /\ OrderedUpTo(records', 0) /\ Known(records') = {}
    BY <1>2, <1>3
  <1>5. TypeOK'
    <2>1. CountIn(records') <= Capacity
      BY <1>4, CatalogAssumption
    <2>2. boots' \in Nat
      BY <1>1 DEF IInv, TypeOK
    <2>3. CountIn(disk'.records) <= Capacity
      BY <1>1 DEF IInv, TypeOK
    <2>4. QED
      BY <1>1, <1>2, <2>1, <2>2, <2>3 DEF IInv, TypeOK, CountIn
  <1>6. WellFormed(records)' /\ WellFormed(disk.records)'
    <2>1. /\ Unregistered.state = "unregistered" /\ Unregistered.attempt = None
      BY DEF Unregistered
    <2>2. WellFormed(records)'
      BY <1>2, <2>1 DEF WellFormed
    <2>3. WellFormed(disk.records)'
      BY <1>1 DEF IInv, WellFormed
    <2>4. QED
      BY <2>2, <2>3
  <1>7. OrderedUpTo(records, sequence)'
    BY <1>1, <1>4 DEF OrderedUpTo, Known
  <1>8. (\E n \in Nat : OrderedUpTo(disk.records, n))'
    BY <1>1 DEF IInv, OrderedUpTo, Known
  <1>9. DiskBehindMemory' /\ DurablyTerminalIsForever'
    BY <1>1, <1>2 DEF IInv, DiskBehindMemory, DurablyTerminalIsForever
  <1>10. StoredBehindDisk' /\ OneDefinition'
    BY <1>1, <1>4 DEF IInv, StoredBehindDisk, OneDefinition, Known
  <1>11. (IsFiniteSet(Known(records)) /\ IsFiniteSet(Known(disk.records)))'
    BY <1>1, <1>4 DEF IInv, Known
  <1>12. QED
    BY <1>5, <1>6, <1>7, <1>8, <1>9, <1>10, <1>11 DEF IInv

\* A start loads the snapshot, or finds none and keeps what the object holds.
LEMMA StartPreserves ==
    ASSUME IInv, Start
    PROVE  IInv'
  <1> USE DEF Known
  <1>1. /\ phase' = "serving" /\ dirty' = FALSE
        /\ disk' = disk /\ boots' = boots /\ stored' = stored /\ begun' = begun
    BY DEF Start, ghosts
  <1>2. CASE disk.exists
    <2>1. records' = disk.records /\ sequence' = ResumedSequence(disk.records)
      BY <1>2 DEF Start
    <2>2. disk.records \in [Collective -> Record]
      BY DEF IInv, TypeOK
    <2>3. PICK n \in Nat : OrderedUpTo(disk.records, n)
      BY DEF IInv
    <2>4. sequence' = n
      BY <2>1, <2>2, <2>3, ResumedIsHighest
    <2>5. TypeOK'
      BY <1>1, <2>1, <2>2, <2>4 DEF IInv, TypeOK, CountIn
    <2>6. WellFormed(records)' /\ WellFormed(disk.records)'
      BY <1>1, <2>1 DEF IInv, WellFormed
    <2>7. OrderedUpTo(records, sequence)' /\ (\E m \in Nat : OrderedUpTo(disk.records, m))'
      BY <1>1, <2>1, <2>3, <2>4 DEF OrderedUpTo
    <2>8. DiskBehindMemory' /\ DurablyTerminalIsForever'
      <3>1. \A c \in Collective : disk.records[c].last \in Nat
        BY <2>2 DEF Record
      <3>2. QED
        BY <1>1, <1>2, <2>1, <3>1 DEF DiskBehindMemory, DurablyTerminalIsForever
    <2>9. StoredBehindDisk'
      BY <1>1 DEF IInv, StoredBehindDisk
    <2>10. OneDefinition'
      <3>1. \A c \in Known(disk.records) :
                /\ <<c, disk.records[c].gen, disk.records[c].def>> \in stored
                /\ disk.records[c].def \in Definition
        BY DEF IInv, StoredBehindDisk, WellFormed
      <3>2. QED
        BY <1>1, <2>1, <3>1 DEF IInv, OneDefinition
    <2>11. (IsFiniteSet(Known(records)) /\ IsFiniteSet(Known(disk.records)))'
      BY <1>1, <2>1 DEF IInv
    <2>12. QED
      BY <2>5, <2>6, <2>7, <2>8, <2>9, <2>10, <2>11 DEF IInv
  <1>3. CASE ~disk.exists
    <2>1. records' = records /\ sequence' = sequence
      BY <1>3 DEF Start
    <2>2. \A c \in Collective : disk.records[c] = Unregistered
      BY <1>3 DEF IInv, DiskBehindMemory
    <2>3. TypeOK'
      BY <1>1, <2>1 DEF IInv, TypeOK, CountIn
    <2>4. /\ WellFormed(records)' /\ WellFormed(disk.records)'
          /\ OrderedUpTo(records, sequence)'
          /\ (\E n \in Nat : OrderedUpTo(disk.records, n))'
          /\ (IsFiniteSet(Known(records)) /\ IsFiniteSet(Known(disk.records)))'
      BY <1>1, <2>1 DEF IInv, WellFormed, OrderedUpTo
    <2>5. DiskBehindMemory' /\ DurablyTerminalIsForever'
      <3>1. Unregistered.state = "unregistered" /\ Unregistered.last = 0
        BY DEF Unregistered
      <3>2. \A c \in Collective : records[c].last \in Nat
        BY DEF IInv, TypeOK, Record
      <3>3. "unregistered" \notin Terminal
        BY DEF Terminal
      <3>4. QED
        BY <1>1, <1>3, <2>1, <2>2, <3>1, <3>2, <3>3
           DEF DiskBehindMemory, DurablyTerminalIsForever
    <2>6. StoredBehindDisk' /\ OneDefinition'
      BY <1>1, <2>1 DEF IInv, StoredBehindDisk, OneDefinition
    <2>7. QED
      BY <2>3, <2>4, <2>5, <2>6 DEF IInv
  <1>4. QED
    BY <1>2, <1>3

-----------------------------------------------------------------------------
\* The invariant holds in a fresh service without a snapshot.
LEMMA InitInv == Init => IInv
  <1> SUFFICES ASSUME Init PROVE IInv
    OBVIOUS
  <1>1. /\ records \in [Collective -> Record] /\ disk.records = records
        /\ \A c \in Collective : records[c] = Unregistered
        /\ disk \in [exists : BOOLEAN, records : [Collective -> Record]]
    BY UnregisteredIsARecord DEF Init
  <1>2. /\ IsFiniteSet(Known(records)) /\ CountIn(records) = 0
        /\ WellFormed(records) /\ OrderedUpTo(records, 0)
        /\ Known(records) = {}
    BY <1>1, BlankRecords
  <1>3. Unregistered.state = "unregistered" /\ Unregistered.last = 0
    BY DEF Unregistered
  <1>4. TypeOK
    <2>1. CountIn(records) <= Capacity
      BY <1>2, CatalogAssumption
    <2>2. QED
      BY <1>1, <2>1 DEF Init, TypeOK
  <1>5. DiskBehindMemory /\ DurablyTerminalIsForever
    BY <1>1, <1>2, <1>3 DEF Init, DiskBehindMemory, DurablyTerminalIsForever
  <1>6. StoredBehindDisk /\ OneDefinition
    BY <1>1, <1>2 DEF Init, StoredBehindDisk, OneDefinition
  <1>7. sequence = 0
    BY DEF Init
  <1>8. QED
    BY <1>1, <1>2, <1>4, <1>5, <1>6, <1>7 DEF IInv

\* Every step preserves the invariant, action by action.
LEMMA NextInv == IInv /\ [Next]_vars => IInv'
  <1> SUFFICES ASSUME IInv, [Next]_vars PROVE IInv'
    OBVIOUS
  <1>1. ASSUME NEW c \in Collective, NEW d \in Definition,
               NEW given \in GivenGen \cup {None}, RegisterNew(c, d, given)
        PROVE  IInv'
    BY <1>1, RegisterNewPreserves
  <1>2. ASSUME NEW c \in Collective, NEW d \in Definition, RegisterChanged(c, d)
        PROVE  IInv'
    BY <1>2, RegisterChangedPreserves
  <1>3. ASSUME NEW c \in Collective, NEW a \in Attempt, BeginAttempt(c, a)
        PROVE  IInv'
    BY <1>3, BeginAttemptPreserves
  <1>4. ASSUME NEW c \in Collective, Activate(c)
        PROVE  IInv'
    BY <1>4, ActivatePreserves
  <1>5. ASSUME NEW c \in Collective, NEW a \in Attempt \cup {None},
               CancelCollective(c, a) \/ RetireCollective(c, a)
        PROVE  IInv'
    BY <1>5, ClosePreserves DEF CancelCollective, RetireCollective
  <1>6. CASE Save
    <2>1. boots \in Nat
      BY DEF IInv, TypeOK
    <2>2. QED
      BY <1>6, <2>1, SavePreserves DEF Save
  <1>7. CASE StopService
    <2>1. boots' \in Nat /\ phase' = "stopped" /\ phase = "serving"
      BY <1>7 DEF StopService, IInv, TypeOK
    <2>2. UNCHANGED <<records, sequence, begun>>
      BY <1>7 DEF StopService
    <2>3. CASE SaveCatalog
      BY <2>1, <2>2, <2>3, SavePreserves
    <2>4. CASE UNCHANGED <<disk, dirty, stored>>
      BY <2>1, <2>2, <2>4, QuietPreserves DEF IInv, TypeOK
    <2>5. QED
      BY <1>7, <2>3, <2>4 DEF StopService
  <1>8. CASE ProcessDeath
    BY <1>8, ProcessDeathPreserves
  <1>9. CASE Start
    BY <1>9, StartPreserves
  <1>10. CASE UNCHANGED vars
    <2>1. /\ UNCHANGED <<records, sequence, disk, stored, begun>>
          /\ phase' = phase /\ dirty' = dirty /\ boots' = boots
      BY <1>10 DEF vars, ghosts
    <2>2. QED
      BY <2>1, QuietPreserves DEF IInv, TypeOK
  <1>11. QED
    BY <1>1, <1>2, <1>3, <1>4, <1>5, <1>6, <1>7, <1>8, <1>9, <1>10 DEF Next

\* The inductive invariant holds in every reachable state.
THEOREM Invariance == Spec => []IInv
  BY InitInv, NextInv, PTL DEF Spec

\* The catalog and its snapshot keep their types and never hold more
\* collectives than the capacity, so the capacity check of a load cannot refuse
\* a snapshot the service wrote itself.
THEOREM TypeCorrect == Spec => []TypeOK
  BY Invariance, PTL DEF IInv

\* No two records ever share a mutation sequence and none is ahead of the
\* counter, however often mutations are lost and the counter is recomputed by a
\* load.
THEOREM MutationsOrdered == Spec => []MutationsTotallyOrdered
  <1>1. IInv => MutationsTotallyOrdered
    BY DEF IInv, OrderedUpTo, Known, Registered, MutationsTotallyOrdered
  <1>2. QED
    BY <1>1, Invariance, PTL

\* A cancellation or a retirement that reached the disk is final.
THEOREM TerminalForever == Spec => []DurablyTerminalIsForever
  BY Invariance, PTL DEF IInv

\* The attempt a record stands with was begun under its generation, across
\* advances and reloads.
THEOREM AttemptsStayWithTheirGeneration == Spec => []AttemptOfThisGeneration
  <1>1. IInv => AttemptOfThisGeneration
    BY DEF IInv, WellFormed, AttemptOfThisGeneration
  <1>2. QED
    BY <1>1, Invariance, PTL

\* A generation of a collective names one definition in all that was ever saved
\* and in memory, although loads turn back the counter generations are minted
\* from.
THEOREM OneDefinitionPerGeneration == Spec => []GenerationNamesOneDefinition
  <1>1. ASSUME IInv
        PROVE  GenerationNamesOneDefinition
    <2> SUFFICES ASSUME NEW x \in stored \cup Named(records),
                        NEW y \in stored \cup Named(records),
                        x[1] = y[1], x[2] = y[2]
                 PROVE  x[3] = y[3]
      BY DEF GenerationNamesOneDefinition
    <2>1. \A z \in stored \cup Named(records) :
              \E c \in Collective, g \in Generation, d \in Definition :
                 /\ z = <<c, g, d>>
                 /\ z \in stored \/ (c \in Known(records) /\ records[c].gen = g /\ records[c].def = d)
      <3>1. \A z \in stored : \E c \in Collective, g \in Generation, d \in Definition :
                 z = <<c, g, d>>
        BY <1>1 DEF IInv, TypeOK
      <3>2. \A c \in Known(records) : records[c].gen \in Generation /\ records[c].def \in Definition
        BY <1>1 DEF IInv, WellFormed, Known
      <3>3. QED
        BY <3>1, <3>2 DEF Named, Known
    <2>2. PICK c \in Collective, g \in Generation, d \in Definition :
             /\ x = <<c, g, d>>
             /\ x \in stored \/ (c \in Known(records) /\ records[c].gen = g /\ records[c].def = d)
      BY <2>1
    <2>3. PICK b \in Collective, h \in Generation, e \in Definition :
             /\ y = <<b, h, e>>
             /\ y \in stored \/ (b \in Known(records) /\ records[b].gen = h /\ records[b].def = e)
      BY <2>1
    <2>4. b = c /\ h = g
      BY <2>2, <2>3
    <2>5. d = e
      BY <1>1, <2>2, <2>3, <2>4 DEF IInv, OneDefinition
    <2>6. QED
      BY <2>2, <2>3, <2>5
  <1>2. QED
    BY <1>1, Invariance, PTL
=============================================================================
