# Formal models of the Collective Traffic Fabric

TLA+ models of the coordinator in `src/`, the runs that model-check them with
TLC, and theorems about them that TLAPS checks. Everything here is translated
from the source; `PROJECT.json` maps each definition to the lines it stands for.

## The system and its parts

A coordinator process serves clients over TCP. Clients register collectives,
begin attempts, publish participants and evidence, and ask for a decision on a
flow group: whether, and how fast, its traffic may be released under the
authority (epoch, generations, liveness, lifecycle) in force at that moment.

| Part | State | Operations | Correct when |
|---|---|---|---|
| Authority state (`authority.cpp`) | epoch; policy, topology, capacity and congestion generations, a history of 64 accepted ones for each; liveness record and highest boot incarnation of every participant | `begin_boot`, `restore_durable`, four installs, `publish_liveness`, `heartbeat`, `expire_session`, `expire_due`, `invalidate_dynamic_evidence` | evidence in force is about the topology in force; nothing dynamic outlives a boot; what was installed is not replayed within the window; a fenced incarnation stays fenced |
| Catalog (`catalog.cpp`, `collective.cpp`) | a record for each collective: definition, generation, attempt, lifecycle, last mutation; a mutation sequence | register, advance, begin attempt, activate, cancel, retire, export, load | terminal is forever; a generation names one definition; an attempt belongs to its generation; mutations are ordered across reloads |
| Durable saving (`persistence.cpp`, `service.cpp`: `flush`, `stop`, `restore`) | snapshot file, temporary file, dirty flag, mutation counter | capture, write, rename, clear, load | the file is never torn; a clear flag means saved; a save that reports success is durable; stop returns |
| Sessions and connections (`service.cpp`, `coordinator.cpp`) | session table, per-connection handshake state, last frame sequence | open, hello, validate, execute, close, stop | a frame is served once and in order; live participants have an open session; nothing crosses a boot |
| Admission (`admission.cpp`, `traffic.cpp`: `TokenBucket`) | bounded table of token buckets | `admit`, `peek`, `forget`, `clear` | releases stay within depth and rate; the wait told is enough |
| Decision engine (`engine.cpp`, `decision.cpp`, `evidence.cpp`, `sync.cpp`) | none: a function of a snapshot and a request | `evaluate`, `apply_authority_chain`, `compute_pacing`, `derive_sync_sensitivity` | exactly the requests whose every authority is current are granted, at a rate the evidence supports, and a refusal names what really failed |
| Flow groups (`flow_group.cpp`) | none | `validate_flow_group_plan`, `construct_flow_group` | the group summarises its plan; the same obligations are the same group |
| Decision history (`history.cpp`) | ring of decisions with ordinals, correlation index | record, bind, page, get, find, resize, clear | every query answers as the full log would; an evicted ordinal is told from an unknown one; a correlation never leads to another decision |
| Transport (`transport.cpp`) | listener, live set, one thread for each connection, descriptors, read buffers | listen, accept, receive, send, shut down, release, join | no thread acts on the stream of another connection; a stream is neither lost nor repeated; shutdown returns and leaves nothing |
| Wire protocol and snapshot format (`protocol*.cpp`, `persistence.cpp`) | none: encoders and decoders for 21 messages, the frame and the snapshot | encode, decode, validate, answer | what is decoded is what was encoded or is refused whole; what is accepted can be saved, while it fits a snapshot, and is restored whole |
| Identities, errors, limits, tools | none of their own | minting, naming, command line | not modelled, see below |

**How they interact.** Every connection has one thread (`session_loop`) that
calls `CoordinatorHandler::on_frame`. A frame is handled in two separate
acquisitions of the service's mutex: `validate_envelope`, then the operation
that `dispatch` calls; the clock is read before the first one. Operations call
the authority, the catalog, admission and the history, each with a mutex of its
own, under the service's. Saving takes the service's mutex to copy what is to be
written and again to clear the flag, and writes the file in between with no lock
held. `CoordinatorServer::stop` runs on the owner's thread: it stops the service
(which fences, clears and flushes) and then shuts the transport down, which
joins the connection threads.

**What is hard.** A frame validated before a stop and executed after it; two
saves at once; the process dying between two file operations; a mutation that
lands during a write; a reload that turns the mutation sequence back; a reused
object that is stopped and started again; participants taken over by other
sessions or by a newer boot of themselves; request times that reach a bucket out
of order; rounding and overflow in the bucket and in pacing; tables and
histories at their limit; a descriptor copied under a lock and used after it was
closed and reused; a connection accepted while the server shuts down; frames in
pieces; messages at their limits and replies larger than their requests; a
request judged for the time it arrived while everything it depends on changes.
`PROJECT.json` lists each under `hazards` with its line and the properties that
watch it.

## Modules

| Module | Models |
|---|---|
| `Authority` | `AuthorityState`. One action for each method, since each holds the object's mutex throughout. |
| `Sessions` | Extends `Authority` with the session table, connections and the two-step handling of frames. |
| `Catalog` | The catalog behind the lifecycle operations of the service, with atomic saves, stops, deaths and reloads. |
| `AtomicStore` | Abstract specification: a memory and a snapshot that is replaced atomically and only by what memory holds. |
| `Durability` | Threads, dirty flag and the file operations of `write_all`, one action each. |
| `Admission` | The bucket table and the arithmetic of the token bucket. |
| `AdmissionProofs` | Theorems about `Admission`. |
| `SessionsProofs` | Theorems about `Authority` and about `Sessions`, which extends it. |
| `CatalogProofs`, `DurabilityProofs`, `TransportProofs` | Theorems about these modules; `DurabilityProofs` has the refinement of `AtomicStore`. |
| `InspectionProofs` | Theorems about `History` and `Inspection`. |
| `PlanningProofs` | Theorems about `FlowGroup`, `Engine` and `Planning`. |
| `WireProofs` | Theorems about the frames of `Wire`. |
| `FlowGroup` | Validation of plans and construction of groups, as operators. |
| `Engine` | Extends `FlowGroup`: the rules of `evaluate` as an ordered list, pacing, synchronisation sensitivity, the decision record. |
| `Identity`, `History` | The decision history: its updates as actions, its queries as operators. |
| `Inspection` | Extends `History` with the clients that page through it. |
| `Planning` | Composes `Engine` and `History` with one collective, the authority state and the answers of admission into `plan_flow_group`. |
| `Fields`, `Level`, `Codec` | `Writer` and `Reader`: over one field, over a layout whose fields contain layouts, and the four levels of a message. |
| `Messages` | The layout of every encoder and of every decoder of the protocol and the snapshot, and the validations that stand behind them. |
| `Wire` | A message on its way: encoded, framed, cut or damaged, decoded, answered; what it changes is saved and restored. |
| `Transport` | Acceptor, workers, clients and `shutdown` over shared descriptors. |
| `MC*` | Symmetry, views and sets that instantiate the above for TLC. |

Conventions. A call that is refused changes nothing and is a stuttering step.
A variable marked *ghost* records history for a property and is read by no
guard. An operator that ends in a plausible mistake (`RefillWithoutTime`,
`AcceptableIgnoringHistory`, ...) stands directly before the definition it would
replace; substituting it must break the property that `PROJECT.json` names under
`mutants`, which shows that the property depends on that piece of code.

Correspondence worth knowing when reading:

* **Epochs and identities** are 128-bit random values in the code; the models use
  values that never repeat. Boot incarnations are ordered, as in the code.
* **Authority.** `phase` is not a field of the class: it is where
  `CoordinatorServer` is in its use of it (`begin_boot`, restore, serve, stop).
  The same object may be stopped and booted again (`stopped` to `booting`), or
  the process may die (`down`). Publications are possible in phase `stopped`
  because `publish_participant` does not ask whether the service runs.
  `ExpireDue` models `expire_due`, which the class offers and the coordinator
  never calls; `Sessions` therefore leaves it out.
  `Heartbeat` models `AuthorityState::heartbeat`, which an application that
  embeds the service can reach; the heartbeat message of the wire protocol calls
  `publish_participant` and is `ServePublish` in `Sessions`.
  `since` counts, for each generation, the installs of its axis since this process
  installed it; `restore_durable` does not touch it, as it does not touch the history.
* **Sessions.** `Bound` sessions, expiry and fencing are those of `Authority`.
  A connection thread reads the clock when its frame arrives; a publication in
  the model uses the clock when it executes, which moves only its expiry time.
* **Catalog.** Definitions are model values, equal exactly when
  `definitions_equivalent` says so. A minted generation is the pair of its kind
  and the mutation sequence that seeds it. `Activate` is the part of
  `plan_flow_group` that changes the catalog: it draws a sequence number and is
  not marked durable.
* **Durability.** A mutation is an element of a set; an image is the set that was
  captured. A file is an identity with a content, a name refers to a file, so
  that truncating, renaming and writing through an open handle act as on a POSIX
  file system. `Restart` is `CoordinatorServer::start` in a new process (after `Die`)
  or of the object that was stopped (after `Exit`), which keeps its memory when there
  is nothing to load. `ok` is the status of a flush, which no caller looks at. `alone` says
  whether another thread has opened the same file: two writers of one file leave one of the images or a file that does not decode.
  `setup` collects what differs between deployments (save on each mutation or
  only by the owner, number of connections, whether file operations may fail,
  the remove-then-rename of the Windows build).
* **Admission.** `held[w]` is the time a connection thread read when its frame
  arrived. `Word` is 2^64 and `Scale` is 1000; the run uses small values of both
  so that products overflow and both halves of the rate round.

* **Engine.** The code is a sequence of early returns; here `Order` is that
  sequence, `Refuses` says when a rule refuses and `Verdict` what it answers.
  Word arithmetic is kept (`Word` is 2^64, small in the runs); the sum of link
  capacities wraps as in the code. Reason texts and error codes are left out.
  The sum and the worst of the links are recursive functions over positions.
* **Planning.** The service holds its mutex for a whole operation, so each is one
  action, except that `plan_flow_group` takes the history's own mutex twice
  (`Plan`, `PlanBinds`). A plan may carry any time up to the present one, because
  the clock is read before the mutex is taken. Installs and publications are
  reduced to their effect on what a decision reads: what they refuse is in
  `Authority`, and that evidence in force is about the topology in force is the
  theorem `EvidenceIsAboutCurrentTopology`.
* **Flow groups.** A digest is the content it is computed from, so two groups
  have one identity exactly when the digested content is equal. `std::sort` is its
  contract: some arrangement of the elements in which none precedes a lesser one.
  Runs and sums are recursive functions over positions, one step per turn of the
  code's loops.
* **Codec.** A payload is a sequence of fields with their widths. Encoder and
  decoder have separate layouts, as in the code, so that `DecodesExactlyTheLegal` compares
  two transcriptions and not one with itself. Limits are scaled down. A layout
  contains layouts, as an encoder calls encoders: `Codec` has four instances of
  `Level`, as many as the deepest message has levels (an explanation, its decision,
  the decision's flow group, the group's edges), each given the one below it.
* **Wire.** The coordinator a message meets has a policy, a topology and a catalog
  (`Lives`): none, some, with a collective whose attempt is current, and at the totals
  a snapshot may hold. A decision carries a flow group only where `plan_flow_group`
  gets as far as `evaluate` and the plan can be constructed (`HasGroup`). `StartFrom`
  starts from a snapshot of another build, which may hold records this one refuses.
* **Transport.** A descriptor is a number that refers to a connection until it is
  closed; then `accept` may hand it out again, or the rest of the process may get it
  for a file or a socket of its own (`OpenElsewhere`: the snapshot's file is opened by
  other connection threads while `shutdown` closes descriptors). Every call that copies the
  descriptor under the socket's mutex and uses it later is two actions. Closing a
  descriptor ends the calls in progress on it. That is so on the systems the code
  builds for, Windows and those that define `SO_NOSIGPIPE`; Linux is not one of
  them, and there a `send` to a client that never reads would outlive the close
  and `shutdown` with it.

## Runs

All passing runs finish in less than three minutes with two workers.

| Run | Shows |
|---|---|
| `authority` | A participant with two incarnations, two sessions, three topologies for a history of two, restores, stops and deaths: no evidence of another topology or boot in force, no generation that this process installed installed again within the window, no spent incarnation revived. |
| `catalog` | Three collectives for two places, two definitions, generations given or minted, four mutations, a stop or death with or without a save: order, terminality, attempts and generations survive. |
| `durability_saves` | One saver at a time (the owner while two connections mutate, or the one connection there is), failing operations, deaths at every step, two starts of a new process or of the same object: never torn, clear means saved, a save that reports success is kept, the file operations implement `AtomicStore`, and `stop` returns (liveness). |
| `sessions_serving` | Three connections, two sessions at a time, two boots and a death, repeated and reordered frames. |
| `admission` | Two flow groups for one bucket, two threads with times out of order, low and high rates, empty and oversized requests, an interval long enough to overflow. |
| `planning` | One collective of two participants in several starting states, two changes and two clock ticks around each request, plans and observations current and stale on every axis: a grant is given exactly when an independent statement of authority (`Authorised`) holds; a refusal names what is not current, on every axis; rates, bursts and groups follow from evidence and plan; the log is of this boot and its grants can be recomputed from the generations they name. |
| `history` | Growth, eviction, capacities 0, 2 and 3 in both directions, stops, lookups between record and bind, a client that pages: every query answers as the log of all decisions would. |
| `wire_codec` | Every message with each field, at any depth, at and one over its limit; payloads cut before every field or a byte too long; every part of the frame damaged; definitions, topologies and policies accepted into catalogs that fit a snapshot or outgrow it, saved and restored; snapshots with records that a load refuses. |
| `transport` | Two clients, two descriptors that are reused, frames in pieces, a malformed frame, one or two sessions allowed, any number of listens and shutdowns, one descriptor that the rest of the process may take: every thread on its own stream, conserved streams, nothing left behind, `shutdown` returns, closed clients leave. |
| `durability_shared_temporary` | *Violation.* Two flushes share `<path>.tmp`; the rename of one publishes the file the other has just truncated. |
| `wire_unanswered` | *Violation.* The decision on a plan that nearly fills its frame, of a registered collective and its current attempt, repeats the plan as a flow group and is larger than a frame; it is counted as a send failure and nothing is answered. |
| `planning_saturated` | *Violation.* Fresh evidence that every link is full sums to 0, which `compute_pacing` takes for no evidence, and the request is admitted at the ceiling of its class. |

The violations are disagreements between the code and what its own README or
headers say; `PROJECT.json` quotes the lines under `findings`. The first says why
`durability_saves` has one saver: with two, `SnapshotNeverTorn` and
`ClearMeansSaved` fail.

**Observed while modelling**, without a run of their own. The first five are places
where the code does less than a document or comment says; the models follow the
code, and the properties are stated so that they hold of it and say in their comments
what they leave open.

* *Replay of restored generations.* `restore_durable` (`authority.cpp:446-453`) does
  not remember the generations it puts in force. After a restart a restored policy or
  topology generation can be installed again, with other content, as soon as it is
  superseded; README.md:74-75 says that "a superseded observation can never be
  reinstalled". `NoReplayWithinWindow` is about what the process installed itself.
* *Acknowledged though not saved.* `persist_if_configured` (`coordinator.cpp:579-583`)
  drops the status of the flush and the request is acknowledged; README.md:210 says
  "An acknowledgement never precedes its durability point". `ReportedSaveIsDurable` is
  about flushes that succeed.
* *Partial restore.* `restore` puts topology and policy in force before it loads the
  catalog, and they stay when the load is refused (`service.cpp:1028-1036`);
  README.md:211-212 says such state is "rejected without partial application".
  `RecordsComeBackWhole` has the direction that holds.
* *Duplicate metadata keys.* `Metadata::set` overwrites (`collective.cpp:181-185`), so
  a definition that states a key twice is accepted with the last value and the refusal
  at `protocol.cpp:539-540` ("metadata carries a duplicate key") is never reached.
* *Reused descriptors.* After `release_for_teardown` closed a descriptor, a worker may
  still hold a copy of its number when a file of the process gets it;
  `transport.cpp:233-235` says that "no other thread can observe a reused descriptor
  here". `OwnStreamOnly` says what remains: never another connection.
* *Snapshot totals.* A snapshot holds 200000 collectives and 64 MiB, the catalog up to a
  million of up to a frame each; beyond either total every save fails,
  `persist_if_configured` ignores it and requests are acknowledged as before.
* *Start of a stopped object.* When the save of a stop failed and there is no file yet,
  `configure_persistence` clears the dirty flag (`service.cpp:1009`) and the missing
  file leaves memory as it is (`service.cpp:1020`): what is in memory is not on disk and
  the flag is clear. `ClearMeansSaved` exempts exactly that (`inherited`).
* A cancellation validated before `stop` executes after its flush, is
  acknowledged and lost. `coordinator.hpp` says the final flush happens last; the
  repository's README describes the order the code has.
* A second session that publishes the same participant and incarnation takes the
  binding over (`authority.cpp:276`).
* Nothing calls `expire_due` or `sweep_idle_sessions`, so lapsed liveness is not
  fenced and the same incarnation may publish again; decisions compare the expiry
  time themselves and grant nothing on lapsed liveness. README.md:229-231 says that
  lapsed liveness is fenced.
* The correlation index has no session in its key and `ctfctl` counts from 1, so
  explaining by correlation may show another client's decision.
* `total_logical_bytes` of a flow group wraps at 2^64 without a check.
* `heartbeat` creates peer records without the `kPeersMax` check of
  `publish_liveness` (`authority.cpp:315`).
* Only the current attempt is refused as a repetition, so after attempts A, B, A
  the decisions of the first A name the current attempt again (`catalog.cpp:208`).
* A refill that gains less than one token still moves the bucket's clock
  (`traffic.cpp:301`): a caller that retries faster than a token takes gains none.
* Nobody calls `forget`, so once the bucket table is full unknown flow groups are
  refused until the service stops (`admission.cpp:61`).
* `workers_` keeps a finished thread for every connection until shutdown
  (`transport.cpp:542`).

**Bounds.** Each bound is a constant that only a guard reads: `MaxEpoch`,
`MaxTime`, `MaxCrashes`, `MaxSeq`, `MaxBoots`, `MaxRestarts`, `MaxFrame`,
`MaxDecisions`, `MaxChanges`, `MaxElsewhere`. Two
boots are enough for state of one to meet the other; two participants, sessions,
workers or savers for every pair to interleave; capacities are one below what
would be needed, so each limit is met. In `planning` two changes between a
starting state and a request suffice to invalidate any two authorities at once,
and the starting states already differ in what is installed and live. In
`wire_codec` each value leaves the plain one in one field: a decoder reads fields
in order and each check looks at one field or one list. Deadlock is checked for
`history`, `transport` and `wire_codec`, where some step is always possible;
elsewhere a model stops when its bounds are used up, and the coordinator itself
may be idle for ever.
`sessions_serving` identifies states that differ only in the ghost `spent`, which
no step and no property of that run reads.

**Fairness.** `durability_saves` assumes weak fairness of each thread that has
begun a request (the operating system schedules it and no step waits for another
thread) and that a joined server returns. `transport` assumes weak fairness of
the acceptor, of each worker and of the thread in `shutdown`. No fairness is
assumed of clients, which need not send, read their replies or hang up; of
failures; or of the owner, who need not listen or shut down.

## Proofs

`SessionsProofs`, first about `Authority` alone, for any number of participants,
sessions, incarnations and generations and any history capacity: the type invariant,
`EvidenceDescribesCurrentTopology`, `NothingDynamicSurvivesBoot`,
`SpentIncarnationStaysSpent`, `RecordHoldsHighestIncarnation` and the action properties
`NoReplayWithinWindow` and `IncarnationNeverRegresses`. The properties are proved together, because they
lean on each other: fencing is final because the record holds the highest
incarnation and a spent record is not refreshable. Two parts are needed beyond
the properties: a booting or dead coordinator has no liveness records (otherwise
a restore that finds no snapshot could keep some), and every fenced incarnation
was fenced in an epoch that is not in the future (otherwise a new boot could
inherit one). The replay window rests on a relation between the history and the ages
of generations (`IsWindow`): an entry stands as far from the end of the history as
there were installs since its own, and whatever is younger than the capacity is an
entry. That `Remember` keeps it, also when it drops the oldest entry, is a lemma.

`AdmissionProofs`, for all rates, bursts, volumes, word sizes and scales: the
type invariant with the bound of the table, `ReleasesWithinRate` and
`WaitIsEnough`. `ReleasesWithinRate` is not inductive: a full bucket might
release too much in the next step. The invariant counts the tokens left together
with what was released (`Balanced`). The step that matters is `GainIsEarned`:
neither the split of the product in two halves, nor the rounding of each, nor
the saturation after an overflow credits more than the rate yields. `WaitIsEnough`
follows from `WaitRefills`: the wait is rounded up, the refill down, and the
first makes up for the second, provided the deficit times 1000 fits a word.

`SessionsProofs`, then about `Sessions`, for any number of connections, sessions
and participants:
`FramesServedInOrder`, `SessionsOfThisBoot`, `LiveMeansSessionOpen` and the types
of the session layer; and what is proved of `Authority` still holds when sessions
and connections drive it (`AuthorityThroughSessions`, for fencing). The two invariants are
proved together, since each needs the other: a close reaches the authority only
after a start, a liveness record names a session of the table. Beyond the
properties the invariant says that sessions are open only in a boot that serves
(`TableOfThisBoot`), that no two connections share one and no thread outlives a
boot (`ConnectionsOfThisBoot`), and that all a session has served lies before the
frame its connection is about to serve (`ServedBehindCounter`): between
validation and execution the counter is ahead of what was served.

`CatalogProofs`, for any capacity, definitions and generations, brought or
minted: `MutationsTotallyOrdered`, `DurablyTerminalIsForever`,
`AttemptOfThisGeneration`, `GenerationNamesOneDefinition`. The last one is the
delicate one, because a load turns back the counter from which generations are
minted. It rests on `StoredBehindDisk`: whatever was ever saved of a collective
carries a number not above that of its record on disk, and a load resumes at the
highest of these, so what is minted next has never been saved.

`DurabilityProofs`, for any number of threads, files, mutations and restarts: the
types hold for every setup; `SnapshotNeverTorn`, `ClearMeansSaved`,
`ReportedSaveIsDurable` and the refinement of `AtomicStore` for every setup in which one
thread saves (`SingleSaver`). That is the most there is to prove: with two savers
they are false, which `durability_shared_temporary` shows. The invariant follows
a save: its file is unshared, then complete under the temporary name, then
complete under the snapshot's name (`FileOfTheSave`), and its image lies between
snapshot and memory and equals memory if no mutation landed since
(`SaveBehindMemory`). The refinement maps each step
to a step of `AtomicStore` or to none, case by case.

`InspectionProofs`, for every capacity and page limit: `AnswersFromTheLog`,
`CorrelationNeverMisleads`, `PagingMissesNothing`. The ring is always the newest
part of the log, never empty unless the log is (`RingOfTheLog`); the index holds
only what a correlation was last bound to (`IndexOfTheBindings`); cursor, shown
and missed account for every ordinal behind the cursor (`ReaderBehindTheLog`).

`TransportProofs`, for any number of clients and descriptors, every script and
frame size, any number of listens and shutdowns: the type invariant,
`OwnStreamOnly`, `NothingLeftBehind`, `StreamConserved`. The control part of
the invariant says how far shutdown has come and what that rules out
(`ShutdownInOrder`), and that a copy of a descriptor is good or, once shutdown
took the descriptor away, stale and not the number of another connection, because the
listener was closed before (`DescriptorOf`). What the rest of the process opens and
closes disturbs none of this (`ElsewhereControl`). The stream part says that buffer, wire and the unit the
client sends next continue the delivered frames without a gap. That a chain of
units begins with a whole frame is an induction over data; it is proved by
considering the least position at which it would fail.

`PlanningProofs`, for every table of policies, topologies and evidence that the
code's validation lets through, every request and word size:
`GrantsExactlyTheAuthorised`, `RefusalsAreTruthful`, `RatesWithinEvidence`,
`LogCanBeAudited`. The first two take the 22 rules one by
one (`RulesSay`) and show for each group that it lets a request pass exactly when
the independent statement of that authority holds (`PlanRules` to
`EvidenceRules`). Rates rest on `PerMilleRoundsDown`: dividing before multiplying
never exceeds the rate, never wraps, and meets a floor exactly when the undivided
product does. `RefusalsAreTruthful` has a conjunct for every
axis, the four that `plan_flow_group` refuses on before the engine included.
`LogCanBeAudited` is about decisions made long ago: the terms of each grant in the ring
follow from the generations it names, whatever is in force now. It is inductive
together with the types of the ring. The wrapping sum
of link capacities (`Spare`) is recursive; that it is a word is proved by
considering the least number of links for which it would not be one.

`PlanningProofs` also has `GroupsFollowPlans`, for every valid plan of any length
and every word size. It needs what loops and sorts compute:

* *Loops.* A loop over a sequence is a recursive function of the position.
  `LoopHasATrace` shows once that a function which starts and steps as the loop
  does exists, `SameTrace` that there is only one; both rest on induction over
  positions, stated for a set of positions (`InductionUpTo`).
* *Sorting.* Positions with a total order have a sorted arrangement
  (`TotalOrderSorts`), hence, ties going by position, also elements that an order
  such as `edge_less` does not all tell apart (`WeakOrderSorts`): what `std::sort`
  promises can be kept. In a valid plan no two edges are one obligation, so the order of
  the edges is strict and the sorted arrangement is determined by the set of edges alone (`CanonicalIsUnique`): this
  is why plans that differ in order share an identity.
* *Sums.* The sum over a sequence does not change when it is rearranged
  (`SumOfArranged`), and the sum that wraps is the one that does not, modulo the
  word (`TotalIsSum`).
* *Runs.* In a sorted sequence the occurrences of a value are one run
  (`RunIsWhole`), so the longest run counts the most frequent value
  (`LongestRunCounts`), and it is the same for every arrangement.

`GroupSummarises` puts these together for one group, `GroupsAreTold` for the
groups of any two plans that can be decided at a time.

`WireProofs`, for every set of messages, limits and durable states: no step serves
a damaged frame (`DamagedNeverServed`). The invariant follows the damage: a frame
that got past `decode_frame` is damaged in its session or not at all
(`DecodedFrames`), `on_frame` answers and keeps the connection only if the session
is its own or the frame a hello (`AnsweredIsServable`), and so whatever may not be
served has an error as its answer or none (`UnservedGetsAnError`). It leaves open
what a payload decodes to.

**Assumptions.** Those are the `ASSUME`s of the modules: limits are natural
numbers (positive where the code insists), sets of inputs have the types the code
gives them, the unset identity is not a value, scripts and frames have the shape
a client can send. In `Planning` they also say that every policy, response table,
topology, evidence and definition is one the code's own validation accepts
(`TrafficPolicy::validate`, `CongestionResponseTable::is_valid` and the checks of
the installs), which is the only way one comes into force, and that a plan is a
`FlowGroupPlan` whose edges have the types of `FlowEdge`, which is what decoding
yields. TLC evaluates them all on the runs.

**Only model-checked**, and why:

* Liveness (`StopReturns`, `ShutdownReturns`, `ClosedPeerLeaves`) is out of the
  prover's reach.
* `DecodesExactlyTheLegal`, `AcceptedSurvivesRestart` and `RecordsComeBackWhole`: that a decoder inverts an
  encoder is a statement about layouts in layouts, for some thirty pairs of layouts,
  and about every way a value can exceed a limit. The values are constants of
  `Wire`; a proof would have to say for all layouts at once which values are within
  the limits. TLC takes each field of each message to its limit and over it.

The type invariants of `Catalog`, `Durability`, `Sessions` and `Inspection` are
proved and are not among the properties of the runs. Proofs of rules and of
pacing are long because every rule is taken on its own; none has a hypothesis
other than the ones above and, for durability, `SingleSaver`.

## Not modelled

* Identities, errors, limits and rendering are values and texts without state;
  minted identities are taken to be distinct, digests and checksums to tell
  different contents apart (a flow group's identity is 64 bits of digest in the code).
* A power loss that undoes a completed rename (no directory is synced): the models
  have process deaths only.
* `sweep_idle_sessions` and `AdmissionController::peek` have no caller, and `peek`
  changes nothing; both are left out. The client
  side of the transport appears as what clients may do.
* Tools, examples and tests: they use the public interface and keep no state the
  coordinator depends on.

## Plan

Done: every part of the coordinator has a module, and every safety property that
the runs check has a proof, except the three above about the contents of payloads
(and, for `Durability`, with two savers, where they do not hold). Left:

1. The codec: a theorem about `Level`, that its `Read` inverts its `Write` if the
   level below does, instantiated four times, and which layouts of `Messages` match;
   then `DecodesExactlyTheLegal` for all values within the limits.
2. Action properties beyond those the runs check: an ordinal is never given out
   twice within a boot, a descriptor is closed once.
