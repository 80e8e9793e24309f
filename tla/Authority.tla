------------------------------ MODULE Authority ------------------------------
(***************************************************************************)
(* AuthorityState (src/src/authority.cpp): the coordinator's record of     *)
(* what is current.  Four generation axes (policy, topology, capacity,     *)
(* congestion), each with a bounded history of the generations accepted    *)
(* so far; the liveness record and the highest boot incarnation of every   *)
(* participant; the coordinator epoch.  Every method holds the object's    *)
(* mutex from its first read to its last write, so a method is one action. *)
(* The object is driven the way CoordinatorServer drives it: begin_boot,   *)
(* then a restore of the durable snapshot, then requests until a stop or   *)
(* the death of the process.  A refused call changes nothing and is a      *)
(* stuttering step.                                                        *)
(***************************************************************************)
EXTENDS Naturals, Sequences, FiniteSets

CONSTANTS
    Participant,     \* participant identities
    Session,         \* session identities
    Incarnation,     \* boot incarnations a participant may publish (ordered)
    PolicyGen,       \* generations a policy may carry
    TopologyGen,     \* generations a topology may carry
    EvidenceGen,     \* generations capacity and congestion evidence may carry
    None,            \* the unset identity
    HistoryCap,      \* GenerationHistory::kCapacity (64 in the code)
    PeersMax,        \* limits::kPeersMax (65536 in the code)
    Ttl,             \* ServiceConfig::participant_ttl_ms
    MaxEpoch,        \* bound: boots explored
    MaxTime,         \* bound: clock ticks explored
    MaxCrashes       \* bound: process deaths explored

ASSUME ConstantsAssumption ==
    /\ Incarnation \subseteq Nat \ {0}
    /\ None \notin Session \cup PolicyGen \cup TopologyGen \cup EvidenceGen
    /\ HistoryCap \in Nat \ {0}
    /\ PeersMax \in Nat /\ Ttl \in Nat
    /\ MaxEpoch \in Nat /\ MaxTime \in Nat /\ MaxCrashes \in Nat

\* Policy and topology are durable descriptions; capacity and congestion are
\* dynamic evidence, measured against one topology generation.
Described == {"policy", "topology"}
Dynamic == {"capacity", "congestion"}
Axis == Described \cup Dynamic

Gen == PolicyGen \cup TopologyGen \cup EvidenceGen

NeverInstalled == [g \in Gen |-> HistoryCap]

VARIABLES
    phase,      \* "down", "booting", "serving" or "stopped"
    epoch,      \* coordinator epoch; 128-bit random in the code, so never reused
    gen,        \* [Axis -> generation installed, or None]
    hist,       \* [Axis -> GenerationHistory of the axis, oldest first]
    since,      \* ghost: [Axis -> [Gen -> installs of the axis since this process
                \* last installed the generation, at most HistoryCap]]
    measured,   \* [Dynamic -> topology generation and boot the evidence is from]
    peers,      \* [Participant -> liveness record]
    highest,    \* [Participant -> highest incarnation seen, 0 when none]
    now,        \* monotonic clock
    durable,    \* the durable snapshot: [Described -> generation, or None]
    crashes,    \* process deaths so far (bounded by MaxCrashes)
    spent       \* ghost: <<epoch, participant, incarnation>> fenced so far

evidenceVars == <<gen, hist, since, measured>>
peerVars == <<peers, highest, spent>>
vars == <<phase, epoch, evidenceVars, peerVars, now, durable, crashes>>

\* ParticipantState; "absent" is the missing map entry.
SpentState == {"expired", "fenced", "retired"}
PublishState == {"advertised", "live", "suspect"} \cup SpentState
PeerState == PublishState \cup {"absent"}

\* PeerLiveness.  The field epoch is a ghost: the boot that wrote the record.
Peer == [inc : Nat, state : PeerState, expires : Nat,
         session : Session \cup {None}, epoch : Nat]
NoPeer == [inc |-> 0, state |-> "absent", expires |-> 0,
           session |-> None, epoch |-> 0]

\* Evidence records the topology it was measured on (and, as a ghost, the boot
\* that accepted it).
Measurement == [topology : TopologyGen \cup {None}, epoch : Nat]
NoMeasurement == [topology |-> None, epoch |-> 0]

-----------------------------------------------------------------------------
(* GenerationHistory: remember, contains.                                  *)

RememberOneTooMany(h, g) ==
    IF Len(h) <= HistoryCap THEN Append(h, g) ELSE Tail(Append(h, g))

Remember(h, g) ==
    IF Len(h) < HistoryCap THEN Append(h, g) ELSE Tail(Append(h, g))

Contains(h, g) == \E k \in 1..Len(h) : h[k] = g

AcceptableIgnoringHistory(a, g) == gen[a] # g

\* A generation an install may take: neither the one installed nor one still
\* in the axis' history.
Acceptable(a, g) == gen[a] # g /\ ~Contains(hist[a], g)

-----------------------------------------------------------------------------
(* Helpers over liveness records.                                          *)

Recorded == {p \in Participant : peers[p].state # "absent"}

Bound(S) == {p \in Recorded : peers[p].session \in S}

\* Incarnation i replaces the boot on record; the order decides, not mere
\* difference.
DifferentIsNewer(p, i) == i # highest[p]

IsNewer(p, i) == i > highest[p]

\* The boot on record may still refresh itself.
RefreshableUnlessFenced(p) == peers[p].state \notin {"fenced", "retired"}

Refreshable(p) == peers[p].state \notin SpentState

HighestUnmoved(p, i) == highest

NewHighest(p, i) == [highest EXCEPT ![p] = i]

\* clear() of peers, as begin_boot and restore_durable do it.
LivenessKept == peers

NoLiveness == [p \in Participant |-> NoPeer]

\* Capacity and congestion are reset, the described axes stay.
CongestionKept == [a \in Axis |-> IF a = "capacity" THEN None ELSE gen[a]]

WithoutEvidence == [a \in Axis |-> IF a \in Dynamic THEN None ELSE gen[a]]

SpentIn(ps) == {<<epoch, p, ps[p].inc>> : p \in {q \in Participant : ps[q].state \in SpentState}}

Fence(peer) == [peer EXCEPT !.state = "fenced", !.expires = now]

-----------------------------------------------------------------------------
Init ==
    /\ phase = "down"
    /\ epoch = 0
    /\ gen = [a \in Axis |-> None]
    /\ hist = [a \in Axis |-> <<>>]
    /\ since = [a \in Axis |-> NeverInstalled]
    /\ measured = [a \in Dynamic |-> NoMeasurement]
    /\ peers = [p \in Participant |-> NoPeer]
    /\ highest = [p \in Participant |-> 0]
    /\ now = 0
    /\ durable = [a \in Described |-> None]
    /\ crashes = 0
    /\ spent = {}

\* begin_boot.  Mints a fresh epoch and clears liveness and dynamic evidence;
\* policy, topology and the histories of a reused object stay.
BeginBoot ==
    /\ phase \in {"down", "stopped"}
    /\ epoch < MaxEpoch
    /\ phase' = "booting"
    /\ epoch' = epoch + 1
    /\ gen' = WithoutEvidence
    /\ measured' = [a \in Dynamic |-> NoMeasurement]
    /\ peers' = NoLiveness
    /\ highest' = [p \in Participant |-> 0]
    /\ UNCHANGED <<hist, since, spent, now, durable, crashes>>

\* restore_durable, called before the listener is up.  A generation that was
\* never persisted leaves the object's own in place.  Dynamic state is dropped
\* again.  The restored generations are not remembered in the histories.
\* last_durable_epoch is written but never read, and is left out.
RestoreDurable ==
    /\ phase = "booting"
    /\ phase' = "serving"
    /\ gen' = [a \in Axis |-> IF a \in Described /\ durable[a] # None
                              THEN durable[a] ELSE WithoutEvidence[a]]
    /\ measured' = [a \in Dynamic |-> NoMeasurement]
    /\ peers' = NoLiveness
    /\ highest' = [p \in Participant |-> 0]
    /\ UNCHANGED <<epoch, hist, since, spent, now, durable, crashes>>

\* CoordinatorServer::start without a usable snapshot file: the coordinator
\* starts with what begin_boot left.
RestoreMissing ==
    /\ phase = "booting"
    /\ phase' = "serving"
    /\ UNCHANGED <<epoch, evidenceVars, peerVars, now, durable, crashes>>

\* The ghost after an install of g: every other generation is one install older.
Aged(f, g) == [x \in Gen |-> IF x = g THEN 0
                            ELSE IF f[x] < HistoryCap THEN f[x] + 1 ELSE HistoryCap]

\* An accepted install is remembered by the axis it is about.
Replace(a, g) ==
    /\ hist' = [hist EXCEPT ![a] = Remember(hist[a], g)]
    /\ since' = [since EXCEPT ![a] = Aged(since[a], g)]

InstallPolicy(g) ==
    /\ phase = "serving"
    /\ Acceptable("policy", g)
    /\ Replace("policy", g)
    /\ gen' = [gen EXCEPT !["policy"] = g]
    /\ UNCHANGED <<phase, epoch, measured, peerVars, now, durable, crashes>>

\* A new topology drops the evidence measured on the previous one.
InstallTopology(g) ==
    /\ phase = "serving"
    /\ Acceptable("topology", g)
    /\ Replace("topology", g)
    /\ gen' = [WithoutEvidence EXCEPT !["topology"] = g]
    /\ measured' = [a \in Dynamic |-> NoMeasurement]
    /\ UNCHANGED <<phase, epoch, peerVars, now, durable, crashes>>

\* install_capacity and install_congestion: evidence g measured on topology t.
InstallEvidence(a, g, t) ==
    /\ phase = "serving"
    /\ gen["topology"] # None
    /\ t = gen["topology"]
    /\ Acceptable(a, g)
    /\ Replace(a, g)
    /\ gen' = [gen EXCEPT ![a] = g]
    /\ measured' = [measured EXCEPT ![a] = [topology |-> t, epoch |-> epoch]]
    /\ UNCHANGED <<phase, epoch, peerVars, now, durable, crashes>>

\* publish_liveness as CoordinatorService::publish_participant calls it.  The
\* service does not ask whether it is running, so a call may follow a stop.
\* Equal incarnations refresh a record that is not spent; greater ones replace
\* it, when the table has room for a participant it does not know.
PublishLiveness(p, i, st, s) ==
    /\ phase \in {"serving", "stopped"}
    /\ \/ /\ i = highest[p]
          /\ Refreshable(p)
       \/ /\ IsNewer(p, i)
          /\ p \in Recorded \/ Cardinality(Recorded) < PeersMax
    /\ highest' = NewHighest(p, i)
    /\ peers' = [peers EXCEPT ![p] =
                   [inc |-> i, state |-> st, session |-> s, epoch |-> epoch,
                    expires |-> IF st = "live" THEN now + Ttl ELSE now]]
    /\ spent' = spent \cup SpentIn(peers')
    /\ UNCHANGED <<phase, epoch, evidenceVars, now, durable, crashes>>

\* heartbeat.  Creates the record of a participant it does not know, without
\* the capacity check; a new boot loses the session binding of the old one.
Heartbeat(p, i) ==
    /\ phase \in {"serving", "stopped"}
    /\ \/ IsNewer(p, i)
       \/ /\ i = highest[p]
          /\ peers[p].state # "absent"
          /\ Refreshable(p)
    /\ highest' = NewHighest(p, i)
    /\ peers' = [peers EXCEPT ![p] =
                   [inc |-> i, state |-> "live", expires |-> now + Ttl, epoch |-> epoch,
                    session |-> IF peers[p].inc = i THEN peers[p].session ELSE None]]
    /\ spent' = spent \cup SpentIn(peers')
    /\ UNCHANGED <<phase, epoch, evidenceVars, now, durable, crashes>>

\* expire_session: fences every record bound to the session, whatever its state.
ExpireSession(s) ==
    /\ phase \in {"serving", "stopped"}
    /\ peers' = [p \in Participant |->
                   IF p \in Bound({s}) THEN Fence(peers[p]) ELSE peers[p]]
    /\ spent' = spent \cup SpentIn(peers')
    /\ UNCHANGED <<phase, epoch, evidenceVars, highest, now, durable, crashes>>

\* expire_due: fences every live record whose time is up.
ExpireDue ==
    /\ phase \in {"serving", "stopped"}
    /\ peers' = [p \in Participant |->
                   IF peers[p].state = "live" /\ now >= peers[p].expires
                   THEN Fence(peers[p]) ELSE peers[p]]
    /\ spent' = spent \cup SpentIn(peers')
    /\ UNCHANGED <<phase, epoch, evidenceVars, highest, now, durable, crashes>>

\* CoordinatorService::stop: fences the records of the open sessions S and
\* drops dynamic evidence (invalidate_dynamic_evidence).
StopService(S) ==
    /\ phase = "serving"
    /\ phase' = "stopped"
    /\ gen' = WithoutEvidence
    /\ measured' = [a \in Dynamic |-> NoMeasurement]
    /\ peers' = [p \in Participant |->
                   IF p \in Bound(S) THEN Fence(peers[p]) ELSE peers[p]]
    /\ spent' = spent \cup SpentIn(peers')
    /\ UNCHANGED <<epoch, hist, since, highest, now, durable, crashes>>

\* durable_snapshot followed by a completed save.
SaveDurable ==
    /\ phase \in {"serving", "stopped"}
    /\ durable' = [a \in Described |-> gen[a]]
    /\ UNCHANGED <<phase, epoch, evidenceVars, peerVars, now, crashes>>

\* The coordinator process dies, or exits after a stop: the object is gone.
ProcessDeath ==
    /\ phase # "down"
    /\ crashes < MaxCrashes
    /\ crashes' = crashes + 1
    /\ phase' = "down"
    /\ gen' = [a \in Axis |-> None]
    /\ hist' = [a \in Axis |-> <<>>]
    /\ since' = [a \in Axis |-> NeverInstalled]
    /\ measured' = [a \in Dynamic |-> NoMeasurement]
    /\ peers' = NoLiveness
    /\ highest' = [p \in Participant |-> 0]
    /\ UNCHANGED <<epoch, now, durable, spent>>

Tick ==
    /\ now < MaxTime
    /\ now' = now + 1
    /\ UNCHANGED <<phase, epoch, evidenceVars, peerVars, durable, crashes>>

Next ==
    \/ BeginBoot
    \/ RestoreDurable
    \/ RestoreMissing
    \/ \E g \in PolicyGen : InstallPolicy(g)
    \/ \E g \in TopologyGen : InstallTopology(g)
    \/ \E a \in Dynamic, g \in EvidenceGen, t \in TopologyGen : InstallEvidence(a, g, t)
    \/ \E p \in Participant, i \in Incarnation, st \in PublishState, s \in Session :
          PublishLiveness(p, i, st, s)
    \/ \E p \in Participant, i \in Incarnation : Heartbeat(p, i)
    \/ \E s \in Session : ExpireSession(s)
    \/ ExpireDue
    \/ \E S \in SUBSET Session : StopService(S)
    \/ SaveDurable
    \/ ProcessDeath
    \/ Tick

Spec == Init /\ [][Next]_vars

-----------------------------------------------------------------------------
(* Properties.                                                             *)

\* Type correctness of the authority state; the histories stay within their
\* capacity.
TypeOK ==
    /\ phase \in {"down", "booting", "serving", "stopped"}
    /\ epoch \in Nat
    /\ gen \in [Axis -> Gen \cup {None}]
    /\ hist \in [Axis -> Seq(Gen)]
    /\ \A a \in Axis : Len(hist[a]) <= HistoryCap
    /\ since \in [Axis -> [Gen -> 0..HistoryCap]]
    /\ measured \in [Dynamic -> Measurement]
    /\ peers \in [Participant -> Peer]
    /\ highest \in [Participant -> Nat]
    /\ now \in Nat
    /\ durable \in [Described -> Gen \cup {None}]
    /\ crashes \in Nat
    /\ spent \in SUBSET (Nat \X Participant \X Nat)

\* Capacity and congestion evidence in force always describes the topology in
\* force: a topology change, a restore that brings back another topology, and a
\* late observation of the previous topology never leave evidence that was
\* measured on a fabric that is not current (install_topology, install_capacity,
\* install_congestion, restore_durable).
EvidenceDescribesCurrentTopology ==
    \A a \in Dynamic :
        gen[a] # None => /\ gen["topology"] # None
                         /\ measured[a].topology = gen["topology"]

\* Nothing dynamic survives a boot: every liveness record and every observation
\* in force was accepted under the current epoch, whether the process died or
\* the same object was stopped and started again (begin_boot, restore_durable).
NothingDynamicSurvivesBoot ==
    /\ \A p \in Participant : peers[p].state # "absent" => peers[p].epoch = epoch
    /\ \A a \in Dynamic : gen[a] # None => measured[a].epoch = epoch

\* The replay window: a generation this process has installed is not installed
\* again before HistoryCap other installs of its axis, however long it has been
\* out of force, through topology changes that drop evidence and through stops
\* and boots of the same object (GenerationHistory, install_*).  The window is
\* of installs only: a generation that restore_durable put in force is not
\* remembered and may be installed again as soon as it is superseded, as may,
\* after the death of the process, every generation installed before it.
NoReplayWithinWindow ==
    [][\A a \in Axis, g \in Gen :
         phase = "serving" /\ gen[a] # g /\ gen'[a] = g => since[a][g] = HistoryCap]_vars

\* The liveness record of a participant always carries the highest incarnation
\* seen for it, so an older boot is never the one that is believed, and the
\* branch of publish_liveness for a known incarnation without a record is dead.
RecordHoldsHighestIncarnation ==
    \A p \in Participant :
        /\ peers[p].inc = highest[p]
        /\ peers[p].state = "absent" <=> highest[p] = 0

\* A boot incarnation that was fenced, expired or retired never holds authority
\* again under the same epoch: no refresh, heartbeat, rebinding to another
\* session or late publication revives it (publish_liveness, heartbeat,
\* expire_session, expire_due).
SpentIncarnationStaysSpent ==
    \A t \in spent : t[1] = epoch /\ phase # "down" =>
        /\ t[3] <= highest[t[2]]
        /\ peers[t[2]].inc = t[3] => peers[t[2]].state \in SpentState

\* The highest incarnation of a participant never regresses while the epoch and
\* the process last.
IncarnationNeverRegresses ==
    [][phase # "down" /\ phase' # "down" /\ epoch' = epoch
         => \A p \in Participant : highest'[p] >= highest[p]]_vars
=============================================================================
