---------------------------- MODULE SessionsProofs ----------------------------
(***************************************************************************)
(* Proofs about Authority and about Sessions, which extends it, for every  *)
(* set of participants, sessions, generations and connections, every       *)
(* history capacity and every bound.                                       *)
(***************************************************************************)
EXTENDS Sessions, FiniteSetTheorems, TLAPS

(***************************************************************************)
(* Authority, driven by any caller.                                        *)
(***************************************************************************)
\* Before a boot has finished there is no liveness record, and a fencing is
\* never stamped with an epoch that has not begun.
BootingHasNoPeers ==
    phase \in {"down", "booting"} => \A p \in Participant : peers[p] = NoPeer

SpentInThePast ==
    \A t \in spent : t[1] <= epoch /\ (phase = "booting" => t[1] < epoch)

\* The history h is the window of the installs that f counts: its entries are the
\* generations installed last, in order, and no other was installed that lately.
IsWindow(h, f) ==
    /\ \A k \in 1..Len(h) : f[h[k]] = Len(h) - k
    /\ \A g \in Gen : f[g] < HistoryCap => Contains(h, g)

HistoryIsTheWindow == \A a \in Axis : IsWindow(hist[a], since[a])

\* The inductive invariant behind the safety theorems.
IInv ==
    /\ TypeOK
    /\ EvidenceDescribesCurrentTopology
    /\ NothingDynamicSurvivesBoot
    /\ HistoryIsTheWindow
    /\ RecordHoldsHighestIncarnation
    /\ SpentIncarnationStaysSpent
    /\ BootingHasNoPeers
    /\ SpentInThePast

-----------------------------------------------------------------------------
\* Remembering a generation keeps a history a sequence within its capacity
\* whose last entry is the generation remembered (GenerationHistory::remember).
LEMMA RememberShape ==
    ASSUME NEW h \in Seq(Gen), NEW g \in Gen, Len(h) <= HistoryCap
    PROVE  /\ Remember(h, g) \in Seq(Gen)
           /\ Len(Remember(h, g)) <= HistoryCap
  <1>1. HistoryCap \in Nat \ {0}
    BY ConstantsAssumption
  <1>2. CASE Len(h) < HistoryCap
    BY <1>1, <1>2 DEF Remember
  <1>3. CASE ~(Len(h) < HistoryCap)
    <2>1. Append(h, g) \in Seq(Gen) /\ Len(Append(h, g)) = Len(h) + 1
      OBVIOUS
    <2>2. Append(h, g) # <<>>
      BY <2>1
    <2>3. /\ Tail(Append(h, g)) \in Seq(Gen)
          /\ Len(Tail(Append(h, g))) = Len(Append(h, g)) - 1
      BY <2>1, <2>2
    <2>4. QED
      BY <1>1, <1>3, <2>1, <2>3 DEF Remember
  <1>4. QED
    BY <1>2, <1>3

\* Remembering a generation the history does not contain keeps the history the
\* window of the installs, whether or not the oldest one is evicted.
LEMMA RememberKeepsWindow ==
    ASSUME NEW h \in Seq(Gen), NEW g \in Gen, Len(h) <= HistoryCap,
           ~Contains(h, g), NEW f \in [Gen -> 0..HistoryCap], IsWindow(h, f)
    PROVE  IsWindow(Remember(h, g), Aged(f, g))
  <1> DEFINE a == Append(h, g)
             n == Len(h)
             w == Aged(f, g)
  <1>0. HistoryCap \in Nat \ {0} /\ n \in Nat
    BY ConstantsAssumption
  <1>1. /\ a \in Seq(Gen)
        /\ Len(a) = n + 1
        /\ \A k \in 1..n : a[k] = h[k]
        /\ a[n + 1] = g
    OBVIOUS
  <1>2. \A k \in 1..n : h[k] \in Gen /\ h[k] # g /\ f[h[k]] = n - k
    BY DEF Contains, IsWindow
  <1>3. /\ w[g] = 0
        /\ \A x \in Gen \ {g} : w[x] = IF f[x] < HistoryCap THEN f[x] + 1 ELSE HistoryCap
    BY DEF Aged
  <1>4. \A k \in 1..n : w[h[k]] = n - k + 1
    BY <1>0, <1>2, <1>3
  <1>5. \A x \in Gen \ {g} : w[x] < HistoryCap =>
            \E k \in 1..n : h[k] = x /\ n - k + 1 < HistoryCap
    <2> SUFFICES ASSUME NEW x \in Gen \ {g}, w[x] < HistoryCap
                 PROVE  \E k \in 1..n : h[k] = x /\ n - k + 1 < HistoryCap
      OBVIOUS
    <2>1. f[x] \in 0..HistoryCap
      OBVIOUS
    <2>2. f[x] < HistoryCap /\ f[x] + 1 < HistoryCap
      BY <1>0, <1>3, <2>1
    <2>3. PICK k \in 1..n : h[k] = x
      BY <2>2 DEF IsWindow, Contains
    <2>4. QED
      BY <1>2, <2>2, <2>3
  <1>6. CASE n < HistoryCap
    <2>1. Remember(h, g) = a
      BY <1>6 DEF Remember
    <2> HIDE DEF a, n, w
    <2>2. \A k \in 1..Len(a) : w[a[k]] = Len(a) - k
      BY <1>0, <1>1, <1>3, <1>4
    <2>3. \A x \in Gen : w[x] < HistoryCap => \E k \in 1..Len(a) : a[k] = x
      <3>1. n + 1 \in 1..Len(a) /\ \A k \in 1..n : k \in 1..Len(a)
        BY <1>0, <1>1
      <3>2. QED
        BY <1>1, <1>5, <3>1
    <2>4. IsWindow(a, w)
      BY <2>2, <2>3 DEF IsWindow, Contains
    <2>5. QED
      BY <2>1, <2>4 DEF w
  <1>7. CASE ~(n < HistoryCap)
    <2>1. a # <<>>
      BY <1>1
    <2>2. Remember(h, g) = Tail(a) /\ n = HistoryCap
      BY <1>0, <1>7 DEF Remember
    <2> HIDE DEF a, n, w
    <2>3. PICK t : t = Tail(a)
      OBVIOUS
    <2>4. /\ Len(t) = n
          /\ \A k \in 1..n : t[k] = a[k + 1]
      BY <1>0, <1>1, <2>1, <2>3
    <2>5. /\ t[n] = g
          /\ \A k \in 2..n : t[k - 1] = h[k]
      BY <1>0, <1>1, <2>2, <2>4
    <2>6. \A k \in 1..n : w[t[k]] = n - k
      <3> SUFFICES ASSUME NEW k \in 1..n PROVE w[t[k]] = n - k
        OBVIOUS
      <3>1. CASE k = n
        BY <1>0, <1>3, <2>5, <3>1
      <3>2. CASE k # n
        <4>1. k + 1 \in 1..n /\ t[k] = h[k + 1]
          <5>1. k + 1 \in 1..n /\ k + 1 \in 2..n /\ (k + 1) - 1 = k
            BY <1>0, <3>2
          <5>2. QED
            BY <2>5, <5>1
        <4>2. w[h[k + 1]] = n - (k + 1) + 1
          BY <1>4, <4>1
        <4>3. QED
          BY <1>0, <4>1, <4>2
      <3>3. QED
        BY <3>1, <3>2
    <2>7. ASSUME NEW x \in Gen, w[x] < HistoryCap
          PROVE  \E k \in 1..n : t[k] = x
      <3>1. CASE x = g
        BY <1>0, <2>2, <2>5, <3>1
      <3>2. CASE x # g
        <4>1. PICK k \in 1..n : h[k] = x /\ n - k + 1 < HistoryCap
          BY <1>5, <2>7, <3>2
        <4>2. k \in 2..n /\ k - 1 \in 1..n
          BY <1>0, <2>2, <4>1
        <4>3. QED
          BY <2>5, <4>1, <4>2
      <3>3. QED
        BY <3>1, <3>2
    <2>8. IsWindow(t, w)
      BY <2>4, <2>6, <2>7 DEF IsWindow, Contains
    <2>9. QED
      BY <2>2, <2>3, <2>8 DEF w
  <1>8. QED
    BY <1>6, <1>7

-----------------------------------------------------------------------------
\* What an accepted install leaves in the histories.
LEMMA ReplaceKeepsHistories ==
    ASSUME TypeOK, HistoryIsTheWindow,
           NEW a \in Axis, NEW g \in Gen, Acceptable(a, g), Replace(a, g)
    PROVE  /\ hist' \in [Axis -> Seq(Gen)]
           /\ \A b \in Axis : Len(hist'[b]) <= HistoryCap
           /\ since' \in [Axis -> [Gen -> 0..HistoryCap]]
           /\ HistoryIsTheWindow'
  <1>1. /\ hist[a] \in Seq(Gen) /\ Len(hist[a]) <= HistoryCap
        /\ since[a] \in [Gen -> 0..HistoryCap]
    BY DEF TypeOK
  <1>2. /\ hist' = [hist EXCEPT ![a] = Remember(hist[a], g)]
        /\ since' = [since EXCEPT ![a] = Aged(since[a], g)]
    BY DEF Replace
  <1>3. /\ Remember(hist[a], g) \in Seq(Gen)
        /\ Len(Remember(hist[a], g)) <= HistoryCap
    BY <1>1, RememberShape
  <1>4. Aged(since[a], g) \in [Gen -> 0..HistoryCap]
    BY <1>1, ConstantsAssumption DEF Aged
  <1>5. IsWindow(Remember(hist[a], g), Aged(since[a], g))
    BY <1>1, RememberKeepsWindow DEF Acceptable, HistoryIsTheWindow
  <1>6. /\ hist' \in [Axis -> Seq(Gen)]
        /\ \A b \in Axis : hist'[b] = IF b = a THEN Remember(hist[a], g) ELSE hist[b]
    BY <1>2, <1>3 DEF TypeOK
  <1>7. /\ since' \in [Axis -> [Gen -> 0..HistoryCap]]
        /\ \A b \in Axis : since'[b] = IF b = a THEN Aged(since[a], g) ELSE since[b]
    BY <1>2, <1>4 DEF TypeOK
  <1>8. \A b \in Axis : Len(hist'[b]) <= HistoryCap
    BY <1>3, <1>6 DEF TypeOK
  <1>9. HistoryIsTheWindow'
    BY <1>5, <1>6, <1>7 DEF HistoryIsTheWindow
  <1>10. QED
    BY <1>6, <1>7, <1>8, <1>9

\* A step that leaves the evidence alone preserves what IInv says of it, as long
\* as the epoch stays.
LEMMA EvidenceUntouched ==
    ASSUME IInv, UNCHANGED <<evidenceVars, epoch>>
    PROVE  /\ gen' \in [Axis -> Gen \cup {None}]
           /\ hist' \in [Axis -> Seq(Gen)]
           /\ \A a \in Axis : Len(hist'[a]) <= HistoryCap
           /\ since' \in [Axis -> [Gen -> 0..HistoryCap]]
           /\ measured' \in [Dynamic -> Measurement]
           /\ EvidenceDescribesCurrentTopology'
           /\ HistoryIsTheWindow'
           /\ \A a \in Dynamic : gen'[a] # None => measured'[a].epoch = epoch'
  BY DEF IInv, evidenceVars, TypeOK, EvidenceDescribesCurrentTopology,
         HistoryIsTheWindow, NothingDynamicSurvivesBoot

\* A step that leaves liveness, epoch and phase alone preserves what IInv says
\* of them.
LEMMA PeersUntouched ==
    ASSUME IInv, UNCHANGED <<peerVars, epoch, phase>>
    PROVE  /\ peers' \in [Participant -> Peer]
           /\ highest' \in [Participant -> Nat]
           /\ spent' \in SUBSET (Nat \X Participant \X Nat)
           /\ epoch' \in Nat
           /\ phase' \in {"down", "booting", "serving", "stopped"}
           /\ RecordHoldsHighestIncarnation'
           /\ SpentIncarnationStaysSpent'
           /\ BootingHasNoPeers'
           /\ SpentInThePast'
           /\ \A p \in Participant : peers'[p].state # "absent" => peers'[p].epoch = epoch'
  BY DEF IInv, peerVars, TypeOK, RecordHoldsHighestIncarnation,
         SpentIncarnationStaysSpent, BootingHasNoPeers, SpentInThePast,
         NothingDynamicSurvivesBoot

\* Dropping capacity and congestion leaves nothing to disagree with the
\* topology or the boot.
LEMMA EvidenceDropped ==
    ASSUME TypeOK, \A a \in Dynamic : gen'[a] = None,
           measured' = [a \in Dynamic |-> NoMeasurement]
    PROVE  /\ measured' \in [Dynamic -> Measurement]
           /\ EvidenceDescribesCurrentTopology'
           /\ \A a \in Dynamic : gen'[a] # None => measured'[a].epoch = epoch'
  BY DEF EvidenceDescribesCurrentTopology, Measurement, NoMeasurement

\* Clearing the participant table (begin_boot, restore_durable, process death)
\* when no fencing of the new epoch is on record.
LEMMA PeersCleared ==
    ASSUME TypeOK, peers' = NoLiveness,
           highest' = [p \in Participant |-> 0], spent' = spent,
           \A t \in spent : t[1] = epoch' => phase' = "down"
    PROVE  /\ peers' \in [Participant -> Peer]
           /\ highest' \in [Participant -> Nat]
           /\ RecordHoldsHighestIncarnation'
           /\ SpentIncarnationStaysSpent'
           /\ BootingHasNoPeers'
           /\ \A p \in Participant : peers'[p].state # "absent" => peers'[p].epoch = epoch'
  <1>1. NoPeer \in Peer
    BY DEF NoPeer, Peer, PeerState
  <1>2. \A p \in Participant : peers'[p] = NoPeer
    BY DEF NoLiveness
  <1>3. peers' \in [Participant -> Peer] /\ highest' \in [Participant -> Nat]
    BY <1>1 DEF NoLiveness
  <1>4. RecordHoldsHighestIncarnation'
    BY <1>2 DEF RecordHoldsHighestIncarnation, NoPeer
  <1>5. SpentIncarnationStaysSpent'
    BY DEF SpentIncarnationStaysSpent
  <1>6. BootingHasNoPeers'
    BY <1>2 DEF BootingHasNoPeers
  <1>7. \A p \in Participant : peers'[p].state = "absent"
    BY <1>2 DEF NoPeer
  <1>8. QED
    BY <1>3, <1>4, <1>5, <1>6, <1>7

-----------------------------------------------------------------------------
\* What the ghost set of spent incarnations gains from a participant table.
LEMMA SpentInElement ==
    ASSUME TypeOK, NEW ps \in [Participant -> Peer], NEW t \in SpentIn(ps)
    PROVE  /\ t \in Nat \X Participant \X Nat
           /\ t[1] = epoch /\ t[2] \in Participant /\ t[3] = ps[t[2]].inc
           /\ ps[t[2]].state \in SpentState
  <1>1. PICK p \in Participant : t = <<epoch, p, ps[p].inc>> /\ ps[p].state \in SpentState
    BY DEF SpentIn
  <1>2. ps[p].inc \in Nat /\ epoch \in Nat
    BY DEF Peer, TypeOK
  <1>3. QED
    BY <1>1, <1>2

\* A step of expire_session, expire_due or stop: some records are fenced, the
\* others and all incarnations stay.  Fencing never revives a record.
LEMMA PeersFenced ==
    ASSUME IInv, UNCHANGED <<epoch, highest>>,
           phase \in {"serving", "stopped"}, phase' \in {"serving", "stopped"},
           NEW F \in SUBSET Participant,
           \A p \in F : peers[p].state # "absent",
           peers' = [p \in Participant |-> IF p \in F THEN Fence(peers[p]) ELSE peers[p]],
           spent' = spent \cup SpentIn(peers')
    PROVE  /\ peers' \in [Participant -> Peer]
           /\ highest' \in [Participant -> Nat]
           /\ spent' \in SUBSET (Nat \X Participant \X Nat)
           /\ RecordHoldsHighestIncarnation'
           /\ SpentIncarnationStaysSpent'
           /\ BootingHasNoPeers'
           /\ SpentInThePast'
           /\ \A p \in Participant : peers'[p].state # "absent" => peers'[p].epoch = epoch'
  <1>1. TypeOK
    BY DEF IInv
  <1>2. \A p \in Participant : /\ peers[p] \in Peer
                               /\ Fence(peers[p]) \in Peer
                               /\ Fence(peers[p]).inc = peers[p].inc
                               /\ Fence(peers[p]).epoch = peers[p].epoch
                               /\ Fence(peers[p]).state = "fenced"
    <2> SUFFICES ASSUME NEW p \in Participant
                 PROVE  /\ peers[p] \in Peer
                        /\ Fence(peers[p]) \in Peer
                        /\ Fence(peers[p]).inc = peers[p].inc
                        /\ Fence(peers[p]).epoch = peers[p].epoch
                        /\ Fence(peers[p]).state = "fenced"
      OBVIOUS
    <2>1. peers[p] \in Peer /\ now \in Nat
      BY <1>1 DEF TypeOK
    <2>2. "fenced" \in PeerState
      BY DEF PeerState, PublishState, SpentState
    <2>3. QED
      BY <2>1, <2>2 DEF Fence, Peer
  <1>3. peers' \in [Participant -> Peer]
    BY <1>2
  <1>4. \A p \in Participant : /\ peers'[p].inc = peers[p].inc
                               /\ peers'[p].epoch = peers[p].epoch
                               /\ peers'[p].state = IF p \in F THEN "fenced" ELSE peers[p].state
    BY <1>2
  <1>5. RecordHoldsHighestIncarnation'
    BY <1>4 DEF IInv, RecordHoldsHighestIncarnation
  <1>6. \A t \in SpentIn(peers') :
            /\ t \in Nat \X Participant \X Nat
            /\ t[1] = epoch /\ t[2] \in Participant /\ t[3] = peers'[t[2]].inc
            /\ peers'[t[2]].state \in SpentState
    BY <1>1, <1>3, SpentInElement
  <1>7. spent' \in SUBSET (Nat \X Participant \X Nat)
    BY <1>1, <1>6 DEF TypeOK
  <1>8. SpentIncarnationStaysSpent'
    <2> SUFFICES ASSUME NEW t \in spent', t[1] = epoch
                 PROVE  /\ t[3] <= highest[t[2]]
                        /\ peers'[t[2]].inc = t[3] => peers'[t[2]].state \in SpentState
      BY DEF SpentIncarnationStaysSpent
    <2>1. CASE t \in spent
      <3>1. t[2] \in Participant
        BY <1>1, <2>1 DEF TypeOK
      <3>2. /\ t[3] <= highest[t[2]]
            /\ peers[t[2]].inc = t[3] => peers[t[2]].state \in SpentState
        BY <2>1 DEF IInv, SpentIncarnationStaysSpent
      <3>3. QED
        BY <1>4, <3>1, <3>2 DEF SpentState
    <2>2. CASE t \in SpentIn(peers')
      <3>1. t[2] \in Participant /\ t[3] = peers'[t[2]].inc /\ peers'[t[2]].state \in SpentState
        BY <1>6, <2>2
      <3>2. peers'[t[2]].inc = highest[t[2]] /\ highest[t[2]] \in Nat
        BY <1>1, <1>4, <3>1 DEF IInv, RecordHoldsHighestIncarnation, TypeOK
      <3>3. QED
        BY <3>1, <3>2
    <2>3. QED
      BY <2>1, <2>2
  <1>9. BootingHasNoPeers'
    BY DEF BootingHasNoPeers
  <1>10. SpentInThePast'
    <2>1. epoch \in Nat /\ epoch' = epoch /\ phase' # "booting"
      BY <1>1 DEF TypeOK
    <2>2. SUFFICES ASSUME NEW t \in spent' PROVE t[1] <= epoch
      BY <2>1 DEF SpentInThePast
    <2>3. CASE t \in spent
      BY <2>3 DEF SpentInThePast, IInv
    <2>4. CASE t \in SpentIn(peers')
      <3>1. t[1] = epoch
        BY <1>6, <2>4
      <3>2. QED
        BY <2>1, <3>1
    <2>5. QED
      BY <2>3, <2>4
  <1>11. \A p \in Participant : peers'[p].state # "absent" => peers'[p].epoch = epoch'
    BY <1>4 DEF IInv, NothingDynamicSurvivesBoot
  <1>12. QED
    BY <1>1, <1>3, <1>5, <1>7, <1>8, <1>9, <1>10, <1>11 DEF TypeOK

\* A step of publish_liveness or heartbeat: one record is written, by the boot
\* on record while it is not spent or by a strictly greater incarnation.
LEMMA PeerWritten ==
    ASSUME IInv, UNCHANGED <<epoch, phase>>, phase \in {"serving", "stopped"},
           NEW p \in Participant, NEW i \in Incarnation, NEW r \in Peer,
           r.inc = i, r.epoch = epoch, r.state # "absent",
           \/ i = highest[p] /\ Refreshable(p)
           \/ IsNewer(p, i),
           highest' = NewHighest(p, i),
           peers' = [peers EXCEPT ![p] = r],
           spent' = spent \cup SpentIn(peers')
    PROVE  /\ peers' \in [Participant -> Peer]
           /\ highest' \in [Participant -> Nat]
           /\ spent' \in SUBSET (Nat \X Participant \X Nat)
           /\ RecordHoldsHighestIncarnation'
           /\ SpentIncarnationStaysSpent'
           /\ BootingHasNoPeers'
           /\ SpentInThePast'
           /\ \A q \in Participant : peers'[q].state # "absent" => peers'[q].epoch = epoch'
  <1>1. TypeOK
    BY DEF IInv
  <1>2. i \in Nat /\ i # 0
    BY ConstantsAssumption
  <1>3. /\ peers' \in [Participant -> Peer]
        /\ \A q \in Participant : peers'[q] = IF q = p THEN r ELSE peers[q]
    BY <1>1 DEF TypeOK
  <1>4. /\ highest' \in [Participant -> Nat]
        /\ \A q \in Participant : highest'[q] = IF q = p THEN i ELSE highest[q]
    BY <1>1, <1>2 DEF TypeOK, NewHighest
  <1>5. RecordHoldsHighestIncarnation'
    BY <1>2, <1>3, <1>4 DEF IInv, RecordHoldsHighestIncarnation
  <1>6. \A t \in SpentIn(peers') :
            /\ t \in Nat \X Participant \X Nat
            /\ t[1] = epoch /\ t[2] \in Participant /\ t[3] = peers'[t[2]].inc
            /\ peers'[t[2]].state \in SpentState
    BY <1>1, <1>3, SpentInElement
  <1>8. spent' \in SUBSET (Nat \X Participant \X Nat)
    BY <1>1, <1>6 DEF TypeOK
  <1>9. SpentIncarnationStaysSpent'
    <2> SUFFICES ASSUME NEW t \in spent', t[1] = epoch
                 PROVE  /\ t[3] <= highest'[t[2]]
                        /\ peers'[t[2]].inc = t[3] => peers'[t[2]].state \in SpentState
      BY DEF SpentIncarnationStaysSpent
    <2>1. CASE t \in spent
      <3>1. t[2] \in Participant /\ t[3] \in Nat
        BY <1>1, <2>1 DEF TypeOK
      <3>2. /\ t[3] <= highest[t[2]]
            /\ peers[t[2]].inc = t[3] => peers[t[2]].state \in SpentState
        BY <2>1 DEF IInv, SpentIncarnationStaysSpent
      <3>3. peers[p].inc = highest[p] /\ highest[p] \in Nat
        BY <1>1 DEF IInv, RecordHoldsHighestIncarnation, TypeOK
      <3>4. CASE t[2] = p
        <4>1. i >= highest[p]
          BY <1>2, <3>3 DEF IsNewer
        <4>2. t[3] # i
          BY <3>2, <3>3, <3>4, <1>2 DEF IsNewer, Refreshable
        <4>3. QED
          BY <1>2, <1>3, <1>4, <3>1, <3>2, <3>3, <3>4, <4>1, <4>2
      <3>5. CASE t[2] # p
        BY <1>3, <1>4, <3>1, <3>2, <3>5
      <3>6. QED
        BY <3>4, <3>5
    <2>2. CASE t \in SpentIn(peers')
      <3>1. t[2] \in Participant /\ t[3] = peers'[t[2]].inc /\ peers'[t[2]].state \in SpentState
        BY <1>6, <2>2
      <3>2. peers'[t[2]].inc = highest'[t[2]]
        BY <1>5, <3>1 DEF RecordHoldsHighestIncarnation
      <3>3. QED
        BY <1>4, <3>1, <3>2
    <2>3. QED
      BY <2>1, <2>2
  <1>10. BootingHasNoPeers'
    BY DEF BootingHasNoPeers
  <1>11. SpentInThePast'
    <2>1. epoch \in Nat /\ epoch' = epoch /\ phase' # "booting"
      BY <1>1 DEF TypeOK
    <2>2. SUFFICES ASSUME NEW t \in spent' PROVE t[1] <= epoch
      BY <2>1 DEF SpentInThePast
    <2>3. CASE t \in spent
      BY <2>3 DEF SpentInThePast, IInv
    <2>4. CASE t \in SpentIn(peers')
      <3>1. t[1] = epoch
        BY <1>6, <2>4
      <3>2. QED
        BY <2>1, <3>1
    <2>5. QED
      BY <2>3, <2>4
  <1>12. \A q \in Participant : peers'[q].state # "absent" => peers'[q].epoch = epoch'
    BY <1>3 DEF IInv, NothingDynamicSurvivesBoot
  <1>13. QED
    BY <1>3, <1>4, <1>5, <1>8, <1>9, <1>10, <1>11, <1>12

-----------------------------------------------------------------------------
\* The initial state satisfies the inductive invariant.
LEMMA InitIInv == Init => IInv
  <1> SUFFICES ASSUME Init PROVE IInv
    OBVIOUS
  <1>1. TypeOK
    <2>1. NoPeer \in Peer /\ NoMeasurement \in Measurement
      BY DEF NoPeer, Peer, PeerState, NoMeasurement, Measurement
    <2>2. \A a \in Axis : hist[a] = <<>> /\ Len(hist[a]) = 0
      BY DEF Init
    <2>3. HistoryCap \in Nat
      BY ConstantsAssumption
    <2>4. QED
      BY <2>1, <2>2, <2>3 DEF Init, TypeOK, NeverInstalled
  <1>2. HistoryIsTheWindow
    BY ConstantsAssumption DEF Init, HistoryIsTheWindow, IsWindow, NeverInstalled
  <1>3. QED
    BY <1>1, <1>2 DEF Init, IInv, EvidenceDescribesCurrentTopology, NothingDynamicSurvivesBoot,
                RecordHoldsHighestIncarnation,
                SpentIncarnationStaysSpent, BootingHasNoPeers, SpentInThePast,
                NoPeer, Dynamic, Described, Axis

\* Every step, and every stuttering step, preserves the inductive invariant.
LEMMA NextIInv == IInv /\ [Next]_vars => IInv'
  <1> SUFFICES ASSUME IInv, [Next]_vars PROVE IInv'
    OBVIOUS
  <1> USE DEF IInv
  <1>0. TypeOK
    OBVIOUS
  <1>a. Described \subseteq Axis /\ Dynamic \subseteq Axis /\ Described \cap Dynamic = {}
        /\ "policy" \in Described /\ "topology" \in Described
    BY DEF Described, Dynamic, Axis
  <1>b. PolicyGen \subseteq Gen /\ TopologyGen \subseteq Gen /\ EvidenceGen \subseteq Gen
        /\ None \notin Session
    BY ConstantsAssumption DEF Gen
  <1>c. /\ WithoutEvidence \in [Axis -> Gen \cup {None}]
        /\ \A a \in Axis : WithoutEvidence[a] = IF a \in Dynamic THEN None ELSE gen[a]
    BY <1>0 DEF TypeOK, WithoutEvidence
  <1>1. CASE BeginBoot
    <2>1. /\ epoch' = epoch + 1 /\ phase' = "booting" /\ spent' = spent
          /\ peers' = NoLiveness /\ highest' = [p \in Participant |-> 0]
          /\ gen' = WithoutEvidence /\ measured' = [a \in Dynamic |-> NoMeasurement]
          /\ UNCHANGED <<hist, since, now, durable, crashes>>
      BY <1>1 DEF BeginBoot
    <2>2. \A t \in spent : t[1] < epoch'
      BY <1>0, <2>1 DEF TypeOK, SpentInThePast
    <2>3. \A t \in spent : t[1] = epoch' => phase' = "down"
      BY <1>0, <2>1, <2>2 DEF TypeOK
    <2>4. /\ peers' \in [Participant -> Peer]
          /\ highest' \in [Participant -> Nat]
          /\ RecordHoldsHighestIncarnation'
          /\ SpentIncarnationStaysSpent'
          /\ BootingHasNoPeers'
          /\ \A p \in Participant : peers'[p].state # "absent" => peers'[p].epoch = epoch'
      BY <1>0, <2>1, <2>3, PeersCleared
    <2>5. \A a \in Dynamic : gen'[a] = None
      BY <1>a, <1>c, <2>1
    <2>6. /\ measured' \in [Dynamic -> Measurement]
          /\ EvidenceDescribesCurrentTopology'
          /\ \A a \in Dynamic : gen'[a] # None => measured'[a].epoch = epoch'
      BY <1>0, <2>1, <2>5, EvidenceDropped
    <2>7. TypeOK'
      BY <1>0, <1>c, <2>1, <2>4, <2>6 DEF TypeOK
    <2>8. HistoryIsTheWindow'
      BY <2>1 DEF HistoryIsTheWindow
    <2>9. SpentInThePast'
      BY <1>0, <2>1, <2>2 DEF SpentInThePast, TypeOK
    <2>10. QED
      BY <2>4, <2>6, <2>7, <2>8, <2>9 DEF NothingDynamicSurvivesBoot
  <1>2. CASE RestoreDurable
    <2>1. /\ phase = "booting" /\ phase' = "serving"
          /\ peers' = NoLiveness /\ highest' = [p \in Participant |-> 0]
          /\ gen' = [a \in Axis |-> IF a \in Described /\ durable[a] # None
                                    THEN durable[a] ELSE WithoutEvidence[a]]
          /\ measured' = [a \in Dynamic |-> NoMeasurement]
          /\ UNCHANGED <<epoch, spent, hist, since, now, durable, crashes>>
      BY <1>2 DEF RestoreDurable
    <2>2. \A t \in spent : t[1] # epoch'
      BY <1>0, <2>1 DEF TypeOK, SpentInThePast
    <2>4. /\ peers' \in [Participant -> Peer]
          /\ highest' \in [Participant -> Nat]
          /\ RecordHoldsHighestIncarnation'
          /\ SpentIncarnationStaysSpent'
          /\ BootingHasNoPeers'
          /\ \A p \in Participant : peers'[p].state # "absent" => peers'[p].epoch = epoch'
      BY <1>0, <2>1, <2>2, PeersCleared
    <2>5. \A a \in Dynamic : gen'[a] = None
      BY <1>a, <1>c, <2>1
    <2>6. /\ measured' \in [Dynamic -> Measurement]
          /\ EvidenceDescribesCurrentTopology'
          /\ \A a \in Dynamic : gen'[a] # None => measured'[a].epoch = epoch'
      BY <1>0, <2>1, <2>5, EvidenceDropped
    <2>7. gen' \in [Axis -> Gen \cup {None}]
      BY <1>0, <1>a, <1>c, <2>1 DEF TypeOK
    <2>8. TypeOK'
      BY <1>0, <2>1, <2>4, <2>6, <2>7 DEF TypeOK
    <2>9. HistoryIsTheWindow' /\ SpentInThePast'
      BY <2>1 DEF HistoryIsTheWindow, SpentInThePast
    <2>10. QED
      BY <2>4, <2>6, <2>8, <2>9 DEF NothingDynamicSurvivesBoot
  <1>3. CASE RestoreMissing
    <2>1. /\ phase = "booting" /\ phase' = "serving"
          /\ UNCHANGED <<epoch, evidenceVars, now, durable, crashes>>
          /\ UNCHANGED <<peers, highest, spent>>
      BY <1>3 DEF RestoreMissing, peerVars
    <2>2. /\ gen' \in [Axis -> Gen \cup {None}]
          /\ hist' \in [Axis -> Seq(Gen)]
          /\ \A a \in Axis : Len(hist'[a]) <= HistoryCap
          /\ since' \in [Axis -> [Gen -> 0..HistoryCap]]
          /\ measured' \in [Dynamic -> Measurement]
          /\ EvidenceDescribesCurrentTopology'
          /\ HistoryIsTheWindow'
          /\ \A a \in Dynamic : gen'[a] # None => measured'[a].epoch = epoch'
      BY <2>1, EvidenceUntouched
    <2>3. TypeOK'
      BY <1>0, <2>1, <2>2 DEF TypeOK
    <2>4. /\ RecordHoldsHighestIncarnation'
          /\ SpentIncarnationStaysSpent' /\ BootingHasNoPeers' /\ SpentInThePast'
      BY <2>1 DEF RecordHoldsHighestIncarnation, SpentIncarnationStaysSpent,
                  BootingHasNoPeers, SpentInThePast
    <2>5. QED
      BY <2>1, <2>2, <2>3, <2>4 DEF NothingDynamicSurvivesBoot
  <1>4. ASSUME NEW g \in PolicyGen, InstallPolicy(g) PROVE IInv'
    <2>1. /\ Acceptable("policy", g) /\ Replace("policy", g)
          /\ gen' = [gen EXCEPT !["policy"] = g]
          /\ UNCHANGED <<measured, now, durable, crashes>>
          /\ UNCHANGED <<peerVars, epoch, phase>>
      BY <1>4 DEF InstallPolicy
    <2>2. /\ hist' \in [Axis -> Seq(Gen)]
          /\ \A b \in Axis : Len(hist'[b]) <= HistoryCap
          /\ since' \in [Axis -> [Gen -> 0..HistoryCap]]
          /\ HistoryIsTheWindow'
      BY <1>0, <1>a, <1>b, <2>1, ReplaceKeepsHistories
    <2>3. /\ gen' \in [Axis -> Gen \cup {None}]
          /\ \A a \in Dynamic \cup {"topology"} : gen'[a] = gen[a]
      BY <1>0, <1>b, <2>1 DEF TypeOK, Dynamic, Described, Axis
    <2>4. /\ EvidenceDescribesCurrentTopology'
          /\ \A a \in Dynamic : gen'[a] # None => measured'[a].epoch = epoch'
      BY <2>1, <2>3 DEF EvidenceDescribesCurrentTopology, NothingDynamicSurvivesBoot
    <2>5. QED
      BY <1>0, <2>1, <2>2, <2>3, <2>4, PeersUntouched DEF TypeOK, NothingDynamicSurvivesBoot
  <1>5. ASSUME NEW g \in TopologyGen, InstallTopology(g) PROVE IInv'
    <2>1. /\ Acceptable("topology", g) /\ Replace("topology", g)
          /\ gen' = [WithoutEvidence EXCEPT !["topology"] = g]
          /\ measured' = [a \in Dynamic |-> NoMeasurement]
          /\ UNCHANGED <<now, durable, crashes>>
          /\ UNCHANGED <<peerVars, epoch, phase>>
      BY <1>5 DEF InstallTopology
    <2>2. /\ hist' \in [Axis -> Seq(Gen)]
          /\ \A b \in Axis : Len(hist'[b]) <= HistoryCap
          /\ since' \in [Axis -> [Gen -> 0..HistoryCap]]
          /\ HistoryIsTheWindow'
      BY <1>0, <1>a, <1>b, <2>1, ReplaceKeepsHistories
    <2>3. /\ gen' \in [Axis -> Gen \cup {None}]
          /\ \A a \in Dynamic : gen'[a] = None
      BY <1>a, <1>b, <1>c, <2>1
    <2>4. /\ measured' \in [Dynamic -> Measurement]
          /\ EvidenceDescribesCurrentTopology'
          /\ \A a \in Dynamic : gen'[a] # None => measured'[a].epoch = epoch'
      BY <1>0, <2>1, <2>3, EvidenceDropped
    <2>5. QED
      BY <1>0, <2>1, <2>2, <2>3, <2>4, PeersUntouched DEF TypeOK, NothingDynamicSurvivesBoot
  <1>6. ASSUME NEW a \in Dynamic, NEW g \in EvidenceGen, NEW t \in TopologyGen,
               InstallEvidence(a, g, t)
        PROVE  IInv'
    <2>1. /\ Acceptable(a, g) /\ Replace(a, g)
          /\ gen["topology"] # None /\ t = gen["topology"]
          /\ gen' = [gen EXCEPT ![a] = g]
          /\ measured' = [measured EXCEPT ![a] = [topology |-> t, epoch |-> epoch]]
          /\ UNCHANGED <<now, durable, crashes>>
          /\ UNCHANGED <<peerVars, epoch, phase>>
      BY <1>6 DEF InstallEvidence
    <2>2. /\ hist' \in [Axis -> Seq(Gen)]
          /\ \A b \in Axis : Len(hist'[b]) <= HistoryCap
          /\ since' \in [Axis -> [Gen -> 0..HistoryCap]]
          /\ HistoryIsTheWindow'
      BY <1>0, <1>a, <1>b, <2>1, ReplaceKeepsHistories
    <2>3. /\ gen' \in [Axis -> Gen \cup {None}]
          /\ \A b \in Axis : gen'[b] = IF b = a THEN g ELSE gen[b]
      BY <1>0, <1>a, <1>b, <2>1 DEF TypeOK
    <2>4. a # "topology"
      BY <1>a
    <2>5. /\ measured' \in [Dynamic -> Measurement]
          /\ \A b \in Dynamic : measured'[b] = IF b = a THEN [topology |-> t, epoch |-> epoch]
                                              ELSE measured[b]
      BY <1>0, <2>1 DEF TypeOK, Measurement
    <2>6. /\ EvidenceDescribesCurrentTopology'
          /\ \A b \in Dynamic : gen'[b] # None => measured'[b].epoch = epoch'
      BY <1>a, <2>1, <2>3, <2>4, <2>5 DEF EvidenceDescribesCurrentTopology, NothingDynamicSurvivesBoot
    <2>7. QED
      BY <1>0, <2>1, <2>2, <2>3, <2>5, <2>6, PeersUntouched DEF TypeOK, NothingDynamicSurvivesBoot
  <1>7. ASSUME NEW p \in Participant, NEW i \in Incarnation, NEW st \in PublishState,
               NEW s \in Session, PublishLiveness(p, i, st, s)
        PROVE  IInv'
    <2> DEFINE r == [inc |-> i, state |-> st, session |-> s, epoch |-> epoch,
                     expires |-> IF st = "live" THEN now + Ttl ELSE now]
    <2>1. /\ phase \in {"serving", "stopped"}
          /\ (i = highest[p] /\ Refreshable(p)) \/ IsNewer(p, i)
          /\ highest' = NewHighest(p, i)
          /\ peers' = [peers EXCEPT ![p] = r]
          /\ spent' = spent \cup SpentIn(peers')
          /\ UNCHANGED <<evidenceVars, epoch>>
          /\ UNCHANGED <<epoch, phase>>
          /\ UNCHANGED <<now, durable, crashes>>
      BY <1>7 DEF PublishLiveness
    <2>2. r \in Peer /\ r.inc = i /\ r.epoch = epoch /\ r.state # "absent"
      BY <1>0, ConstantsAssumption DEF TypeOK, Peer, PeerState, PublishState, SpentState
    <2> HIDE DEF r
    <2>3. QED
      BY <1>0, <2>1, <2>2, PeerWritten, EvidenceUntouched DEF TypeOK, NothingDynamicSurvivesBoot
  <1>8. ASSUME NEW p \in Participant, NEW i \in Incarnation, Heartbeat(p, i) PROVE IInv'
    <2> DEFINE r == [inc |-> i, state |-> "live", expires |-> now + Ttl, epoch |-> epoch,
                     session |-> IF peers[p].inc = i THEN peers[p].session ELSE None]
    <2>1. /\ phase \in {"serving", "stopped"}
          /\ (i = highest[p] /\ Refreshable(p)) \/ IsNewer(p, i)
          /\ highest' = NewHighest(p, i)
          /\ peers' = [peers EXCEPT ![p] = r]
          /\ spent' = spent \cup SpentIn(peers')
          /\ UNCHANGED <<evidenceVars, epoch>>
          /\ UNCHANGED <<epoch, phase>>
          /\ UNCHANGED <<now, durable, crashes>>
      BY <1>8 DEF Heartbeat
    <2>2. /\ r \in Peer /\ r.inc = i /\ r.epoch = epoch
          /\ r.state = "live" /\ r.state # "absent"
      BY <1>0, ConstantsAssumption DEF TypeOK, Peer, PeerState, PublishState, SpentState
    <2> HIDE DEF r
    <2>3. QED
      BY <1>0, <2>1, <2>2, PeerWritten, EvidenceUntouched DEF TypeOK, NothingDynamicSurvivesBoot
  <1>9. ASSUME NEW s \in Session, ExpireSession(s) PROVE IInv'
    <2> DEFINE F == Bound({s})
    <2>1. /\ phase \in {"serving", "stopped"}
          /\ peers' = [p \in Participant |-> IF p \in F THEN Fence(peers[p]) ELSE peers[p]]
          /\ spent' = spent \cup SpentIn(peers')
          /\ UNCHANGED <<evidenceVars, epoch>> /\ UNCHANGED <<epoch, highest>>
          /\ UNCHANGED <<phase, now, durable, crashes>>
      BY <1>9 DEF ExpireSession
    <2>2. F \in SUBSET Participant /\ \A p \in F : peers[p].state # "absent"
      BY DEF Bound, Recorded
    <2> HIDE DEF F
    <2>3. QED
      BY <1>0, <2>1, <2>2, PeersFenced, EvidenceUntouched DEF TypeOK, NothingDynamicSurvivesBoot
  <1>10. CASE ExpireDue
    <2> DEFINE F == {p \in Participant : peers[p].state = "live" /\ now >= peers[p].expires}
    <2>1. /\ phase \in {"serving", "stopped"}
          /\ peers' = [p \in Participant |-> IF p \in F THEN Fence(peers[p]) ELSE peers[p]]
          /\ spent' = spent \cup SpentIn(peers')
          /\ UNCHANGED <<evidenceVars, epoch>> /\ UNCHANGED <<epoch, highest>>
          /\ UNCHANGED <<phase, now, durable, crashes>>
      BY <1>10 DEF ExpireDue
    <2>2. F \in SUBSET Participant /\ \A p \in F : peers[p].state # "absent"
      OBVIOUS
    <2> HIDE DEF F
    <2>3. QED
      BY <1>0, <2>1, <2>2, PeersFenced, EvidenceUntouched DEF TypeOK, NothingDynamicSurvivesBoot
  <1>11. ASSUME NEW S \in SUBSET Session, StopService(S) PROVE IInv'
    <2> DEFINE F == Bound(S)
    <2>1. /\ phase \in {"serving", "stopped"} /\ phase' = "stopped"
          /\ phase' \in {"serving", "stopped"}
          /\ gen' = WithoutEvidence /\ measured' = [a \in Dynamic |-> NoMeasurement]
          /\ peers' = [p \in Participant |-> IF p \in F THEN Fence(peers[p]) ELSE peers[p]]
          /\ spent' = spent \cup SpentIn(peers')
          /\ UNCHANGED <<epoch, highest>>
          /\ UNCHANGED <<hist, since, now, durable, crashes>>
      BY <1>11 DEF StopService
    <2>2. F \in SUBSET Participant /\ \A p \in F : peers[p].state # "absent"
      BY DEF Bound, Recorded
    <2> HIDE DEF F
    <2>3. \A a \in Dynamic : gen'[a] = None
      BY <1>a, <1>c, <2>1
    <2>4. /\ measured' \in [Dynamic -> Measurement]
          /\ EvidenceDescribesCurrentTopology'
          /\ \A a \in Dynamic : gen'[a] # None => measured'[a].epoch = epoch'
      BY <1>0, <2>1, <2>3, EvidenceDropped
    <2>5. HistoryIsTheWindow'
      BY <2>1 DEF HistoryIsTheWindow
    <2>6. QED
      BY <1>0, <1>c, <2>1, <2>2, <2>4, <2>5, PeersFenced DEF TypeOK, NothingDynamicSurvivesBoot
  <1>12. CASE SaveDurable
    <2>1. /\ durable' = [a \in Described |-> gen[a]]
          /\ UNCHANGED <<evidenceVars, epoch>> /\ UNCHANGED <<peerVars, epoch, phase>>
          /\ UNCHANGED <<now, crashes>>
      BY <1>12 DEF SaveDurable
    <2>2. durable' \in [Described -> Gen \cup {None}]
      BY <1>0, <1>a, <2>1 DEF TypeOK
    <2>3. QED
      BY <1>0, <2>1, <2>2, EvidenceUntouched, PeersUntouched DEF TypeOK, NothingDynamicSurvivesBoot
  <1>13. CASE ProcessDeath
    <2>1. /\ phase' = "down" /\ crashes' = crashes + 1
          /\ gen' = [a \in Axis |-> None] /\ hist' = [a \in Axis |-> <<>>]
          /\ since' = [a \in Axis |-> NeverInstalled]
          /\ measured' = [a \in Dynamic |-> NoMeasurement]
          /\ peers' = NoLiveness /\ highest' = [p \in Participant |-> 0]
          /\ UNCHANGED <<epoch, now, durable, spent>>
      BY <1>13 DEF ProcessDeath
    <2>2. /\ peers' \in [Participant -> Peer]
          /\ highest' \in [Participant -> Nat]
          /\ RecordHoldsHighestIncarnation'
          /\ SpentIncarnationStaysSpent'
          /\ BootingHasNoPeers'
          /\ \A p \in Participant : peers'[p].state # "absent" => peers'[p].epoch = epoch'
      BY <1>0, <2>1, PeersCleared
    <2>3. \A a \in Dynamic : gen'[a] = None
      BY <1>a, <2>1
    <2>4. /\ measured' \in [Dynamic -> Measurement]
          /\ EvidenceDescribesCurrentTopology'
          /\ \A a \in Dynamic : gen'[a] # None => measured'[a].epoch = epoch'
      BY <1>0, <2>1, <2>3, EvidenceDropped
    <2>5. /\ hist' \in [Axis -> Seq(Gen)]
          /\ \A a \in Axis : hist'[a] = <<>> /\ Len(hist'[a]) = 0
          /\ since' \in [Axis -> [Gen -> 0..HistoryCap]]
      BY <2>1, ConstantsAssumption DEF NeverInstalled
    <2>6. \A a \in Axis : Len(hist'[a]) <= HistoryCap
      BY <2>5, ConstantsAssumption
    <2>7. HistoryIsTheWindow'
      BY <2>1, <2>5, ConstantsAssumption DEF HistoryIsTheWindow, IsWindow, NeverInstalled
    <2>8. TypeOK'
      BY <1>0, <2>1, <2>2, <2>4, <2>5, <2>6 DEF TypeOK
    <2>9. SpentInThePast'
      BY <2>1 DEF SpentInThePast
    <2>10. QED
      BY <2>2, <2>4, <2>7, <2>8, <2>9 DEF NothingDynamicSurvivesBoot
  <1>14. CASE Tick
    <2>1. /\ now' = now + 1
          /\ UNCHANGED <<evidenceVars, epoch>> /\ UNCHANGED <<peerVars, epoch, phase>>
          /\ UNCHANGED <<durable, crashes>>
      BY <1>14 DEF Tick
    <2>2. QED
      BY <1>0, <2>1, EvidenceUntouched, PeersUntouched DEF TypeOK, NothingDynamicSurvivesBoot
  <1>15. CASE UNCHANGED vars
    <2>1. /\ UNCHANGED <<evidenceVars, epoch>> /\ UNCHANGED <<peerVars, epoch, phase>>
          /\ UNCHANGED <<now, durable, crashes>>
      BY <1>15 DEF vars
    <2>2. QED
      BY <1>0, <2>1, EvidenceUntouched, PeersUntouched DEF TypeOK, NothingDynamicSurvivesBoot
  <1>16. QED
    BY <1>1, <1>2, <1>3, <1>4, <1>5, <1>6, <1>7, <1>8, <1>9, <1>10, <1>11, <1>12,
       <1>13, <1>14, <1>15 DEF Next

-----------------------------------------------------------------------------
\* The inductive invariant holds throughout.
LEMMA AlwaysIInv == Spec => []IInv
  BY InitIInv, NextIInv, PTL DEF Spec

\* Type correctness of AuthorityState, for every instance.
THEOREM AuthorityTypeOK == Spec => []TypeOK
  <1>1. IInv => TypeOK
    BY DEF IInv
  <1>2. QED
    BY <1>1, AlwaysIInv, PTL

\* Capacity and congestion evidence in force always describes the topology in
\* force (install_topology, install_capacity, install_congestion,
\* restore_durable).
THEOREM EvidenceIsAboutCurrentTopology == Spec => []EvidenceDescribesCurrentTopology
  <1>1. IInv => EvidenceDescribesCurrentTopology
    BY DEF IInv
  <1>2. QED
    BY <1>1, AlwaysIInv, PTL

\* No liveness record and no observation outlives the epoch it was accepted
\* under (begin_boot, restore_durable).
THEOREM BootDropsDynamicState == Spec => []NothingDynamicSurvivesBoot
  <1>1. IInv => NothingDynamicSurvivesBoot
    BY DEF IInv
  <1>2. QED
    BY <1>1, AlwaysIInv, PTL

\* An install that a method accepts is of a generation outside the window.
LEMMA InstallIsOutsideWindow ==
    ASSUME IInv, NEW a \in Axis, NEW g \in Gen, Acceptable(a, g)
    PROVE  since[a][g] = HistoryCap
  <1>1. since[a][g] \in 0..HistoryCap /\ HistoryCap \in Nat
    BY ConstantsAssumption DEF IInv, TypeOK
  <1>2. ~(since[a][g] < HistoryCap)
    BY DEF IInv, HistoryIsTheWindow, IsWindow, Acceptable
  <1>3. QED
    BY <1>1, <1>2

\* While the service runs, only an accepted install puts a generation in force.
LEMMA OnlyInstallsReplace ==
    ASSUME IInv, Next, phase = "serving",
           NEW a \in Axis, NEW g \in Gen, gen[a] # g, gen'[a] = g
    PROVE  Acceptable(a, g)
  <1>1. /\ gen \in [Axis -> Gen \cup {None}] /\ g # None
        /\ PolicyGen \subseteq Gen /\ TopologyGen \subseteq Gen /\ EvidenceGen \subseteq Gen
    BY ConstantsAssumption DEF IInv, TypeOK, Gen
  <1>2. /\ WithoutEvidence \in [Axis -> Gen \cup {None}]
        /\ \A b \in Axis : WithoutEvidence[b] \in {None, gen[b]}
    BY <1>1 DEF WithoutEvidence
  <1>3. ASSUME NEW h \in PolicyGen, InstallPolicy(h) PROVE Acceptable(a, g)
    <2>1. gen' = [gen EXCEPT !["policy"] = h] /\ Acceptable("policy", h)
      BY <1>3 DEF InstallPolicy
    <2>2. QED
      BY <1>1, <2>1
  <1>4. ASSUME NEW h \in TopologyGen, InstallTopology(h) PROVE Acceptable(a, g)
    <2>1. gen' = [WithoutEvidence EXCEPT !["topology"] = h] /\ Acceptable("topology", h)
      BY <1>4 DEF InstallTopology
    <2>2. QED
      BY <1>1, <1>2, <2>1
  <1>5. ASSUME NEW d \in Dynamic, NEW h \in EvidenceGen, NEW t \in TopologyGen,
               InstallEvidence(d, h, t)
        PROVE  Acceptable(a, g)
    <2>1. gen' = [gen EXCEPT ![d] = h] /\ Acceptable(d, h)
      BY <1>5 DEF InstallEvidence
    <2>2. QED
      BY <1>1, <2>1
  <1>6. ASSUME NEW S \in SUBSET Session, StopService(S) PROVE FALSE
    BY <1>1, <1>2, <1>6 DEF StopService
  <1>7. ~ProcessDeath
    BY <1>1 DEF ProcessDeath
  <1>8. ~BeginBoot /\ ~RestoreDurable /\ ~RestoreMissing
    BY DEF BeginBoot, RestoreDurable, RestoreMissing
  <1>9. ~UNCHANGED gen
    OBVIOUS
  <1>10. QED
    BY <1>3, <1>4, <1>5, <1>6, <1>7, <1>8, <1>9
       DEF Next, evidenceVars, PublishLiveness, Heartbeat, ExpireSession, ExpireDue,
           SaveDurable, Tick

\* A generation this process installed is installed again only after HistoryCap
\* other installs of its axis, for every capacity (GenerationHistory,
\* install_policy, install_topology, install_capacity, install_congestion).  It
\* rests on HistoryIsTheWindow: the bounded history, which restores and boots
\* leave alone and evictions shorten, is exactly the last installs of the process.
THEOREM ReplayWindow == Spec => NoReplayWithinWindow
  <1>1. IInv /\ [Next]_vars =>
          [\A a \in Axis, g \in Gen :
             phase = "serving" /\ gen[a] # g /\ gen'[a] = g => since[a][g] = HistoryCap]_vars
    BY InstallIsOutsideWindow, OnlyInstallsReplace
  <1>2. QED
    BY <1>1, AlwaysIInv, PTL DEF Spec, NoReplayWithinWindow

\* A fenced, expired or retired incarnation never holds authority again under
\* the same epoch (publish_liveness, heartbeat, expire_session, expire_due).
THEOREM FencingIsFinalWithinAnEpoch == Spec => []SpentIncarnationStaysSpent
  <1>1. IInv => SpentIncarnationStaysSpent
    BY DEF IInv
  <1>2. QED
    BY <1>1, AlwaysIInv, PTL

\* The record believed for a participant is that of its highest incarnation.
THEOREM HighestIncarnationIsBelieved == Spec => []RecordHoldsHighestIncarnation
  <1>1. IInv => RecordHoldsHighestIncarnation
    BY DEF IInv
  <1>2. QED
    BY <1>1, AlwaysIInv, PTL

\* One step of any method leaves the highest incarnations where they are or
\* raises them, unless it begins a boot or ends the process.
LEMMA StepKeepsHighest ==
    ASSUME IInv, Next, phase # "down", phase' # "down", epoch' = epoch,
           NEW p \in Participant
    PROVE  highest'[p] >= highest[p]
  <1>1. highest[p] \in Nat /\ highest \in [Participant -> Nat] /\ epoch \in Nat
    BY DEF IInv, TypeOK
  <1>2. CASE UNCHANGED highest
    BY <1>1, <1>2
  <1>3. ASSUME NEW q \in Participant, NEW i \in Incarnation,
               highest' = NewHighest(q, i), i = highest[q] \/ IsNewer(q, i)
        PROVE  highest'[p] >= highest[p]
    <2>1. i \in Nat
      BY ConstantsAssumption
    <2>2. QED
      BY <1>1, <1>3, <2>1 DEF NewHighest, IsNewer
  <1>4. CASE RestoreDurable
    <2>1. highest[p] = 0
      BY <1>4 DEF RestoreDurable, IInv, BootingHasNoPeers, RecordHoldsHighestIncarnation, NoPeer
    <2>2. highest'[p] = 0
      BY <1>4 DEF RestoreDurable
    <2>3. QED
      BY <2>1, <2>2
  <1>5. ~BeginBoot /\ ~ProcessDeath
    BY <1>1 DEF BeginBoot, ProcessDeath
  <1>6. QED
    BY <1>2, <1>3, <1>4, <1>5
       DEF Next, RestoreMissing, InstallPolicy, InstallTopology, InstallEvidence,
           PublishLiveness, Heartbeat, ExpireSession, ExpireDue, StopService,
           SaveDurable, Tick, peerVars

\* The highest incarnation of a participant never regresses while the epoch and
\* the process last (publish_liveness, heartbeat).
THEOREM IncarnationsOnlyAdvance == Spec => IncarnationNeverRegresses
  <1>1. IInv /\ [Next]_vars =>
          [phase # "down" /\ phase' # "down" /\ epoch' = epoch
             => \A p \in Participant : highest'[p] >= highest[p]]_vars
    BY StepKeepsHighest
  <1>2. QED
    BY <1>1, AlwaysIInv, PTL DEF Spec, IncarnationNeverRegresses

(***************************************************************************)
(* Sessions: the session table and the connections that drive Authority.   *)
(***************************************************************************)
\* Types of the session layer and its bound.
LayerTypeOK ==
    /\ table \in [Session -> Binding]
    /\ conn \in [Conn -> ConnState]
    /\ served \in [Session -> Seq(Nat)]
    /\ IsFiniteSet(Open) /\ Cardinality(Open) <= SessionsMax

\* The sessions and the boot: only a boot that serves has open ones, they carry
\* its epoch, and an identity that was never minted is blank.
TableOfThisBoot ==
    /\ phase # "down" => epoch >= 1
    /\ phase # "serving" => Open = {}
    /\ \A s \in Session : table[s].epoch = 0 => ~table[s].open /\ table[s].seq = 0

\* A connection that is served has a session of this boot, of its own, and an
\* open one while the service runs; no thread outlives a boot.
ConnectionsOfThisBoot ==
    /\ phase \in {"down", "booting"} => \A c \in Conn : conn[c].at = "closed"
    /\ \A c \in Conn :
          /\ conn[c].at \in {"closed", "rejected"} <=> conn[c].session = None
          /\ conn[c].session # None =>
                /\ table[conn[c].session].epoch = epoch
                /\ phase = "serving" => conn[c].session \in Open
    /\ \A c, d \in Conn : c # d /\ conn[c].session = conn[d].session => conn[c].session = None

\* What a session has served lies behind its frame counter, and before the frame
\* its connection is about to serve.
ServedBehindCounter ==
    /\ \A s \in Session : \A k \in 1 .. Len(served[s]) : served[s][k] <= table[s].seq
    /\ \A c \in Conn : conn[c].at = "busy" =>
          /\ conn[c].frame <= table[conn[c].session].seq
          /\ \A k \in 1 .. Len(served[conn[c].session]) :
                served[conn[c].session][k] < conn[c].frame

\* The inductive invariant of the session layer; IInv is that of Authority.
SInv ==
    /\ LayerTypeOK
    /\ TableOfThisBoot
    /\ ConnectionsOfThisBoot
    /\ ServedBehindCounter
    /\ FramesServedInOrder
    /\ SessionsOfThisBoot
    /\ LiveMeansSessionOpen

-----------------------------------------------------------------------------
(* Connections: what an update of one of them leaves.                      *)

\* A connection moves to another place and keeps its session and frame.
LEMMA ConnMoves ==
    ASSUME LayerTypeOK, NEW c \in Conn,
           NEW place \in {"closed", "hello", "ready", "busy", "rejected"},
           conn' = At(c, place)
    PROVE  /\ conn' \in [Conn -> ConnState]
           /\ conn'[c].at = place /\ conn'[c].session = conn[c].session
           /\ conn'[c].frame = conn[c].frame
           /\ \A d \in Conn \ {c} : conn'[d] = conn[d]
  <1>1. conn \in [Conn -> ConnState] /\ conn[c] \in ConnState
    BY DEF LayerTypeOK
  <1>2. PICK r : r = [conn[c] EXCEPT !.at = place]
    OBVIOUS
  <1>3. /\ r \in ConnState /\ r.at = place /\ r.session = conn[c].session
        /\ r.frame = conn[c].frame
    BY <1>1, <1>2 DEF ConnState
  <1>4. conn' = [conn EXCEPT ![c] = r]
    BY <1>2 DEF At
  <1>5. QED
    BY <1>1, <1>3, <1>4

\* A connection is replaced.
LEMMA ConnReplaced ==
    ASSUME LayerTypeOK, NEW c \in Conn, NEW r \in ConnState, conn' = [conn EXCEPT ![c] = r]
    PROVE  /\ conn' \in [Conn -> ConnState]
           /\ conn'[c] = r
           /\ \A d \in Conn \ {c} : conn'[d] = conn[d]
  BY DEF LayerTypeOK

\* The blank connection and the two that on_open makes of it.
LEMMA ConnRecords ==
    /\ Closed \in ConnState /\ Closed.at = "closed" /\ Closed.session = None
    /\ \A s \in Session :
          LET r == [Closed EXCEPT !.at = "hello", !.session = s]
          IN  r \in ConnState /\ r.at = "hello" /\ r.session = s
    /\ LET r == [Closed EXCEPT !.at = "rejected", !.shut = TRUE]
       IN  r \in ConnState /\ r.at = "rejected" /\ r.session = None
  BY DEF Closed, ConnState

\* The session of a connection that is served is a session.
LEMMA ConnSession ==
    ASSUME LayerTypeOK, NEW c \in Conn, conn[c].session # None
    PROVE  conn[c].session \in Session
  BY DEF LayerTypeOK, ConnState

\* No session is unset.
LEMMA NoneIsNoSession == None \notin Session
  BY ConstantsAssumption

-----------------------------------------------------------------------------
(* Authority's invariant holds through the session layer.                  *)

\* The close of sessions fences what is bound to them, as expire_session does.
LEMMA CloseKeepsAuthority ==
    ASSUME IInv, phase \in {"serving", "stopped"}, NEW S \in SUBSET Session, CloseSessions(S)
    PROVE  IInv'
  <1>1. /\ peers' = [p \in Participant |-> IF p \in Bound(S) THEN Fence(peers[p]) ELSE peers[p]]
        /\ spent' = spent \cup SpentIn(peers')
        /\ UNCHANGED <<phase, epoch, evidenceVars, highest, now, durable, crashes>>
    BY DEF CloseSessions
  <1>2. Bound(S) \in SUBSET Participant /\ \A p \in Bound(S) : peers[p].state # "absent"
    BY DEF Bound, Recorded
  <1>3. /\ gen' \in [Axis -> Gen \cup {None}]
        /\ hist' \in [Axis -> Seq(Gen)]
        /\ \A a \in Axis : Len(hist'[a]) <= HistoryCap
        /\ since' \in [Axis -> [Gen -> 0..HistoryCap]]
        /\ measured' \in [Dynamic -> Measurement]
        /\ EvidenceDescribesCurrentTopology'
        /\ HistoryIsTheWindow'
        /\ \A a \in Dynamic : gen'[a] # None => measured'[a].epoch = epoch'
    BY <1>1, EvidenceUntouched
  <1>4. /\ peers' \in [Participant -> Peer]
        /\ highest' \in [Participant -> Nat]
        /\ spent' \in SUBSET (Nat \X Participant \X Nat)
        /\ RecordHoldsHighestIncarnation'
        /\ SpentIncarnationStaysSpent'
        /\ BootingHasNoPeers'
        /\ SpentInThePast'
        /\ \A p \in Participant : peers'[p].state # "absent" => peers'[p].epoch = epoch'
    BY <1>1, <1>2, PeersFenced
  <1>5. QED
    BY <1>1, <1>3, <1>4 DEF IInv, TypeOK, NothingDynamicSurvivesBoot

\* Every step of the session layer preserves Authority's inductive invariant.
LEMMA AuthorityKept == IInv /\ SInv /\ [SNext]_allVars => IInv'
  <1> SUFFICES ASSUME IInv, SInv, [SNext]_allVars PROVE IInv'
    OBVIOUS
  <1>1. LayerTypeOK /\ ConnectionsOfThisBoot
    BY DEF SInv
  <1>2. CASE Start
    BY <1>2, NextIInv DEF Start, Next
  <1>3. CASE Restore
    BY <1>3, NextIInv DEF Restore, Next
  <1>4. CASE Stop
    <2>1. Open \in SUBSET Session
      BY DEF Open
    <2>2. Next
      BY <1>4, <2>1 DEF Stop, Next
    <2>3. QED
      BY <2>2, NextIInv
  <1>5. CASE Death
    BY <1>5, NextIInv DEF Death, Next
  <1>6. CASE Clock
    BY <1>6, NextIInv DEF Clock, Next
  <1>7. ASSUME NEW c \in Conn, OnClose(c)
        PROVE  IInv'
    <2>1. conn[c].at # "closed" /\ CloseSessions({conn[c].session} \cap Open)
      BY <1>7 DEF OnClose
    <2>2. phase \in {"serving", "stopped"}
      BY <1>1, <2>1 DEF ConnectionsOfThisBoot, IInv, TypeOK
    <2>3. {conn[c].session} \cap Open \in SUBSET Session
      BY DEF Open
    <2>4. QED
      BY <2>1, <2>2, <2>3, CloseKeepsAuthority
  <1>8. ASSUME NEW c \in Conn, NEW p \in Participant, NEW i \in Incarnation,
               NEW st \in PublishState, ServePublish(c, p, i, st)
        PROVE  IInv'
    <2>1. conn[c].at = "busy" /\ PublishLiveness(p, i, st, conn[c].session)
      BY <1>8 DEF ServePublish, FrameServed
    <2>2. conn[c].session \in Session
      BY <1>1, <2>1, ConnSession DEF ConnectionsOfThisBoot
    <2>3. Next
      BY <2>1, <2>2 DEF Next
    <2>4. QED
      BY <2>3, NextIInv
  <1>9. CASE UNCHANGED vars
    BY <1>9, NextIInv
  <1>10. QED
    BY <1>2, <1>3, <1>4, <1>5, <1>6, <1>7, <1>8, <1>9
       DEF SNext, allVars, OpenSession, RejectConnection, Hello, FatalFrame,
           ValidateEnvelope, ServeOther

-----------------------------------------------------------------------------
(* The session table.                                                      *)

\* Erasing a session keeps the epoch it was opened in and its frame counter.
LEMMA ErasedBinding ==
    ASSUME NEW b \in Binding
    PROVE  LET q == [b EXCEPT !.open = FALSE]
           IN  q \in Binding /\ q.open = FALSE /\ q.epoch = b.epoch /\ q.seq = b.seq
  BY DEF Binding

\* What erasing the sessions in S leaves of the table.
LEMMA TableErased ==
    ASSUME LayerTypeOK, NEW S,
           table' = [s \in Session |->
                       IF s \in S THEN [table[s] EXCEPT !.open = FALSE] ELSE table[s]]
    PROVE  /\ table' \in [Session -> Binding]
           /\ Open' = Open \ S
           /\ IsFiniteSet(Open') /\ Cardinality(Open') <= SessionsMax
           /\ \A s \in Session : /\ table'[s].epoch = table[s].epoch
                                 /\ table'[s].seq = table[s].seq
                                 /\ table'[s].open <=> table[s].open /\ s \notin S
  <1>1. ASSUME NEW s \in Session
        PROVE  /\ table'[s] \in Binding
               /\ table'[s].epoch = table[s].epoch /\ table'[s].seq = table[s].seq
               /\ table'[s].open <=> table[s].open /\ s \notin S
    <2>1. table[s] \in Binding
      BY DEF LayerTypeOK
    <2>2. CASE s \in S
      <3>1. table'[s] = [table[s] EXCEPT !.open = FALSE]
        BY <2>2
      <3>2. QED
        BY <2>1, <2>2, <3>1, ErasedBinding
    <2>3. CASE s \notin S
      <3>1. table'[s] = table[s]
        BY <2>3
      <3>2. QED
        BY <2>1, <2>3, <3>1
    <2>4. QED
      BY <2>2, <2>3
  <1>2. table' \in [Session -> Binding]
    BY <1>1
  <1>3. Open' = Open \ S
    BY <1>1 DEF Open
  <1>4. IsFiniteSet(Open') /\ Cardinality(Open') <= SessionsMax
    <2>1. IsFiniteSet(Open) /\ Cardinality(Open) <= SessionsMax
      BY DEF LayerTypeOK
    <2>2. Open' \subseteq Open
      BY <1>3
    <2>3. /\ IsFiniteSet(Open') /\ Cardinality(Open') <= Cardinality(Open)
          /\ Cardinality(Open) \in Nat /\ Cardinality(Open') \in Nat
      BY <2>1, <2>2, FS_Subset, FS_CardinalityType
    <2>4. QED
      BY <2>1, <2>3, SessionsAssumption
  <1>5. QED
    BY <1>1, <1>2, <1>3, <1>4

\* What erasing all of them leaves.
LEMMA AllErased ==
    ASSUME SInv, conn' \in [Conn -> ConnState], served' = served,
           table' = [s \in Session |-> [table[s] EXCEPT !.open = FALSE]]
    PROVE  /\ LayerTypeOK' /\ Open' = {}
           /\ \A s \in Session : /\ table'[s].epoch = table[s].epoch
                                 /\ table'[s].seq = table[s].seq
  <1>1. ASSUME NEW s \in Session
        PROVE  /\ table'[s] \in Binding /\ table'[s].open = FALSE
               /\ table'[s].epoch = table[s].epoch /\ table'[s].seq = table[s].seq
    <2>1. table[s] \in Binding
      BY DEF SInv, LayerTypeOK
    <2>2. table'[s] = [table[s] EXCEPT !.open = FALSE]
      OBVIOUS
    <2>3. QED
      BY <2>1, <2>2, ErasedBinding
  <1>2. table' \in [Session -> Binding]
    BY <1>1
  <1>3. Open' = {}
    BY <1>1 DEF Open
  <1>4. IsFiniteSet(Open') /\ Cardinality(Open') <= SessionsMax
    BY <1>3, FS_EmptySet, SessionsAssumption
  <1>5. LayerTypeOK'
    BY <1>2, <1>4 DEF SInv, LayerTypeOK
  <1>6. QED
    BY <1>1, <1>3, <1>5

-----------------------------------------------------------------------------
(* Parts of the invariant that a step leaves alone.                        *)

\* Nothing is served and no counter moves.
LEMMA FramesUntouched ==
    ASSUME SInv, served' = served,
           \A s \in Session : table'[s].seq = table[s].seq,
           \A c \in Conn : conn'[c].at = "busy" =>
              /\ conn[c].at = "busy" /\ conn'[c].session = conn[c].session
              /\ conn'[c].frame = conn[c].frame
    PROVE  ServedBehindCounter' /\ FramesServedInOrder'
  <1>1. FramesServedInOrder'
    BY DEF SInv, FramesServedInOrder
  <1>2. \A c \in Conn : conn[c].at = "busy" => conn[c].session \in Session
    BY ConnSession DEF SInv, ConnectionsOfThisBoot
  <1>3. ServedBehindCounter'
    BY <1>2 DEF SInv, ServedBehindCounter
  <1>4. QED
    BY <1>1, <1>3

\* Only a connection changes, and not one that is busy before or after.
LEMMA ConnectionOnly ==
    ASSUME SInv, UNCHANGED <<vars, table, served>>, conn' \in [Conn -> ConnState],
           ConnectionsOfThisBoot',
           \A c \in Conn : conn'[c].at = "busy" =>
              /\ conn[c].at = "busy" /\ conn'[c].session = conn[c].session
              /\ conn'[c].frame = conn[c].frame
    PROVE  SInv'
  <1>1. /\ phase' = phase /\ epoch' = epoch /\ peers' = peers
        /\ table' = table /\ served' = served
    BY DEF vars, peerVars
  <1>2. ServedBehindCounter' /\ FramesServedInOrder'
    BY <1>1, FramesUntouched
  <1>3. LayerTypeOK' /\ TableOfThisBoot'
    BY <1>1 DEF SInv, LayerTypeOK, TableOfThisBoot, Open
  <1>4. SessionsOfThisBoot' /\ LiveMeansSessionOpen'
    BY <1>1 DEF SInv, SessionsOfThisBoot, LiveMeansSessionOpen, Unspent, Open
  <1>5. QED
    BY <1>2, <1>3, <1>4 DEF SInv

\* An empty participant table says nothing about sessions.
LEMMA NoPeersNoClaims ==
    ASSUME \A p \in Participant : peers'[p] = NoPeer
    PROVE  SessionsOfThisBoot' /\ LiveMeansSessionOpen'
  <1>1. NoPeer.session = None /\ NoPeer.state = "absent"
    BY DEF NoPeer
  <1>2. QED
    BY <1>1 DEF SessionsOfThisBoot, LiveMeansSessionOpen, Unspent

-----------------------------------------------------------------------------
(* The actions of the session layer.                                       *)

\* A start finds no thread of the boot before it.
LEMMA StartPreserves ==
    ASSUME IInv, SInv, Start
    PROVE  SInv'
  <1>1. /\ phase \in {"down", "stopped"} /\ phase' = "booting" /\ epoch' = epoch + 1
        /\ peers' = NoLiveness /\ table' = table /\ conn' = conn /\ served' = served
        /\ \A c \in Conn : conn[c].at = "closed"
    BY DEF Start, BeginBoot, sessionVars, ThreadsJoined
  <1>2. \A p \in Participant : peers'[p] = NoPeer
    BY <1>1 DEF NoLiveness
  <1>3. epoch \in Nat
    BY DEF IInv, TypeOK
  <1>4. LayerTypeOK' /\ TableOfThisBoot'
    BY <1>1, <1>3 DEF SInv, LayerTypeOK, TableOfThisBoot, Open
  <1>5. ConnectionsOfThisBoot'
    BY <1>1 DEF SInv, ConnectionsOfThisBoot
  <1>6. ServedBehindCounter' /\ FramesServedInOrder'
    BY <1>1, FramesUntouched
  <1>7. QED
    BY <1>2, <1>4, <1>5, <1>6, NoPeersNoClaims DEF SInv

\* A restore ends a boot without peers and without connections.
LEMMA RestorePreserves ==
    ASSUME IInv, SInv, Restore
    PROVE  SInv'
  <1>1. /\ phase = "booting" /\ phase' = "serving" /\ epoch' = epoch
        /\ table' = table /\ conn' = conn /\ served' = served
        /\ peers' = NoLiveness \/ peers' = peers
    BY DEF Restore, RestoreDurable, RestoreMissing, sessionVars, peerVars
  <1>2. \A p \in Participant : peers'[p] = NoPeer
    BY <1>1 DEF NoLiveness, IInv, BootingHasNoPeers
  <1>3. LayerTypeOK' /\ TableOfThisBoot'
    BY <1>1 DEF SInv, LayerTypeOK, TableOfThisBoot, Open
  <1>4. ConnectionsOfThisBoot'
    BY <1>1 DEF SInv, ConnectionsOfThisBoot
  <1>5. ServedBehindCounter' /\ FramesServedInOrder'
    BY <1>1, FramesUntouched
  <1>6. QED
    BY <1>2, <1>3, <1>4, <1>5, NoPeersNoClaims DEF SInv

\* The clock.
LEMMA ClockPreserves ==
    ASSUME SInv, Clock
    PROVE  SInv'
  <1>1. /\ phase' = phase /\ epoch' = epoch /\ peers' = peers
        /\ table' = table /\ served' = served /\ conn' = conn
    BY DEF Clock, Tick, sessionVars, peerVars
  <1>2. ServedBehindCounter' /\ FramesServedInOrder'
    BY <1>1, FramesUntouched
  <1>3. LayerTypeOK' /\ TableOfThisBoot' /\ ConnectionsOfThisBoot'
    BY <1>1 DEF SInv, LayerTypeOK, TableOfThisBoot, ConnectionsOfThisBoot, Open
  <1>4. SessionsOfThisBoot' /\ LiveMeansSessionOpen'
    BY <1>1 DEF SInv, SessionsOfThisBoot, LiveMeansSessionOpen, Unspent, Open
  <1>5. QED
    BY <1>2, <1>3, <1>4 DEF SInv

\* A session is minted that no connection and no record has (open_session).
LEMMA OpenSessionPreserves ==
    ASSUME IInv, SInv, NEW c \in Conn, NEW s \in Session, OpenSession(c, s)
    PROVE  SInv'
  <1> DEFINE r == [Closed EXCEPT !.at = "hello", !.session = s]
             b == [open |-> TRUE, epoch |-> epoch, seq |-> 0]
  <1>1. /\ phase = "serving" /\ conn[c].at = "closed" /\ Cardinality(Open) < SessionsMax
        /\ table[s].epoch = 0 /\ table' = [table EXCEPT ![s] = b]
        /\ conn' = [conn EXCEPT ![c] = r] /\ served' = served
        /\ phase' = phase /\ epoch' = epoch /\ peers' = peers
    BY DEF OpenSession, HasRoom, vars, peerVars
  <1>2. r \in ConnState /\ r.at = "hello" /\ r.session = s
    BY ConnRecords
  <1>3. epoch \in Nat /\ epoch >= 1
    BY <1>1 DEF IInv, TypeOK, SInv, TableOfThisBoot
  <1>4. b \in Binding /\ b.open /\ b.epoch = epoch /\ b.seq = 0
    BY <1>3 DEF Binding
  <1> HIDE DEF r, b
  <1>5. LayerTypeOK
    BY DEF SInv
  <1>6. /\ conn' \in [Conn -> ConnState] /\ conn'[c] = r
        /\ \A d \in Conn \ {c} : conn'[d] = conn[d]
    BY <1>1, <1>2, <1>5, ConnReplaced
  <1>7. /\ table' \in [Session -> Binding] /\ table'[s] = b
        /\ \A t \in Session \ {s} : table'[t] = table[t]
    BY <1>1, <1>4, <1>5 DEF LayerTypeOK
  <1>8. ~table[s].open /\ table[s].seq = 0
    BY <1>1 DEF SInv, TableOfThisBoot
  <1>9. Open' = Open \cup {s} /\ s \notin Open
    BY <1>4, <1>7, <1>8 DEF Open
  <1>10. IsFiniteSet(Open') /\ Cardinality(Open') <= SessionsMax
    <2>1. IsFiniteSet(Open)
      BY <1>5 DEF LayerTypeOK
    <2>2. /\ IsFiniteSet(Open \cup {s}) /\ Cardinality(Open \cup {s}) = Cardinality(Open) + 1
          /\ Cardinality(Open) \in Nat
      BY <1>9, <2>1, FS_AddElement, FS_CardinalityType
    <2>3. QED
      BY <1>1, <1>9, <2>2, SessionsAssumption
  <1>11. LayerTypeOK' /\ TableOfThisBoot'
    BY <1>1, <1>3, <1>4, <1>5, <1>6, <1>7, <1>10 DEF LayerTypeOK, SInv, TableOfThisBoot
  <1>12. \A d \in Conn : conn[d].session # s
    <2>1. \A d \in Conn : conn[d].session = s => table[s].epoch = epoch
      BY NoneIsNoSession DEF SInv, ConnectionsOfThisBoot
    <2>2. QED
      BY <1>1, <1>3, <2>1
  <1>13. ConnectionsOfThisBoot'
    <2>1. s # None
      BY NoneIsNoSession
    <2>2. \A d \in Conn : conn[d].session # None => conn[d].session \in Session
      BY <1>5, ConnSession
    <2>3. QED
      BY <1>1, <1>2, <1>4, <1>6, <1>7, <1>9, <1>12, <2>1, <2>2 DEF SInv, ConnectionsOfThisBoot
  <1>14. ServedBehindCounter' /\ FramesServedInOrder'
    <2>1. \A t \in Session : table'[t].seq = table[t].seq
      BY <1>4, <1>7, <1>8
    <2>2. QED
      BY <1>1, <1>2, <1>6, <2>1, FramesUntouched
  <1>15. SessionsOfThisBoot'
    <2>1. \A p \in Participant : peers[p].session # None => peers[p].session \in Session
      BY DEF IInv, TypeOK, Peer
    <2>2. QED
      BY <1>1, <1>3, <1>7, <2>1 DEF SInv, SessionsOfThisBoot
  <1>16. LiveMeansSessionOpen'
    BY <1>1, <1>9 DEF SInv, LiveMeansSessionOpen, Unspent
  <1>17. QED
    BY <1>11, <1>13, <1>14, <1>15, <1>16 DEF SInv

\* A refused connection, a hello and a frame that ends the connection change the
\* connection alone.
LEMMA ConnectionStepPreserves ==
    ASSUME SInv, NEW c \in Conn, RejectConnection(c) \/ Hello(c) \/ FatalFrame(c)
    PROVE  SInv'
  <1>1. LayerTypeOK
    BY DEF SInv
  <1>2. UNCHANGED <<vars, table, served>> /\ phase' = phase /\ epoch' = epoch /\ table' = table
    BY DEF RejectConnection, Hello, FatalFrame, vars
  <1>3. Open' = Open
    BY <1>2 DEF Open
  <1>4. CASE RejectConnection(c)
    <2>1. PICK r : r = [Closed EXCEPT !.at = "rejected", !.shut = TRUE]
      OBVIOUS
    <2>2. /\ conn' = [conn EXCEPT ![c] = r] /\ conn[c].at = "closed"
          /\ phase \in {"serving", "stopped"}
      BY <1>4, <2>1 DEF RejectConnection
    <2>3. r \in ConnState /\ r.at = "rejected" /\ r.session = None
      BY <2>1, ConnRecords
    <2>4. /\ conn' \in [Conn -> ConnState] /\ conn'[c] = r
          /\ \A d \in Conn \ {c} : conn'[d] = conn[d]
      BY <1>1, <2>2, <2>3, ConnReplaced
    <2>5. ConnectionsOfThisBoot'
      BY <1>2, <1>3, <2>2, <2>3, <2>4 DEF SInv, ConnectionsOfThisBoot
    <2>6. QED
      BY <1>2, <2>3, <2>4, <2>5, ConnectionOnly
  <1>5. CASE Hello(c)
    <2>1. conn' = At(c, "ready") /\ conn[c].at = "hello"
      BY <1>5 DEF Hello
    <2>2. /\ conn' \in [Conn -> ConnState]
          /\ conn'[c].at = "ready" /\ conn'[c].session = conn[c].session
          /\ \A d \in Conn \ {c} : conn'[d] = conn[d]
      BY <1>1, <2>1, ConnMoves
    <2>3. ConnectionsOfThisBoot'
      BY <1>2, <1>3, <2>1, <2>2 DEF SInv, ConnectionsOfThisBoot
    <2>4. QED
      BY <1>2, <2>2, <2>3, ConnectionOnly
  <1>6. CASE FatalFrame(c)
    <2>1. conn[c] \in ConnState /\ conn[c].at \in {"hello", "ready"}
      BY <1>1, <1>6 DEF LayerTypeOK, FatalFrame
    <2>2. PICK r : r = [conn[c] EXCEPT !.shut = TRUE]
      OBVIOUS
    <2>3. r \in ConnState /\ r.at = conn[c].at /\ r.session = conn[c].session
      BY <2>1, <2>2 DEF ConnState
    <2>4. conn' = [conn EXCEPT ![c] = r]
      BY <1>6, <2>2 DEF FatalFrame
    <2>5. /\ conn' \in [Conn -> ConnState] /\ conn'[c] = r
          /\ \A d \in Conn \ {c} : conn'[d] = conn[d]
      BY <1>1, <2>3, <2>4, ConnReplaced
    <2>6. ConnectionsOfThisBoot'
      BY <1>2, <1>3, <2>1, <2>3, <2>5 DEF SInv, ConnectionsOfThisBoot
    <2>7. QED
      BY <1>2, <2>1, <2>3, <2>5, <2>6, ConnectionOnly
  <1>7. QED
    BY <1>4, <1>5, <1>6

\* A validated envelope raises the session's counter above all it has served.
LEMMA ValidatePreserves ==
    ASSUME IInv, SInv, NEW c \in Conn, NEW e, NEW n \in Nat, ValidateEnvelope(c, e, n)
    PROVE  SInv'
  <1> DEFINE s == conn[c].session
  <1>1. /\ conn[c].at = "ready" /\ s \in Open /\ n > table[s].seq
        /\ table' = [table EXCEPT ![s].seq = n]
        /\ conn' = [conn EXCEPT ![c].at = "busy", ![c].frame = n]
        /\ phase' = phase /\ epoch' = epoch /\ peers' = peers /\ served' = served
    BY DEF ValidateEnvelope, Advances, vars, peerVars
  <1>2. LayerTypeOK /\ s \in Session
    BY <1>1 DEF SInv, Open
  <1> HIDE DEF s
  <1>3. PICK r : r = [conn[c] EXCEPT !.at = "busy", !.frame = n]
    OBVIOUS
  <1>4. conn[c] \in ConnState
    BY <1>2 DEF LayerTypeOK
  <1>5. r \in ConnState /\ r.at = "busy" /\ r.frame = n /\ r.session = s
    BY <1>3, <1>4 DEF ConnState, s
  <1>6. conn' = [conn EXCEPT ![c] = r]
    BY <1>1, <1>2, <1>3 DEF LayerTypeOK
  <1>7. /\ conn' \in [Conn -> ConnState] /\ conn'[c] = r
        /\ \A d \in Conn \ {c} : conn'[d] = conn[d]
    BY <1>2, <1>5, <1>6, ConnReplaced
  <1>8. /\ table' \in [Session -> Binding]
        /\ table'[s].seq = n /\ table'[s].open = table[s].open /\ table'[s].epoch = table[s].epoch
        /\ \A t \in Session \ {s} : table'[t] = table[t]
    BY <1>1, <1>2 DEF LayerTypeOK, Binding
  <1>9. Open' = Open
    BY <1>8 DEF Open
  <1>10. /\ \A t \in Session : table[t].seq \in Nat /\ table[t].epoch \in Nat
         /\ \A t \in Session : table'[t].epoch = table[t].epoch /\ table'[t].seq >= table[t].seq
    BY <1>1, <1>2, <1>8 DEF LayerTypeOK, Binding
  <1>11. table[s].epoch # 0
    BY <1>1, <1>2 DEF SInv, TableOfThisBoot, Open
  <1>12. LayerTypeOK' /\ TableOfThisBoot'
    BY <1>1, <1>2, <1>7, <1>8, <1>9, <1>10, <1>11 DEF LayerTypeOK, SInv, TableOfThisBoot
  <1>13. \A d \in Conn : conn'[d].session = conn[d].session
    BY <1>5, <1>7 DEF s
  <1>14. \A d \in Conn : conn[d].session # None => conn[d].session \in Session
    BY <1>2, ConnSession
  <1>15. ConnectionsOfThisBoot'
    BY <1>1, <1>5, <1>7, <1>9, <1>10, <1>13, <1>14 DEF SInv, ConnectionsOfThisBoot, s
  <1>16. FramesServedInOrder'
    BY <1>1 DEF SInv, FramesServedInOrder
  <1>17. \A t \in Session, k \in Nat : k \in 1 .. Len(served[t]) => served[t][k] \in Nat
    BY <1>2 DEF LayerTypeOK
  <1>18. ServedBehindCounter'
    <2>1. ASSUME NEW t \in Session, NEW k \in 1 .. Len(served[t])
          PROVE  served'[t][k] <= table'[t].seq
      <3>1. served[t][k] <= table[t].seq /\ served[t][k] \in Nat
        BY <1>2 DEF SInv, ServedBehindCounter, LayerTypeOK
      <3>2. table'[t].seq \in Nat
        BY <1>8 DEF Binding
      <3>3. QED
        BY <1>1, <1>10, <3>1, <3>2
    <2>2. ASSUME NEW d \in Conn, conn'[d].at = "busy"
          PROVE  /\ conn'[d].frame <= table'[conn'[d].session].seq
                 /\ \A k \in 1 .. Len(served'[conn'[d].session]) :
                       served'[conn'[d].session][k] < conn'[d].frame
      <3>1. CASE d = c
        <4>1. conn'[d].session = s /\ conn'[d].frame = n
          BY <1>5, <1>7, <3>1
        <4>2. \A k \in 1 .. Len(served[s]) : served[s][k] < n
          <5> SUFFICES ASSUME NEW k \in 1 .. Len(served[s]) PROVE served[s][k] < n
            OBVIOUS
          <5>1. served[s][k] <= table[s].seq /\ served[s][k] \in Nat
            BY <1>2 DEF SInv, ServedBehindCounter, LayerTypeOK
          <5>2. QED
            BY <1>1, <1>2, <1>10, <5>1
        <4>3. table'[s].seq = n /\ served' = served /\ n \in Nat
          BY <1>1, <1>8
        <4>4. QED
          BY <4>1, <4>2, <4>3
      <3>2. CASE d # c
        <4>1. conn'[d] = conn[d]
          BY <1>7, <3>2
        <4>2. conn[d].session # s
          <5>1. conn[c].session = conn[d].session => conn[c].session = None
            BY <3>2 DEF SInv, ConnectionsOfThisBoot
          <5>2. QED
            BY <1>2, <5>1, NoneIsNoSession DEF s
        <4>3. conn[d].session \in Session
          BY <1>2, <2>2, <4>1, ConnSession DEF SInv, ConnectionsOfThisBoot
        <4>4. table'[conn[d].session] = table[conn[d].session]
          BY <1>8, <4>2, <4>3
        <4>5. QED
          BY <1>1, <2>2, <4>1, <4>4 DEF SInv, ServedBehindCounter
      <3>3. QED
        BY <3>1, <3>2
    <2>3. QED
      BY <1>1, <2>1, <2>2 DEF ServedBehindCounter
  <1>19. SessionsOfThisBoot'
    <2>1. \A p \in Participant : peers[p].session # None => peers[p].session \in Session
      BY DEF IInv, TypeOK, Peer
    <2>2. QED
      BY <1>1, <1>10, <2>1 DEF SInv, SessionsOfThisBoot
  <1>20. LiveMeansSessionOpen'
    BY <1>1, <1>9 DEF SInv, LiveMeansSessionOpen, Unspent
  <1>21. QED
    BY <1>12, <1>15, <1>16, <1>18, <1>19, <1>20 DEF SInv

\* A frame is served after all its session has served so far.
LEMMA FrameServedKeepsOrder ==
    ASSUME SInv, NEW c \in Conn, FrameServed(c)
    PROVE  /\ LayerTypeOK' /\ ServedBehindCounter' /\ FramesServedInOrder'
           /\ table' = table
           /\ \A d \in Conn : conn'[d].session = conn[d].session
           /\ \A d \in Conn \ {c} : conn'[d] = conn[d]
           /\ conn[c].at = "busy" /\ conn'[c].at = "ready"
  <1> DEFINE s == conn[c].session
             n == conn[c].frame
  <1>1. /\ conn[c].at = "busy" /\ conn' = At(c, "ready") /\ table' = table
        /\ served' = [served EXCEPT ![s] = Append(@, n)]
    BY DEF FrameServed
  <1>2. LayerTypeOK
    BY DEF SInv
  <1>3. s \in Session
    BY <1>1, <1>2, ConnSession DEF SInv, ConnectionsOfThisBoot
  <1>4. n \in Nat /\ served \in [Session -> Seq(Nat)]
    BY <1>2 DEF LayerTypeOK, ConnState
  <1>5. /\ n <= table[s].seq
        /\ \A k \in 1 .. Len(served[s]) : served[s][k] < n
    BY <1>1 DEF SInv, ServedBehindCounter
  <1>6. /\ conn' \in [Conn -> ConnState]
        /\ conn'[c].at = "ready" /\ conn'[c].session = conn[c].session
        /\ \A d \in Conn \ {c} : conn'[d] = conn[d]
    BY <1>1, <1>2, ConnMoves
  <1>7. \A d \in Conn \ {c} : conn[d].session # s
    BY <1>3, NoneIsNoSession DEF SInv, ConnectionsOfThisBoot
  <1> HIDE DEF s, n
  <1>8. /\ served' \in [Session -> Seq(Nat)]
        /\ served'[s] = Append(served[s], n)
        /\ \A t \in Session \ {s} : served'[t] = served[t]
    BY <1>1, <1>3, <1>4
  <1>9. /\ served[s] \in Seq(Nat) /\ Len(served'[s]) = Len(served[s]) + 1
        /\ \A k \in 1 .. Len(served[s]) : served'[s][k] = served[s][k]
        /\ served'[s][Len(served[s]) + 1] = n
    BY <1>3, <1>4, <1>8
  <1>10. LayerTypeOK'
    BY <1>1, <1>2, <1>6, <1>8 DEF LayerTypeOK, Open
  <1>11. FramesServedInOrder'
    <2> SUFFICES ASSUME NEW t \in Session, NEW j \in 1 .. Len(served'[t]),
                        NEW k \in 1 .. Len(served'[t]), j < k
                 PROVE  served'[t][j] < served'[t][k]
      BY DEF FramesServedInOrder
    <2>1. CASE t # s
      BY <1>8, <2>1 DEF SInv, FramesServedInOrder
    <2>2. CASE t = s /\ k = Len(served[s]) + 1
      <3>1. j \in 1 .. Len(served[s])
        BY <1>9, <2>2
      <3>2. QED
        BY <1>5, <1>9, <2>2, <3>1
    <2>3. CASE t = s /\ k # Len(served[s]) + 1
      <3>1. j \in 1 .. Len(served[s]) /\ k \in 1 .. Len(served[s])
        BY <1>9, <2>3
      <3>2. served[s][j] < served[s][k]
        BY <1>3, <3>1 DEF SInv, FramesServedInOrder
      <3>3. QED
        BY <1>9, <2>3, <3>1, <3>2
    <2>4. QED
      BY <2>1, <2>2, <2>3
  <1>12. ServedBehindCounter'
    <2>1. ASSUME NEW t \in Session, NEW k \in 1 .. Len(served'[t])
          PROVE  served'[t][k] <= table'[t].seq
      <3>1. CASE t # s
        BY <1>1, <1>8, <3>1 DEF SInv, ServedBehindCounter
      <3>2. CASE t = s /\ k = Len(served[s]) + 1
        BY <1>1, <1>5, <1>9, <3>2
      <3>3. CASE t = s /\ k # Len(served[s]) + 1
        <4>1. k \in 1 .. Len(served[s])
          BY <1>9, <3>3
        <4>2. QED
          BY <1>1, <1>3, <1>9, <3>3, <4>1 DEF SInv, ServedBehindCounter
      <3>4. QED
        BY <3>1, <3>2, <3>3
    <2>2. ASSUME NEW d \in Conn, conn'[d].at = "busy"
          PROVE  /\ conn'[d].frame <= table'[conn'[d].session].seq
                 /\ \A k \in 1 .. Len(served'[conn'[d].session]) :
                       served'[conn'[d].session][k] < conn'[d].frame
      <3>1. d # c /\ conn'[d] = conn[d] /\ conn[d].session # s
        BY <1>6, <1>7, <2>2
      <3>2. conn[d].session \in Session
        BY <1>2, <2>2, <3>1, ConnSession DEF SInv, ConnectionsOfThisBoot
      <3>3. served'[conn[d].session] = served[conn[d].session]
        BY <1>8, <3>1, <3>2
      <3>4. QED
        BY <1>1, <2>2, <3>1, <3>3 DEF SInv, ServedBehindCounter
    <2>3. QED
      BY <2>1, <2>2 DEF ServedBehindCounter
  <1>13. QED
    BY <1>1, <1>6, <1>10, <1>11, <1>12

\* A served frame that changes nothing, or that publishes a participant in the
\* name of its session.
LEMMA ServePreserves ==
    ASSUME IInv, SInv, NEW c \in Conn,
           \/ ServeOther(c)
           \/ \E p \in Participant, i \in Incarnation, st \in PublishState :
                 ServePublish(c, p, i, st)
    PROVE  SInv'
  <1>1. FrameServed(c)
    BY DEF ServeOther, ServePublish
  <1>2. /\ LayerTypeOK' /\ ServedBehindCounter' /\ FramesServedInOrder'
        /\ table' = table
        /\ \A d \in Conn : conn'[d].session = conn[d].session
        /\ \A d \in Conn \ {c} : conn'[d] = conn[d]
        /\ conn[c].at = "busy" /\ conn'[c].at = "ready"
    BY <1>1, FrameServedKeepsOrder
  <1>3. phase' = phase /\ epoch' = epoch
    BY DEF ServeOther, ServePublish, PublishLiveness, vars
  <1>4. Open' = Open
    BY <1>2 DEF Open
  <1>5. TableOfThisBoot'
    BY <1>2, <1>3, <1>4 DEF SInv, TableOfThisBoot
  <1>6. ConnectionsOfThisBoot'
    BY <1>2, <1>3, <1>4 DEF SInv, ConnectionsOfThisBoot
  <1>7. SessionsOfThisBoot' /\ LiveMeansSessionOpen'
    <2>1. CASE ServeOther(c)
      <3>1. peers' = peers
        BY <2>1 DEF ServeOther, vars, peerVars
      <3>2. QED
        BY <1>2, <1>3, <1>4, <3>1
           DEF SInv, SessionsOfThisBoot, LiveMeansSessionOpen, Unspent
    <2>2. CASE \E p \in Participant, i \in Incarnation, st \in PublishState :
                  ServePublish(c, p, i, st)
      <3>1. PICK p \in Participant, i \in Incarnation, st \in PublishState :
                 PublishLiveness(p, i, st, conn[c].session)
        BY <2>2 DEF ServePublish
      <3>2. PICK r : r = [inc |-> i, state |-> st, session |-> conn[c].session,
                          epoch |-> epoch, expires |-> IF st = "live" THEN now + Ttl ELSE now]
        OBVIOUS
      <3>3. peers' = [peers EXCEPT ![p] = r]
        BY <3>1, <3>2 DEF PublishLiveness
      <3>4. r.session = conn[c].session /\ r.epoch = epoch
        BY <3>2
      <3>5. \A q \in Participant : peers'[q] = IF q = p THEN r ELSE peers[q]
        BY <3>3 DEF IInv, TypeOK
      <3>6. /\ conn[c].session # None /\ table[conn[c].session].epoch = epoch
            /\ phase = "serving" => conn[c].session \in Open
        BY <1>2 DEF SInv, ConnectionsOfThisBoot
      <3>7. SessionsOfThisBoot'
        BY <1>2, <1>3, <3>4, <3>5, <3>6 DEF SInv, SessionsOfThisBoot
      <3>8. LiveMeansSessionOpen'
        BY <1>3, <1>4, <3>4, <3>5, <3>6 DEF SInv, LiveMeansSessionOpen, Unspent
      <3>9. QED
        BY <3>7, <3>8
    <2>3. QED
      BY <2>1, <2>2
  <1>8. QED
    BY <1>2, <1>5, <1>6, <1>7 DEF SInv

\* Fencing keeps a record's session and the boot that wrote it.
LEMMA FencedRecord ==
    ASSUME NEW r \in Peer
    PROVE  Fence(r).session = r.session /\ Fence(r).epoch = r.epoch /\ Fence(r).state = "fenced"
  BY DEF Fence, Peer

\* A closed connection erases its session and fences what is bound to it.
LEMMA OnClosePreserves ==
    ASSUME IInv, SInv, NEW c \in Conn, OnClose(c)
    PROVE  SInv'
  <1> DEFINE S == {conn[c].session} \cap Open
  <1>1. /\ conn[c].at \in {"hello", "ready", "rejected"}
        /\ conn' = [conn EXCEPT ![c] = Closed] /\ served' = served
        /\ CloseSessions(S)
    BY DEF OnClose
  <1>2. /\ table' = [s \in Session |->
                      IF s \in S THEN [table[s] EXCEPT !.open = FALSE] ELSE table[s]]
        /\ peers' = [p \in Participant |->
                      IF p \in Bound(S) THEN Fence(peers[p]) ELSE peers[p]]
        /\ phase' = phase /\ epoch' = epoch
    BY <1>1 DEF CloseSessions
  <1>3. LayerTypeOK
    BY DEF SInv
  <1>4. /\ table' \in [Session -> Binding]
        /\ Open' = Open \ S
        /\ IsFiniteSet(Open') /\ Cardinality(Open') <= SessionsMax
        /\ \A s \in Session : /\ table'[s].epoch = table[s].epoch
                              /\ table'[s].seq = table[s].seq
                              /\ table'[s].open <=> table[s].open /\ s \notin S
    BY <1>2, <1>3, TableErased
  <1>5. Closed \in ConnState /\ Closed.at = "closed" /\ Closed.session = None
    BY ConnRecords
  <1>6. /\ conn' \in [Conn -> ConnState] /\ conn'[c] = Closed
        /\ \A d \in Conn \ {c} : conn'[d] = conn[d]
    BY <1>1, <1>3, <1>5, ConnReplaced
  <1>7. LayerTypeOK'
    BY <1>1, <1>3, <1>4, <1>6 DEF LayerTypeOK
  <1>8. TableOfThisBoot'
    BY <1>2, <1>4 DEF SInv, TableOfThisBoot
  <1>9. ConnectionsOfThisBoot'
    <2>1. \A d \in Conn : conn[d].session # None => conn[d].session \in Session
      BY <1>3, ConnSession
    <2>2. \A d \in Conn \ {c} : conn[d].session # None => conn[d].session \notin S
      BY DEF SInv, ConnectionsOfThisBoot
    <2>3. QED
      BY <1>2, <1>4, <1>5, <1>6, <2>1, <2>2 DEF SInv, ConnectionsOfThisBoot
  <1>10. ServedBehindCounter' /\ FramesServedInOrder'
    BY <1>1, <1>4, <1>5, <1>6, FramesUntouched
  <1>11. \A p \in Participant : peers[p] \in Peer
    BY DEF IInv, TypeOK
  <1>12. \A p \in Participant :
            /\ peers'[p].session = peers[p].session /\ peers'[p].epoch = peers[p].epoch
            /\ p \in Bound(S) => peers'[p].state = "fenced"
            /\ p \notin Bound(S) => peers'[p].state = peers[p].state
    BY <1>2, <1>11, FencedRecord
  <1>13. SessionsOfThisBoot'
    <2>1. \A p \in Participant : peers[p].session # None => peers[p].session \in Session
      BY <1>11 DEF Peer
    <2> SUFFICES ASSUME NEW p \in Participant, peers'[p].session # None
                 PROVE  table'[peers'[p].session].epoch = epoch' /\ peers'[p].epoch = epoch'
      BY DEF SessionsOfThisBoot
    <2>2. peers'[p].session = peers[p].session /\ peers'[p].epoch = peers[p].epoch
      BY <1>12
    <2>3. /\ peers[p].session \in Session
          /\ table[peers[p].session].epoch = epoch /\ peers[p].epoch = epoch
      BY <2>1, <2>2 DEF SInv, SessionsOfThisBoot
    <2>4. epoch' = epoch
      BY <1>2
    <2>5. QED
      BY <1>4, <2>2, <2>3, <2>4
  <1>14. LiveMeansSessionOpen'
    <2> SUFFICES ASSUME phase = "serving", NEW p \in Participant,
                        peers'[p].state \notin SpentState \cup {"absent"}
                 PROVE  peers'[p].session \in Open'
      BY <1>2 DEF LiveMeansSessionOpen, Unspent
    <2>1. p \notin Bound(S) /\ peers'[p].state = peers[p].state
      BY <1>12 DEF SpentState
    <2>2. peers[p].session \in Open
      BY <2>1 DEF SInv, LiveMeansSessionOpen, Unspent
    <2>3. peers[p].session \notin S
      BY <2>1 DEF Bound, Recorded
    <2>4. QED
      BY <1>4, <1>12, <2>2, <2>3
  <1>15. QED
    BY <1>7, <1>8, <1>9, <1>10, <1>13, <1>14 DEF SInv

\* A stop erases every session and fences what is bound to one; the threads of
\* the connections go on.
LEMMA StopPreserves ==
    ASSUME IInv, SInv, Stop
    PROVE  SInv'
  <1>1. /\ phase = "serving" /\ phase' = "stopped" /\ epoch' = epoch
        /\ peers' = [p \in Participant |->
                       IF p \in Bound(Open) THEN Fence(peers[p]) ELSE peers[p]]
        /\ table' = [s \in Session |-> [table[s] EXCEPT !.open = FALSE]]
        /\ conn' = conn /\ served' = served
    BY DEF Stop, StopService
  <1>2. /\ LayerTypeOK' /\ Open' = {}
        /\ \A s \in Session : /\ table'[s].epoch = table[s].epoch
                              /\ table'[s].seq = table[s].seq
    <2>1. conn' \in [Conn -> ConnState]
      BY <1>1 DEF SInv, LayerTypeOK
    <2>2. QED
      BY <1>1, <2>1, AllErased
  <1>3. TableOfThisBoot'
    <2>1. \A s \in Session : ~table'[s].open
      BY <1>2 DEF Open
    <2>2. phase' # "down" => epoch' >= 1
      BY <1>1 DEF SInv, TableOfThisBoot
    <2>3. QED
      BY <1>2, <2>1, <2>2 DEF SInv, TableOfThisBoot
  <1>4. ConnectionsOfThisBoot'
    <2>1. \A d \in Conn : conn[d].session # None => conn[d].session \in Session
      BY ConnSession DEF SInv
    <2>2. /\ conn' = conn /\ epoch' = epoch /\ phase' = "stopped"
      BY <1>1
    <2>3. QED
      BY <1>2, <2>1, <2>2 DEF SInv, ConnectionsOfThisBoot
  <1>5. ServedBehindCounter' /\ FramesServedInOrder'
    BY <1>1, <1>2, FramesUntouched
  <1>6. \A p \in Participant : peers[p] \in Peer
    BY DEF IInv, TypeOK
  <1>7. \A p \in Participant :
           peers'[p].session = peers[p].session /\ peers'[p].epoch = peers[p].epoch
    BY <1>1, <1>6, FencedRecord
  <1>8. SessionsOfThisBoot'
    <2> SUFFICES ASSUME NEW p \in Participant, peers'[p].session # None
                 PROVE  table'[peers'[p].session].epoch = epoch' /\ peers'[p].epoch = epoch'
      BY DEF SessionsOfThisBoot
    <2>1. peers[p].session \in Session
      BY <1>6, <1>7 DEF Peer
    <2>2. table[peers[p].session].epoch = epoch /\ peers[p].epoch = epoch
      BY <1>7 DEF SInv, SessionsOfThisBoot
    <2>3. epoch' = epoch
      BY <1>1
    <2>4. QED
      BY <1>2, <1>7, <2>1, <2>2, <2>3
  <1>9. LiveMeansSessionOpen'
    BY <1>1 DEF LiveMeansSessionOpen
  <1>10. QED
    BY <1>2, <1>3, <1>4, <1>5, <1>8, <1>9 DEF SInv

\* A death takes the connections and the sessions with it.
LEMMA DeathPreserves ==
    ASSUME SInv, Death
    PROVE  SInv'
  <1>1. /\ phase' = "down" /\ peers' = NoLiveness
        /\ table' = [s \in Session |-> [table[s] EXCEPT !.open = FALSE]]
        /\ conn' = [c \in Conn |-> Closed] /\ served' = served
    BY DEF Death, ProcessDeath
  <1>2. Closed \in ConnState /\ Closed.at = "closed" /\ Closed.session = None
    BY ConnRecords
  <1> HIDE DEF Closed
  <1>3. conn' \in [Conn -> ConnState] /\ \A c \in Conn : conn'[c] = Closed
    BY <1>1, <1>2
  <1>4. /\ LayerTypeOK' /\ Open' = {}
        /\ \A s \in Session : /\ table'[s].epoch = table[s].epoch
                              /\ table'[s].seq = table[s].seq
    BY <1>1, <1>3, AllErased
  <1>5. TableOfThisBoot'
    <2>1. \A s \in Session : ~table'[s].open
      BY <1>4 DEF Open
    <2>2. phase' = "down"
      BY <1>1
    <2>3. QED
      BY <1>4, <2>1, <2>2 DEF SInv, TableOfThisBoot
  <1>6. ConnectionsOfThisBoot'
    BY <1>2, <1>3 DEF ConnectionsOfThisBoot
  <1>7. ServedBehindCounter' /\ FramesServedInOrder'
    BY <1>1, <1>2, <1>3, <1>4, FramesUntouched
  <1>8. \A p \in Participant : peers'[p] = NoPeer
    BY <1>1 DEF NoLiveness
  <1>9. QED
    BY <1>4, <1>5, <1>6, <1>7, <1>8, NoPeersNoClaims DEF SInv

-----------------------------------------------------------------------------
(* The theorems.                                                           *)

\* The initial states.
LEMMA SInitInv == SInit => SInv
  <1> SUFFICES ASSUME SInit PROVE SInv
    OBVIOUS
  <1>1. /\ phase = "down" /\ peers = NoLiveness
        /\ table = [s \in Session |-> Unopened]
        /\ conn = [c \in Conn |-> Closed] /\ served = [s \in Session |-> <<>>]
    BY DEF SInit, Init, NoLiveness
  <1>2. Unopened \in Binding /\ Unopened.open = FALSE /\ Unopened.epoch = 0 /\ Unopened.seq = 0
    BY DEF Unopened, Binding
  <1>3. Closed \in ConnState /\ Closed.at = "closed" /\ Closed.session = None
    BY ConnRecords
  <1> HIDE DEF Closed, Unopened
  <1>4. /\ table \in [Session -> Binding] /\ conn \in [Conn -> ConnState]
        /\ served \in [Session -> Seq(Nat)]
        /\ \A s \in Session : table[s] = Unopened /\ served[s] = <<>>
        /\ \A c \in Conn : conn[c] = Closed
    BY <1>1, <1>2, <1>3
  <1>5. Open = {}
    BY <1>2, <1>4 DEF Open
  <1>6. IsFiniteSet(Open) /\ Cardinality(Open) <= SessionsMax
    BY <1>5, FS_EmptySet, SessionsAssumption
  <1>7. LayerTypeOK /\ TableOfThisBoot
    BY <1>1, <1>2, <1>4, <1>5, <1>6 DEF LayerTypeOK, TableOfThisBoot
  <1>8. ConnectionsOfThisBoot
    BY <1>3, <1>4 DEF ConnectionsOfThisBoot
  <1>9. ServedBehindCounter /\ FramesServedInOrder
    <2>1. \A s \in Session : 1 .. Len(served[s]) = {}
      BY <1>4
    <2>2. QED
      BY <1>3, <1>4, <2>1 DEF ServedBehindCounter, FramesServedInOrder
  <1>10. NoPeer.session = None /\ NoPeer.state = "absent"
    BY DEF NoPeer
  <1>11. SessionsOfThisBoot /\ LiveMeansSessionOpen
    BY <1>1, <1>10 DEF NoLiveness, SessionsOfThisBoot, LiveMeansSessionOpen, Unspent
  <1>12. QED
    BY <1>7, <1>8, <1>9, <1>11 DEF SInv

\* Every step of the session layer preserves its invariant.
LEMMA SNextInv == IInv /\ SInv /\ [SNext]_allVars => SInv'
  <1> SUFFICES ASSUME IInv, SInv, [SNext]_allVars PROVE SInv'
    OBVIOUS
  <1>1. CASE Start
    BY <1>1, StartPreserves
  <1>2. CASE Restore
    BY <1>2, RestorePreserves
  <1>3. CASE Stop
    BY <1>3, StopPreserves
  <1>4. CASE Death
    BY <1>4, DeathPreserves
  <1>5. CASE Clock
    BY <1>5, ClockPreserves
  <1>6. ASSUME NEW c \in Conn, NEW s \in Session, OpenSession(c, s)
        PROVE  SInv'
    BY <1>6, OpenSessionPreserves
  <1>7. ASSUME NEW c \in Conn, RejectConnection(c) \/ Hello(c) \/ FatalFrame(c)
        PROVE  SInv'
    BY <1>7, ConnectionStepPreserves
  <1>8. ASSUME NEW c \in Conn, OnClose(c)
        PROVE  SInv'
    BY <1>8, OnClosePreserves
  <1>9. ASSUME NEW c \in Conn, NEW e \in 1 .. MaxEpoch, NEW n \in 1 .. MaxFrame,
               ValidateEnvelope(c, e, n)
        PROVE  SInv'
    <2>1. n \in Nat
      OBVIOUS
    <2>2. QED
      BY <1>9, <2>1, ValidatePreserves
  <1>10. ASSUME NEW c \in Conn,
                \/ ServeOther(c)
                \/ \E p \in Participant, i \in Incarnation, st \in PublishState :
                      ServePublish(c, p, i, st)
         PROVE  SInv'
    BY <1>10, ServePreserves
  <1>11. CASE UNCHANGED allVars
    <2>1. /\ vars' = vars /\ table' = table /\ served' = served /\ conn' = conn
      BY <1>11 DEF allVars, sessionVars
    <2>2. conn' \in [Conn -> ConnState]
      BY <2>1 DEF SInv, LayerTypeOK
    <2>3. phase' = phase /\ epoch' = epoch
      BY <2>1 DEF vars
    <2>4. ConnectionsOfThisBoot'
      BY <2>1, <2>3 DEF SInv, ConnectionsOfThisBoot, Open
    <2>5. QED
      BY <2>1, <2>2, <2>4, ConnectionOnly
  <1>12. QED
    BY <1>1, <1>2, <1>3, <1>4, <1>5, <1>6, <1>7, <1>8, <1>9, <1>10, <1>11 DEF SNext

\* Authority's invariant and the one of the session layer hold together in every
\* state of a server: each needs the other (a close reaches Authority only after a
\* start, a record's session is in the table).
THEOREM SessionsInvariance == SSpec => [](IInv /\ SInv)
  <1>1. SInit => IInv /\ SInv
    BY InitIInv, SInitInv DEF SInit
  <1>2. IInv /\ SInv /\ [SNext]_allVars => (IInv /\ SInv)'
    BY AuthorityKept, SNextInv
  <1>3. QED
    BY <1>1, <1>2, PTL DEF SSpec

\* The session table is well typed, holds at most kSessionsMax open sessions, and
\* no two connections share a session (open_session).
THEOREM SessionsTypeCorrect == SSpec => []SessionsTypeOK
  <1>1. SInv => SessionsTypeOK
    BY DEF SInv, LayerTypeOK, ConnectionsOfThisBoot, SessionsTypeOK
  <1>2. QED
    BY <1>1, SessionsInvariance, PTL

\* A session's frames are served at most once each and in order, whatever peers
\* send and however connections, stops and deaths interleave (check_session_locked).
THEOREM FramesInOrder == SSpec => []FramesServedInOrder
  <1>1. SInv => FramesServedInOrder
    BY DEF SInv
  <1>2. QED
    BY <1>1, SessionsInvariance, PTL

\* Every liveness record is the work of a session of the current boot
\* (publish_participant, CoordinatorServer::stop and start).
THEOREM RecordsOfThisBoot == SSpec => []SessionsOfThisBoot
  <1>1. SInv => SessionsOfThisBoot
    BY DEF SInv
  <1>2. QED
    BY <1>1, SessionsInvariance, PTL

\* A participant that is not spent is bound to an open session while the service
\* runs (publish_participant, close_session, stop).
THEOREM LiveIsBound == SSpec => []LiveMeansSessionOpen
  <1>1. SInv => LiveMeansSessionOpen
    BY DEF SInv
  <1>2. QED
    BY <1>1, SessionsInvariance, PTL

\* What Authority promises about fencing still holds when sessions and
\* connections drive it (publish_participant, close_session).
THEOREM AuthorityThroughSessions == SSpec => []SpentIncarnationStaysSpent
  <1>1. IInv => SpentIncarnationStaysSpent
    BY DEF IInv
  <1>2. QED
    BY <1>1, SessionsInvariance, PTL
=============================================================================
