---------------------------- MODULE PlanningProofs ----------------------------
(***************************************************************************)
(* Proofs about Engine and Planning for every table of policies,           *)
(* topologies and evidence the code's validation lets through, every set   *)
(* of requests and every bound.                                            *)
(***************************************************************************)
EXTENDS Planning, SequenceTheorems, FiniteSetTheorems, WellFoundedInduction, TLAPS

\* Types of the variables of the model, the history's apart.
Typed ==
    /\ now \in Nat /\ running \in BOOLEAN /\ changes \in Nat
    /\ auth \in AuthorityState /\ Anchored(auth)
    /\ record \in {None} \cup CollectiveRecord

\* The ring is a sequence with room for at least one entry.
RingTyped ==
    /\ capacity \in Nat \ {0}
    /\ Len(records) \in Nat
    /\ records \in Seq({records[k] : k \in 1 .. Len(records)})

\* The inductive invariant behind the theorems.
IInv == Typed /\ RingTyped /\ LogCanBeAudited

-----------------------------------------------------------------------------
(* The order of the rules.                                                 *)

\* A nonempty set of numbers has a least one.
LEMMA LeastNumber ==
    ASSUME NEW T, T \subseteq Nat, T # {}
    PROVE  \E x \in T : \A y \in T : x <= y
  <1> DEFINE R == OpToRel(<, Nat)
  <1>1. \A a, b \in Nat : <<a, b>> \in R <=> a < b
    BY Zenon DEF OpToRel
  <1>2. IsWellFoundedOn(R, Nat)
    BY NatLessThanWellFounded
  <1> HIDE DEF R
  <1>3. PICK x \in T : \A y \in T : ~(<<y, x>> \in R)
    BY <1>2, WFMin
  <1>4. ASSUME NEW y \in T PROVE x <= y
    <2>1. ~(y < x) /\ x \in Nat /\ y \in Nat
      BY <1>1, <1>3
    <2>2. QED
      BY <2>1
  <1>5. QED
    BY <1>4

\* There are 22 rules, each at its place (apply_authority_chain, evaluate).
LEMMA Rules ==
    /\ Len(Order) = 22
    /\ Order[1] = "generation" /\ Order[2] = "no_plan" /\ Order[3] = "plan"
    /\ Order[4] = "epoch" /\ Order[5] = "policy" /\ Order[6] = "no_policy"
    /\ Order[7] = "capacity" /\ Order[8] = "congestion" /\ Order[9] = "topology"
    /\ Order[10] = "no_topology" /\ Order[11] = "liveness" /\ Order[12] = "topology_age"
    /\ Order[13] = "node" /\ Order[14] = "collective_unstated" /\ Order[15] = "class_unknown"
    /\ Order[16] = "override" /\ Order[17] = "override_unclassified"
    /\ Order[18] = "unclassified" /\ Order[19] = "class_unstated"
    /\ Order[20] = "no_congestion" /\ Order[21] = "congestion_age" /\ Order[22] = "floor"
  BY DEF Order

\* Where the two rules stand whose place decides how much of a record is filled in.
LEMMA Places == Position("plan") = 3 /\ Position("class_unstated") = 19
  <1>1. DOMAIN Order = 1 .. 22
    BY DEF Order
  <1>2. \A k \in 1 .. 22 : (Order[k] = "plan" <=> k = 3) /\ (Order[k] = "class_unstated" <=> k = 19)
    BY DEF Order
  <1>3. QED
    BY <1>1, <1>2 DEF Position

\* The first refusal is a refusal before which no rule refuses, or there is none.
LEMMA FirstIsFirst ==
    ASSUME NEW s, NEW r, NEW d
    PROVE  /\ FirstRefusal(s, r, d) \in 1 .. 23
           /\ FirstRefusal(s, r, d) <= 22 => Refuses(Order[FirstRefusal(s, r, d)], s, r, d)
           /\ \A j \in 1 .. FirstRefusal(s, r, d) - 1 : ~Refuses(Order[j], s, r, d)
  <1> DEFINE T == {k \in 1 .. 23 : k <= 22 => Refuses(Order[k], s, r, d)}
  <1>1. T \subseteq Nat /\ T # {}
    <2>1. 23 \in T
      OBVIOUS
    <2>2. QED
      BY <2>1
  <1>2. PICK x \in T : \A y \in T : x <= y
    BY <1>1, LeastNumber
  <1>3. x \in 1 .. 23 /\ (x <= 22 => Refuses(Order[x], s, r, d))
    BY <1>2
  <1>4. ASSUME NEW j \in 1 .. x - 1 PROVE ~Refuses(Order[j], s, r, d)
    <2>1. j \in 1 .. 23 /\ ~(x <= j)
      BY <1>3
    <2>2. QED
      BY <1>2, <2>1
  <1> HIDE DEF T
  <1>5. Len(Order) + 1 = 23 /\ Len(Order) = 22
    BY Rules
  <1>6. \E k \in 1 .. Len(Order) + 1 :
           /\ k <= Len(Order) => Refuses(Order[k], s, r, d)
           /\ \A j \in 1 .. k - 1 : ~Refuses(Order[j], s, r, d)
    BY <1>3, <1>4, <1>5
  <1>7. LET k == FirstRefusal(s, r, d)
        IN  /\ k \in 1 .. Len(Order) + 1
            /\ k <= Len(Order) => Refuses(Order[k], s, r, d)
            /\ \A j \in 1 .. k - 1 : ~Refuses(Order[j], s, r, d)
    BY <1>6, Zenon DEF FirstRefusal
  <1>8. QED
    BY <1>5, <1>7

\* What a rule answers never grants.
LEMMA VerdictsRefuse ==
    ASSUME NEW k \in 1 .. 22
    PROVE  ~Grants(Verdict(Order[k])[1])
  <1>1. Order[k] \in {"generation", "no_plan", "plan", "epoch", "policy", "no_policy", "capacity",
                      "congestion", "topology", "no_topology", "liveness", "topology_age", "node",
                      "collective_unstated", "class_unknown", "override",
                      "override_unclassified", "unclassified", "class_unstated",
                      "no_congestion", "congestion_age", "floor"}
    BY Rules
  <1>2. QED
    BY <1>1 DEF Verdict, Grants
-----------------------------------------------------------------------------
(* Pacing.                                                                 *)

\* The sum over the links is a word, whatever they can spare.
LEMMA SpareIsARate ==
    ASSUME NEW links \in Seq(Rates)
    PROVE  Spare(links) \in Rates
  <1> DEFINE n == Len(links)
             Sums(m) == {f \in [0 .. m -> Rates] : \A k \in 0 .. m :
                            f[k] = IF k = 0 THEN 0 ELSE (f[k - 1] + links[k]) % Word}
             T == {m \in 0 .. n : Sums(m) = {}}
  <1>1. n \in Nat /\ \A k \in 1 .. n : links[k] \in Rates
    OBVIOUS
  <1>2. 0 \in Rates /\ \A a, b \in Rates : (a + b) % Word \in Rates
    BY FlowGroupAssumption DEF Rates
  <1>3. T = {}
    <2> SUFFICES ASSUME T # {} PROVE FALSE
      OBVIOUS
    <2>0. T \subseteq Nat
      BY <1>1
    <2>1. PICK x \in T : \A y \in T : x <= y
      <3> HIDE DEF T
      <3>1. QED
        BY <2>0, LeastNumber
    <2>2. x \in 0 .. n /\ Sums(x) = {}
      BY <2>1
    <2>3. x # 0
      <3>1. [k \in 0 .. 0 |-> 0] \in Sums(0)
        BY <1>2
      <3>2. QED
        BY <2>2, <3>1
    <2>4. PICK y \in Nat : x = y + 1
      BY <1>1, <2>2, <2>3
    <2>5. y \in 0 .. n /\ ~(x <= y) /\ x \in 1 .. n
      BY <1>1, <2>2, <2>4
    <2>6. PICK g \in Sums(y) : TRUE
      BY <2>1, <2>5
    <2>7. /\ g \in [0 .. y -> Rates]
          /\ \A k \in 0 .. y : g[k] = IF k = 0 THEN 0 ELSE (g[k - 1] + links[k]) % Word
      BY <2>6
    <2> DEFINE h == [k \in 0 .. x |-> IF k = x THEN (g[y] + links[x]) % Word ELSE g[k]]
    <2>8. (g[y] + links[x]) % Word \in Rates
      BY <1>1, <1>2, <2>5, <2>7
    <2>9. h \in [0 .. x -> Rates]
      BY <2>4, <2>7, <2>8
    <2>10. ASSUME NEW k \in 0 .. x
           PROVE  h[k] = IF k = 0 THEN 0 ELSE (h[k - 1] + links[k]) % Word
      <3>1. CASE k = x
        <4>1. h[k] = (g[y] + links[x]) % Word /\ k - 1 = y /\ k # 0
          BY <2>3, <2>4, <3>1
        <4>2. h[k - 1] = g[y]
          BY <2>4, <4>1
        <4>3. QED
          BY <3>1, <4>1, <4>2
      <3>2. CASE k # x
        <4>1. k \in 0 .. y /\ h[k] = g[k]
          BY <2>4, <3>2
        <4>2. k # 0 => h[k - 1] = g[k - 1]
          BY <2>4, <4>1
        <4>3. QED
          BY <2>7, <4>1, <4>2
      <3>3. QED
        BY <3>1, <3>2
    <2>11. h \in Sums(x)
      BY <2>9, <2>10
    <2>12. QED
      BY <2>2, <2>11
  <1>4. PICK g \in Sums(n) : TRUE
    BY <1>1, <1>3
  <1>5. g = [k \in 0 .. n |-> IF k = 0 THEN 0 ELSE (g[k - 1] + links[k]) % Word]
    BY <1>4
  <1> DEFINE u == CHOOSE f : f = [k \in 0 .. Len(links) |->
                                     IF k = 0 THEN 0 ELSE (f[k - 1] + links[k]) % Word]
  <1>6. Spare(links) = u[n]
    BY DEF Spare
  <1>7. u = [k \in 0 .. n |-> IF k = 0 THEN 0 ELSE (u[k - 1] + links[k]) % Word]
    BY <1>5
  <1> DEFINE Bad == {k \in 0 .. n : u[k] \notin Rates}
  <1> HIDE DEF u, T, Sums
  <1>8. Bad = {}
    <2> SUFFICES ASSUME Bad # {} PROVE FALSE
      OBVIOUS
    <2>0. Bad \subseteq Nat
      BY <1>1
    <2>1. PICK x \in Bad : \A y \in Bad : x <= y
      <3> HIDE DEF Bad
      <3>1. QED
        BY <2>0, LeastNumber
    <2>2. x \in 0 .. n /\ u[x] \notin Rates
      BY <2>1
    <2>3. u[x] = IF x = 0 THEN 0 ELSE (u[x - 1] + links[x]) % Word
      BY <1>7, <2>2
    <2>4. x # 0
      BY <1>2, <2>2, <2>3
    <2>5. x - 1 \in 0 .. n /\ ~(x <= x - 1) /\ x \in 1 .. n
      BY <1>1, <2>2, <2>4
    <2>6. u[x - 1] \in Rates
      BY <2>1, <2>5
    <2>7. QED
      BY <1>1, <1>2, <2>2, <2>3, <2>4, <2>5, <2>6
  <1>9. QED
    BY <1>1, <1>6, <1>8

\* A part of a rate, divided before it is multiplied, is the part rounded down:
\* it never exceeds the rate, never wraps, and is at least a floor exactly when
\* the undivided product is (compute_pacing).
LEMMA PerMilleRoundsDown ==
    ASSUME NEW rate \in Rates, NEW m \in 0 .. Mille
    PROVE  /\ PerMille(rate, m) \in Rates /\ PerMille(rate, m) <= rate
           /\ \A floor \in Nat : floor <= PerMille(rate, m) <=> Mille * floor <= rate * m
  <1> DEFINE q == rate \div Mille
             p == rate % Mille
             x == q * m
             y == p * m
             z == y \div Mille
  <1>1. rate \in Nat /\ rate < Word /\ Word \in Nat /\ m \in Nat /\ m <= 1000 /\ Mille = 1000
    BY FlowGroupAssumption DEF Rates, Mille
  <1>2. q \in Nat /\ p \in Nat /\ rate = 1000 * q + p
    BY <1>1
  <1> HIDE DEF q, p
  <1>3. x \in Nat /\ y \in Nat
    BY <1>1, <1>2
  <1>4. x <= 1000 * q /\ y <= 1000 * p
    <2>1. \A a \in Nat : a * m <= a * 1000
      BY <1>1
    <2>2. QED
      BY <1>2, <2>1
  <1>5. rate * m = 1000 * x + y
    <2>1. rate * m = (1000 * q + p) * m
      BY <1>2
    <2>2. (1000 * q + p) * m = 1000 * (q * m) + p * m
      BY <1>1, <1>2
    <2>3. QED
      BY <2>1, <2>2
  <1>6. PerMille(rate, m) = (x + z) % Word
    BY DEF PerMille, q, p
  <1> HIDE DEF x, y
  <1>7. z \in Nat /\ 1000 * z <= y /\ y < 1000 * z + 1000
    BY <1>1, <1>3
  <1> HIDE DEF z
  <1>8. z <= p
    BY <1>2, <1>3, <1>4, <1>7
  <1>9. x + z <= rate /\ x + z \in Nat /\ x + z < Word
    BY <1>1, <1>2, <1>3, <1>4, <1>7, <1>8
  <1>10. PerMille(rate, m) = x + z
    BY <1>1, <1>6, <1>9
  <1>11. ASSUME NEW floor \in Nat PROVE floor <= x + z <=> 1000 * floor <= rate * m
    BY <1>3, <1>5, <1>7
  <1>12. QED
    BY <1>1, <1>9, <1>10, <1>11 DEF Rates

\* The response of a valid table is a part of the whole rate.
LEMMA ResponseIsAPart ==
    ASSUME NEW table, ValidResponse(table), NEW u
    PROVE  Response(table, u) \in 1 .. Mille
  <1> DEFINE K == {k \in DOMAIN table.bounds : u >= table.bounds[k]}
             n == Len(table.bounds)
  <1>1. n \in Nat \ {0} /\ DOMAIN table.bounds = 1 .. n
    BY DEF ValidResponse
  <1>2. IsFiniteSet(1 .. n)
    BY <1>1, FS_Interval
  <1>3. IsFiniteSet(K)
    BY <1>1, <1>2, FS_Subset
  <1>4. Cardinality(K) \in Nat
    BY <1>3, FS_CardinalityType
  <1> HIDE DEF K
  <1>5. Smaller(Cardinality(K) + 1, n) \in 1 .. n
    BY <1>1, <1>4 DEF Smaller
  <1>6. Response(table, u) = table.rates[Smaller(Cardinality(K) + 1, n)]
    BY DEF Response, K
  <1>7. QED
    BY <1>5, <1>6 DEF ValidResponse
-----------------------------------------------------------------------------
(* The ring.                                                               *)

\* Dropping all but the newest entries of a sequence leaves entries of it.
LEMMA KeptIsPart ==
    ASSUME NEW S, NEW q \in Seq(S), NEW n \in Nat \ {0}
    PROVE  /\ Kept(q, n) \in Seq(S)
           /\ \A k \in 1 .. Len(Kept(q, n)) : \E j \in 1 .. Len(q) : Kept(q, n)[k] = q[j]
  <1> DEFINE m == Lesser(Len(q), n)
             lo == Len(q) - m + 1
  <1>1. Len(q) \in Nat /\ \A i \in 1 .. Len(q) : q[i] \in S
    OBVIOUS
  <1>2. m \in Nat /\ m <= Len(q)
    BY <1>1 DEF Lesser
  <1>3. lo \in Int /\ lo >= 1 /\ Len(q) - lo + 1 = m
    BY <1>1, <1>2
  <1>4. Kept(q, n) = SubSeq(q, lo, Len(q))
    BY DEF Kept, Newest
  <1> HIDE DEF m, lo
  <1>5. \A i \in lo .. Len(q) : q[i] \in S
    BY <1>1, <1>3
  <1>6. /\ SubSeq(q, lo, Len(q)) \in Seq(S)
        /\ Len(SubSeq(q, lo, Len(q))) = IF lo <= Len(q) THEN Len(q) - lo + 1 ELSE 0
        /\ \A i \in 1 .. Len(q) - lo + 1 : SubSeq(q, lo, Len(q))[i] = q[lo + i - 1]
    BY <1>1, <1>3, <1>5, SubSeqProperties
  <1>7. Len(Kept(q, n)) = m
    BY <1>1, <1>2, <1>3, <1>4, <1>6
  <1>8. ASSUME NEW k \in 1 .. m PROVE \E j \in 1 .. Len(q) : Kept(q, n)[k] = q[j]
    <2>1. lo + k - 1 \in 1 .. Len(q)
      BY <1>1, <1>2, <1>3
    <2>2. Kept(q, n)[k] = q[lo + k - 1]
      BY <1>3, <1>4, <1>6
    <2>3. QED
      BY <2>1, <2>2
  <1>9. QED
    BY <1>4, <1>6, <1>7, <1>8

\* A sequence of anything is one of its own entries.
LEMMA OfItsEntries ==
    ASSUME NEW S, NEW q \in Seq(S)
    PROVE  Len(q) \in Nat /\ q \in Seq({q[k] : k \in 1 .. Len(q)}) /\ DOMAIN q = 1 .. Len(q)
  <1>1. Len(q) \in Nat /\ DOMAIN q = 1 .. Len(q)
    OBVIOUS
  <1>2. q \in [1 .. Len(q) -> {q[k] : k \in 1 .. Len(q)}]
    BY <1>1
  <1>3. QED
    BY <1>1, <1>2

\* record adds one entry, and keeps entries it had.
LEMMA RecordAdds ==
    ASSUME NEW d, NEW c, RingTyped, Record(d, c)
    PROVE  /\ RingTyped'
           /\ \A k \in 1 .. Len(records') :
                 \/ records'[k].decision = d
                 \/ \E j \in 1 .. Len(records) : records'[k] = records[j]
  <1> DEFINE S == {records[k] : k \in 1 .. Len(records)} \cup {Entry(next, d)}
             q == Append(records, Entry(next, d))
  <1>1. records \in Seq(S) /\ Len(records) \in Nat /\ capacity \in Nat \ {0}
    <2>1. Len(records) \in Nat /\ records \in Seq({records[k] : k \in 1 .. Len(records)})
      BY DEF RingTyped
    <2>2. \A k \in 1 .. Len(records) : records[k] \in S
      OBVIOUS
    <2>3. DOMAIN records = 1 .. Len(records) /\ records = [k \in 1 .. Len(records) |-> records[k]]
      BY <2>1
    <2>4. records \in [1 .. Len(records) -> S]
      BY <2>2, <2>3
    <2>5. QED
      BY <2>1, <2>4 DEF RingTyped
  <1>2. Entry(next, d) \in S
    OBVIOUS
  <1> HIDE DEF S
  <1>3. /\ q \in Seq(S) /\ Len(q) = Len(records) + 1
        /\ \A j \in 1 .. Len(records) : q[j] = records[j]
        /\ q[Len(records) + 1] = Entry(next, d)
    BY <1>1, <1>2, AppendProperties
  <1> HIDE DEF q
  <1>4. records' = Kept(q, capacity) /\ capacity' = capacity
    BY DEF Record, q
  <1>5. /\ records' \in Seq(S)
        /\ \A k \in 1 .. Len(records') : \E j \in 1 .. Len(q) : records'[k] = q[j]
    <2>1. q \in Seq(S) /\ capacity \in Nat \ {0}
      BY <1>1, <1>3
    <2>2. /\ Kept(q, capacity) \in Seq(S)
          /\ \A k \in 1 .. Len(Kept(q, capacity)) :
                \E j \in 1 .. Len(q) : Kept(q, capacity)[k] = q[j]
      BY <2>1, KeptIsPart
    <2>3. QED
      BY <1>4, <2>2
  <1>6. RingTyped'
    <2>1. Len(records') \in Nat /\ records' \in Seq({records'[k] : k \in 1 .. Len(records')})
      BY <1>5, OfItsEntries
    <2>2. QED
      BY <1>1, <1>4, <2>1 DEF RingTyped
  <1>7. ASSUME NEW k \in 1 .. Len(records')
        PROVE  \/ records'[k].decision = d
               \/ \E j \in 1 .. Len(records) : records'[k] = records[j]
    <2>1. PICK j \in 1 .. Len(q) : records'[k] = q[j]
      BY <1>5
    <2>2. CASE j = Len(records) + 1
      BY <1>3, <2>1, <2>2 DEF Entry
    <2>3. CASE j # Len(records) + 1
      <3>1. j \in 1 .. Len(records)
        BY <1>1, <1>3, <2>3
      <3>2. QED
        BY <1>3, <2>1, <3>1
    <2>4. QED
      BY <2>2, <2>3
  <1>8. QED
    BY <1>6, <1>7

\* set_capacity keeps entries it had.
LEMMA ResizeKeeps ==
    ASSUME NEW n \in Capacities, RingTyped, SetCapacity(n)
    PROVE  /\ RingTyped'
           /\ \A k \in 1 .. Len(records') : \E j \in 1 .. Len(records) : records'[k] = records[j]
  <1> DEFINE S == {records[k] : k \in 1 .. Len(records)}
  <1>1. records \in Seq(S)
    BY DEF RingTyped
  <1>2. Greater(1, n) \in Nat \ {0}
    BY HistoryAssumption DEF Greater
  <1>3. records' = Kept(records, Greater(1, n)) /\ capacity' = Greater(1, n)
    BY DEF SetCapacity
  <1> HIDE DEF S
  <1>4. /\ records' \in Seq(S)
        /\ \A k \in 1 .. Len(records') : \E j \in 1 .. Len(records) : records'[k] = records[j]
    <2> DEFINE room == Greater(1, n)
    <2>1. room \in Nat \ {0} /\ records' = Kept(records, room)
      BY <1>2, <1>3
    <2> HIDE DEF room
    <2>2. QED
      BY <1>1, <2>1, KeptIsPart
  <1>5. Len(records') \in Nat /\ records' \in Seq({records'[k] : k \in 1 .. Len(records')})
    BY <1>4, OfItsEntries
  <1>6. QED
    BY <1>2, <1>3, <1>4, <1>5 DEF RingTyped

\* clear leaves none.
LEMMA ClearEmpties ==
    ASSUME RingTyped, Clear
    PROVE  RingTyped' /\ Len(records') = 0
  BY DEF RingTyped, Clear
-----------------------------------------------------------------------------
(* What a decision says.                                                   *)

\* A refusal.
LEMMA RefusedFields ==
    ASSUME NEW k \in 1 .. 22, NEW s, NEW r, NEW d
    PROVE  LET a == Decided(k, s, r, d)
           IN  /\ a.outcome = Verdict(Order[k])[1] /\ a.axis = Verdict(Order[k])[2]
               /\ a.epoch \in {None, s.epoch}
  BY Rules, Places DEF Decided, Refused, RecordedAt, Blank

\* A grant.
LEMMA GrantedFields ==
    ASSUME NEW s, NEW r, NEW d
    PROVE  LET a == Decided(23, s, r, d)
               cp == CollectivePolicy(s, d)
               tp == ClassPolicy(s, r, d)
           IN  /\ a.outcome = IF a.traffic = "isolated" THEN "isolated" ELSE "admitted"
               /\ a.axis = "none" /\ a.instance = r.instance /\ a.at = s.now
               /\ a.traffic = TrafficClass(s, r, d) /\ a.epoch = s.epoch
               /\ a.policy = s.policy.gen /\ a.topology = s.topology.gen
               /\ a.capacity = Generation(s.capacity) /\ a.congestion = Generation(s.congestion)
               /\ a.rate = Rate(Proposed(s, cp, tp), tp)
               /\ a.burst = Burst(a.rate, s.policy.burst_multiplier, tp)
  BY Rules, Places DEF Decided, Granted, RecordedAt, Blank

\* A request is granted exactly when no rule refuses it; otherwise some rule does
\* that no other precedes, and its verdict is the answer.
LEMMA EvaluateAnswers ==
    ASSUME NEW s, NEW r, NEW d
    PROVE  LET a == Evaluate(s, r, d)
           IN  \/ /\ Grants(a.outcome) /\ a = Decided(23, s, r, d)
                  /\ \A j \in 1 .. 22 : ~Refuses(Order[j], s, r, d)
               \/ \E k \in 1 .. 22 :
                    /\ ~Grants(a.outcome) /\ a = Decided(k, s, r, d)
                    /\ Refuses(Order[k], s, r, d)
                    /\ \A j \in 1 .. k - 1 : ~Refuses(Order[j], s, r, d)
  <1> DEFINE k == FirstRefusal(s, r, d)
  <1>1. /\ k \in 1 .. 23
        /\ k <= 22 => Refuses(Order[k], s, r, d)
        /\ \A j \in 1 .. k - 1 : ~Refuses(Order[j], s, r, d)
    BY FirstIsFirst
  <1>2. Evaluate(s, r, d) = Decided(k, s, r, d)
    BY DEF Evaluate
  <1> HIDE DEF k
  <1>3. CASE k \in 1 .. 22
    <2>1. ~Grants(Decided(k, s, r, d).outcome)
      BY <1>3, RefusedFields, VerdictsRefuse
    <2>2. QED
      BY <1>1, <1>2, <1>3, <2>1
  <1>4. CASE k = 23
    <2>1. Grants(Decided(23, s, r, d).outcome)
      BY GrantedFields DEF Grants
    <2>2. \A j \in 1 .. 22 : ~Refuses(Order[j], s, r, d)
      BY <1>1, <1>4
    <2>3. QED
      BY <1>2, <1>4, <2>1, <2>2
  <1>5. QED
    BY <1>1, <1>3, <1>4

\* A decision names no epoch, or the one of its snapshot.
LEMMA EpochDecided ==
    ASSUME NEW s, NEW r, NEW d
    PROVE  Evaluate(s, r, d).epoch \in {None, s.epoch}
  <1>1. CASE Evaluate(s, r, d) = Decided(23, s, r, d)
    BY <1>1, GrantedFields
  <1>2. CASE \E k \in 1 .. 22 : Evaluate(s, r, d) = Decided(k, s, r, d)
    BY <1>2, RefusedFields
  <1>3. QED
    BY <1>1, <1>2, EvaluateAnswers

-----------------------------------------------------------------------------
(* The snapshot.                                                           *)

\* What the snapshot holds of an axis is what its generation brings.
LEMMA SnapshotHolds ==
    ASSUME Typed, NEW t
    PROVE  LET s == Snapshot(t)
           IN  /\ s.epoch = auth.epoch /\ s.now = t /\ s.peers = auth.peers
               /\ s.policy = None <=> auth.policy = None
               /\ auth.policy # None => /\ auth.policy \in DOMAIN PolicyOf
                                        /\ s.policy = PolicyOf[auth.policy]
                                        /\ s.policy.gen = auth.policy
               /\ s.topology = None <=> auth.topology = None
               /\ auth.topology # None => /\ auth.topology \in DOMAIN TopologyOf
                                          /\ s.topology = TopologyOf[auth.topology]
                                          /\ s.topology.gen = auth.topology
               /\ s.capacity = None <=> auth.capacity = None
               /\ auth.capacity # None => /\ s.capacity = Measured(CapacityOf[auth.capacity])
                                          /\ s.capacity \in Evidence(DOMAIN CapacityOf)
                                          /\ s.capacity.gen = auth.capacity
               /\ s.congestion = None <=> auth.congestion = None
               /\ auth.congestion # None =>
                    /\ s.congestion = Measured(CongestionOf[auth.congestion])
                    /\ s.congestion \in Evidence(DOMAIN CongestionOf)
                    /\ s.congestion.gen = auth.congestion
                    /\ s.congestion.captured = CongestionOf[auth.congestion].captured
                    /\ s.congestion.valid_for = CongestionOf[auth.congestion].valid_for
  <1> DEFINE s == Snapshot(t)
  <1>1. /\ auth.policy \in {None} \cup DOMAIN PolicyOf
        /\ auth.topology \in {None} \cup DOMAIN TopologyOf
        /\ auth.capacity \in {None} \cup DOMAIN CapacityOf
        /\ auth.congestion \in {None} \cup DOMAIN CongestionOf
        /\ auth.topology = None => auth.capacity = None /\ auth.congestion = None
    BY DEF Typed, AuthorityState, Anchored
  <1>2. /\ s.epoch = auth.epoch /\ s.now = t /\ s.peers = auth.peers
        /\ s.policy = Installed(PolicyOf, auth.policy)
        /\ s.topology = Installed(TopologyOf, auth.topology)
        /\ s.capacity = IF auth.capacity = None THEN None ELSE Measured(CapacityOf[auth.capacity])
        /\ s.congestion = IF auth.congestion = None THEN None
                          ELSE Measured(CongestionOf[auth.congestion])
    BY DEF Snapshot
  <1>3. ASSUME auth.capacity # None
        PROVE  /\ Measured(CapacityOf[auth.capacity]) \in Evidence(DOMAIN CapacityOf)
               /\ Measured(CapacityOf[auth.capacity]).gen = auth.capacity
    BY <1>1, <1>3, EvidenceValid DEF Measured, Evidence
  <1>4. ASSUME auth.congestion # None
        PROVE  /\ Measured(CongestionOf[auth.congestion]) \in Evidence(DOMAIN CongestionOf)
               /\ Measured(CongestionOf[auth.congestion]).gen = auth.congestion
               /\ Measured(CongestionOf[auth.congestion]).captured
                    = CongestionOf[auth.congestion].captured
               /\ Measured(CongestionOf[auth.congestion]).valid_for
                    = CongestionOf[auth.congestion].valid_for
    BY <1>1, <1>4, EvidenceValid DEF Measured, Evidence
  <1> HIDE DEF s
  <1>5. /\ s.policy = None <=> auth.policy = None
        /\ auth.policy # None => /\ auth.policy \in DOMAIN PolicyOf
                                 /\ s.policy = PolicyOf[auth.policy]
                                 /\ s.policy.gen = auth.policy
    BY <1>1, <1>2, PoliciesValid DEF Installed
  <1>6. /\ s.topology = None <=> auth.topology = None
        /\ auth.topology # None => /\ auth.topology \in DOMAIN TopologyOf
                                   /\ s.topology = TopologyOf[auth.topology]
                                   /\ s.topology.gen = auth.topology
    BY <1>1, <1>2, TopologiesValid DEF Installed
  <1>7. /\ s.capacity = None <=> auth.capacity = None
        /\ auth.capacity # None => /\ s.capacity = Measured(CapacityOf[auth.capacity])
                                   /\ s.capacity \in Evidence(DOMAIN CapacityOf)
                                   /\ s.capacity.gen = auth.capacity
    BY <1>2, <1>3, EvidenceValid
  <1>8. /\ s.congestion = None <=> auth.congestion = None
        /\ auth.congestion # None => /\ s.congestion = Measured(CongestionOf[auth.congestion])
                                     /\ s.congestion \in Evidence(DOMAIN CongestionOf)
                                     /\ s.congestion.gen = auth.congestion
    BY <1>2, <1>4, EvidenceValid
  <1>9. QED
    BY <1>2, <1>4, <1>5, <1>6, <1>7, <1>8 DEF s

\* What each rule asks, and that it asks it in its place.
LEMMA RulesSay ==
    ASSUME NEW s, NEW r, NEW d
    PROVE  /\ Refuses(Order[1], s, r, d) <=>
                (r.instance.gen # d.gen)
           /\ Refuses(Order[2], s, r, d) <=>
                (r.plan = None)
           /\ Refuses(Order[3], s, r, d) <=>
                (~ValidPlan(r.plan, d.participants))
           /\ Refuses(Order[4], s, r, d) <=>
                (Stale(r.observed.epoch, s.epoch))
           /\ Refuses(Order[5], s, r, d) <=>
                (Stale(r.observed.policy, Generation(s.policy)))
           /\ Refuses(Order[6], s, r, d) <=>
                (s.policy = None)
           /\ Refuses(Order[7], s, r, d) <=>
                (s.capacity # None /\ Stale(r.observed.capacity, s.capacity.gen))
           /\ Refuses(Order[8], s, r, d) <=>
                (s.congestion # None /\ Stale(r.observed.congestion, s.congestion.gen))
           /\ Refuses(Order[9], s, r, d) <=>
                (Stale(r.observed.topology, Generation(s.topology)))
           /\ Refuses(Order[10], s, r, d) <=>
                (s.topology = None)
           /\ Refuses(Order[11], s, r, d) <=>
                (\E p \in d.participants : ~Live(s, p))
           /\ Refuses(Order[12], s, r, d) <=>
                (Age(s, s.topology) > TopologyMaxAge)
           /\ Refuses(Order[13], s, r, d) <=>
                (\E p \in d.participants : s.peers[p].node \notin s.topology.nodes)
           /\ Refuses(Order[14], s, r, d) <=>
                (CollectivePolicy(s, d) = None)
           /\ Refuses(Order[15], s, r, d) <=>
                (~KnownClass(d.class))
           /\ Refuses(Order[16], s, r, d) <=>
                (r.requested # None /\ ~CollectivePolicy(s, d).override)
           /\ Refuses(Order[17], s, r, d) <=>
                (r.requested # None /\ ~Classified(r.requested))
           /\ Refuses(Order[18], s, r, d) <=>
                (~Classified(TrafficClass(s, r, d)))
           /\ Refuses(Order[19], s, r, d) <=>
                (ClassPolicy(s, r, d) = None)
           /\ Refuses(Order[20], s, r, d) <=>
                (ClassPolicy(s, r, d).fresh /\ s.congestion = None)
           /\ Refuses(Order[21], s, r, d) <=>
                (/\ ClassPolicy(s, r, d).fresh
                  /\ Age(s, s.congestion) > Smaller(s.congestion.valid_for, CollectivePolicy(s, d).freshness))
           /\ Refuses(Order[22], s, r, d) <=>
                (BelowFloor(s, CollectivePolicy(s, d), ClassPolicy(s, r, d)))
  <1>1. Refuses("generation", s, r, d) <=> (r.instance.gen # d.gen)
    BY Zenon DEF Refuses
  <1>2. Refuses("no_plan", s, r, d) <=> (r.plan = None)
    BY Zenon DEF Refuses
  <1>3. Refuses("plan", s, r, d) <=> (~ValidPlan(r.plan, d.participants))
    BY Zenon DEF Refuses
  <1>4. Refuses("epoch", s, r, d) <=> (Stale(r.observed.epoch, s.epoch))
    BY Zenon DEF Refuses
  <1>5. Refuses("policy", s, r, d) <=> (Stale(r.observed.policy, Generation(s.policy)))
    BY Zenon DEF Refuses
  <1>6. Refuses("no_policy", s, r, d) <=> (s.policy = None)
    BY Zenon DEF Refuses
  <1>7. Refuses("capacity", s, r, d) <=> (s.capacity # None /\ Stale(r.observed.capacity, s.capacity.gen))
    BY Zenon DEF Refuses
  <1>8. Refuses("congestion", s, r, d) <=> (s.congestion # None /\ Stale(r.observed.congestion, s.congestion.gen))
    BY Zenon DEF Refuses
  <1>9. Refuses("topology", s, r, d) <=> (Stale(r.observed.topology, Generation(s.topology)))
    BY Zenon DEF Refuses
  <1>10. Refuses("no_topology", s, r, d) <=> (s.topology = None)
    BY Zenon DEF Refuses
  <1>11. Refuses("liveness", s, r, d) <=> (\E p \in d.participants : ~Live(s, p))
    BY Zenon DEF Refuses
  <1>12. Refuses("topology_age", s, r, d) <=> (Age(s, s.topology) > TopologyMaxAge)
    BY Zenon DEF Refuses
  <1>13. Refuses("node", s, r, d) <=> (\E p \in d.participants : s.peers[p].node \notin s.topology.nodes)
    BY Zenon DEF Refuses
  <1>14. Refuses("collective_unstated", s, r, d) <=> (CollectivePolicy(s, d) = None)
    BY Zenon DEF Refuses
  <1>15. Refuses("class_unknown", s, r, d) <=> (~KnownClass(d.class))
    BY Zenon DEF Refuses
  <1>16. Refuses("override", s, r, d) <=> (r.requested # None /\ ~CollectivePolicy(s, d).override)
    BY Zenon DEF Refuses
  <1>17. Refuses("override_unclassified", s, r, d) <=> (r.requested # None /\ ~Classified(r.requested))
    BY Zenon DEF Refuses
  <1>18. Refuses("unclassified", s, r, d) <=> (~Classified(TrafficClass(s, r, d)))
    BY Zenon DEF Refuses
  <1>19. Refuses("class_unstated", s, r, d) <=> (ClassPolicy(s, r, d) = None)
    BY Zenon DEF Refuses
  <1>20. Refuses("no_congestion", s, r, d) <=> (ClassPolicy(s, r, d).fresh /\ s.congestion = None)
    BY Zenon DEF Refuses
  <1>21. Refuses("congestion_age", s, r, d) <=>
           (/\ ClassPolicy(s, r, d).fresh
            /\ Age(s, s.congestion) > Smaller(s.congestion.valid_for, CollectivePolicy(s, d).freshness))
    BY Zenon DEF Refuses
  <1>22. Refuses("floor", s, r, d) <=> (BelowFloor(s, CollectivePolicy(s, d), ClassPolicy(s, r, d)))
    BY Zenon DEF Refuses
  <1>23. QED
    BY Rules, <1>1, <1>2, <1>3, <1>4, <1>5, <1>6, <1>7, <1>8, <1>9, <1>10, <1>11, <1>12,
       <1>13, <1>14, <1>15, <1>16, <1>17, <1>18, <1>19, <1>20, <1>21, <1>22

\* What a request that reaches the engine is about.
LEMMA Reaching ==
    ASSUME Typed, NEW r, ReachesEngine(r)
    PROVE  /\ record \in CollectiveRecord /\ record.gen = r.instance.gen
           /\ record.gen \in DOMAIN Definitions
           /\ record.attempt = r.instance.attempt /\ record.state \notin Terminal
  <1>1. /\ ~(record = None \/ record.gen # r.instance.gen)
        /\ ~(record.attempt = None \/ record.attempt # r.instance.attempt)
        /\ ~(record.state \in Terminal)
    BY DEF ReachesEngine, EarlyAxis
  <1>2. record \in CollectiveRecord
    BY <1>1 DEF Typed
  <1>3. record.gen \in DOMAIN Definitions
    BY <1>2, PlanningAssumption DEF CollectiveRecord
  <1>4. QED
    BY <1>1, <1>2, <1>3

\* The rate before floor and ceiling follows from the time, the policy and what
\* is in force on the three evidence axes.
LEMMA ProposedFollows ==
    ASSUME NEW s, NEW u, NEW cp, NEW tp,
           s.now = u.now, s.policy = u.policy, s.topology = u.topology,
           s.capacity = u.capacity, s.congestion = u.congestion
    PROVE  Proposed(s, cp, tp) = Proposed(u, cp, tp)
  <1>1. Available(s) = Available(u)
    BY DEF Available, CapacityUsed, Usable, Age
  <1>2. Utilization(s, cp) = Utilization(u, cp)
    BY DEF Utilization, CongestionUsed, CongestionBound, Usable, Age
  <1>3. QED
    BY <1>1, <1>2 DEF Proposed

\* A grant names every generation in force, and its terms follow from them.
LEMMA GrantBinds ==
    ASSUME Typed, NEW r, NEW t, ReachesEngine(r),
           Grants(Evaluate(Snapshot(t), r, Definitions[record.gen]).outcome)
    PROVE  LET a == Evaluate(Snapshot(t), r, Definitions[record.gen])
           IN  /\ TermsFollow(a)
               /\ a.at = t /\ a.instance = r.instance
               /\ a.epoch = auth.epoch /\ a.policy = auth.policy /\ a.topology = auth.topology
               /\ a.capacity = auth.capacity /\ a.congestion = auth.congestion
  <1> DEFINE s == Snapshot(t)
             d == Definitions[record.gen]
             a == Evaluate(s, r, d)
             cp == CollectivePolicy(s, d)
             tp == ClassPolicy(s, r, d)
  <1>1. a = Decided(23, s, r, d) /\ \A j \in 1 .. 22 : ~Refuses(Order[j], s, r, d)
    BY EvaluateAnswers
  <1>2. s.policy # None /\ s.topology # None
    <2>1. ~Refuses(Order[6], s, r, d) /\ ~Refuses(Order[10], s, r, d)
      BY <1>1
    <2>2. QED
      BY <2>1, RulesSay
  <1>3. /\ s.epoch = auth.epoch /\ s.now = t
        /\ s.policy = PolicyOf[auth.policy] /\ s.policy.gen = auth.policy
        /\ s.topology = TopologyOf[auth.topology] /\ s.topology.gen = auth.topology
        /\ Generation(s.capacity) = auth.capacity
        /\ Generation(s.congestion) = auth.congestion
        /\ s.capacity = IF auth.capacity = None THEN None ELSE Measured(CapacityOf[auth.capacity])
        /\ s.congestion = IF auth.congestion = None THEN None
                          ELSE Measured(CongestionOf[auth.congestion])
    BY <1>2, SnapshotHolds DEF Generation
  <1>4. record.gen = r.instance.gen
    BY Reaching
  <1> HIDE DEF s, d
  <1>5. /\ a.instance = r.instance /\ a.at = s.now
        /\ a.traffic = TrafficClass(s, r, d) /\ a.epoch = s.epoch
        /\ a.policy = s.policy.gen /\ a.topology = s.topology.gen
        /\ a.capacity = Generation(s.capacity) /\ a.congestion = Generation(s.congestion)
        /\ a.rate = Rate(Proposed(s, cp, tp), tp)
        /\ a.burst = Burst(a.rate, s.policy.burst_multiplier, tp)
    BY <1>1, GrantedFields
  <1> HIDE DEF a
  <1>6. /\ a.policy = auth.policy /\ a.topology = auth.topology
        /\ a.capacity = auth.capacity /\ a.congestion = auth.congestion /\ a.at = t
    BY <1>3, <1>5
  <1> DEFINE b == Behind(a)
  <1>7. /\ b.now = s.now /\ b.policy = s.policy /\ b.topology = s.topology
        /\ b.capacity = s.capacity /\ b.congestion = s.congestion
    BY <1>3, <1>6 DEF Behind, Measured
  <1>8. /\ b.policy.collectives[Definitions[a.instance.gen].class] = cp
        /\ b.policy.classes[a.traffic] = tp
    BY <1>4, <1>5, <1>7 DEF CollectivePolicy, ClassPolicy, d
  <1> HIDE DEF b, cp, tp
  <1>9. Proposed(b, cp, tp) = Proposed(s, cp, tp)
    BY <1>7, ProposedFollows
  <1>10. TermsFollow(a)
    BY <1>5, <1>7, <1>8, <1>9 DEF TermsFollow, b
  <1>11. QED
    BY <1>3, <1>5, <1>6, <1>10 DEF a, s, d
-----------------------------------------------------------------------------
(* Types.                                                                  *)

\* Installing on an axis keeps the authority state well formed.
LEMMA InstallTyped ==
    ASSUME Typed, NEW axis, NEW g, Install(axis, g),
           \/ axis = "policy" /\ g \in DOMAIN PolicyOf
           \/ axis = "capacity" /\ g \in DOMAIN CapacityOf
           \/ axis = "congestion" /\ g \in DOMAIN CongestionOf
    PROVE  auth' \in AuthorityState /\ Anchored(auth')
  <1>1. auth \in AuthorityState /\ Anchored(auth) /\ auth' = [auth EXCEPT ![axis] = g]
    BY DEF Typed, Install
  <1>2. axis \in {"capacity", "congestion"} => auth.topology # None
    BY DEF Install
  <1>3. CASE axis = "policy" /\ g \in DOMAIN PolicyOf
    BY <1>1, <1>3 DEF AuthorityState, Anchored
  <1>4. CASE axis = "capacity" /\ g \in DOMAIN CapacityOf
    BY <1>1, <1>2, <1>4 DEF AuthorityState, Anchored
  <1>5. CASE axis = "congestion" /\ g \in DOMAIN CongestionOf
    BY <1>1, <1>2, <1>5 DEF AuthorityState, Anchored
  <1>6. QED
    BY <1>3, <1>4, <1>5

\* Dropping the evidence leaves a state that is anchored whatever topology comes.
LEMMA DroppedTyped ==
    ASSUME Typed
    PROVE  /\ EvidenceDropped \in AuthorityState
           /\ EvidenceDropped.capacity = None /\ EvidenceDropped.congestion = None
           /\ EvidenceDropped.topology = auth.topology /\ EvidenceDropped.epoch = auth.epoch
           /\ EvidenceDropped.policy = auth.policy /\ EvidenceDropped.peers = auth.peers
  BY DEF Typed, EvidenceDropped, AuthorityState

\* Every step keeps the state well formed.
LEMMA TypedStep ==
    ASSUME Typed, [PlanningNext]_planningVars
    PROVE  Typed'
  <1>0. /\ now \in Nat /\ running \in BOOLEAN /\ changes \in Nat
        /\ auth \in AuthorityState /\ Anchored(auth)
        /\ record \in {None} \cup CollectiveRecord
    BY DEF Typed
  <1>1. CASE Plan
    <2>1. UNCHANGED <<running, auth, now, changes>>
      BY <1>1 DEF Plan, PlanRefusedEarly, PlanDecided
    <2>2. record' = record \/ (record # None /\ record' = [record EXCEPT !.state = "active"])
      BY <1>1 DEF Plan, PlanRefusedEarly, PlanDecided, EarlyAxis
    <2>3. record' \in {None} \cup CollectiveRecord
      BY <1>0, <2>2 DEF CollectiveRecord
    <2>4. QED
      BY <1>0, <2>1, <2>3 DEF Typed
  <1>2. CASE PlanBinds
    BY <1>2 DEF PlanBinds, Typed
  <1>3. CASE RegisterCollective
    <2>1. record' \in CollectiveRecord
      BY <1>0, <1>3, PlanningAssumption DEF RegisterCollective, CollectiveRecord
    <2>2. QED
      BY <1>0, <1>3, <2>1 DEF RegisterCollective, Change, Typed
  <1>4. CASE \E a \in Attempts : BeginAttempt(a)
    <2>1. record' \in CollectiveRecord
      BY <1>0, <1>4 DEF BeginAttempt, CollectiveRecord
    <2>2. QED
      BY <1>0, <1>4, <2>1 DEF BeginAttempt, Change, Typed
  <1>5. CASE \E state \in Terminal : CloseCollective(state)
    <2>1. record' \in CollectiveRecord
      BY <1>0, <1>5 DEF CloseCollective, CollectiveRecord, Terminal
    <2>2. QED
      BY <1>0, <1>5, <2>1 DEF CloseCollective, Change, Typed
  <1>6. CASE \/ \E g \in DOMAIN PolicyOf : Install("policy", g)
             \/ \E g \in DOMAIN CapacityOf : Install("capacity", g)
             \/ \E g \in DOMAIN CongestionOf : Install("congestion", g)
    <2>1. auth' \in AuthorityState /\ Anchored(auth')
      BY <1>6, InstallTyped
    <2>2. UNCHANGED <<running, record, now>> /\ changes' = changes + 1
      BY <1>6 DEF Install, Change
    <2>3. QED
      BY <1>0, <2>1, <2>2 DEF Typed
  <1>7. CASE \E g \in DOMAIN TopologyOf : InstallTopology(g)
    <2>1. PICK g \in DOMAIN TopologyOf : InstallTopology(g)
      BY <1>7
    <2>2. auth' = [EvidenceDropped EXCEPT !.topology = g]
      BY <2>1 DEF InstallTopology
    <2>3. auth' \in AuthorityState /\ Anchored(auth')
      BY <2>2, DroppedTyped DEF AuthorityState, Anchored
    <2>4. QED
      BY <1>0, <2>1, <2>3 DEF InstallTopology, Change, Typed
  <1>8. CASE \E p \in Participants : Publish(p)
    <2>1. PICK p \in Participants : Publish(p)
      BY <1>8
    <2> DEFINE f == [auth.peers EXCEPT ![p] = [state |-> "live", expires |-> now + Ttl,
                                               node |-> NodeOf[p]]]
    <2>2. auth' = [auth EXCEPT !.peers = f]
      BY <1>0, <2>1 DEF Publish, AuthorityState
    <2>3. f \in [Participants -> Peer]
      BY <1>0, PlanningAssumption DEF AuthorityState, Peer
    <2> HIDE DEF f
    <2>4. auth' \in AuthorityState /\ Anchored(auth')
      BY <1>0, <2>2, <2>3 DEF AuthorityState, Anchored
    <2>5. QED
      BY <1>0, <2>1, <2>4 DEF Publish, Change, Typed
  <1>9. CASE \E p \in Participants : Fence(p)
    <2>1. PICK p \in Participants : Fence(p)
      BY <1>9
    <2> DEFINE f == [auth.peers EXCEPT ![p] = [auth.peers[p] EXCEPT !.state = "fenced",
                                                                    !.expires = now]]
    <2>2. auth' = [auth EXCEPT !.peers = f]
      BY <1>0, <2>1 DEF Fence, AuthorityState
    <2>3. f \in [Participants -> Peer]
      BY <1>0 DEF AuthorityState, Peer
    <2> HIDE DEF f
    <2>4. auth' \in AuthorityState /\ Anchored(auth')
      BY <1>0, <2>2, <2>3 DEF AuthorityState, Anchored
    <2>5. QED
      BY <1>0, <2>1, <2>4 DEF Fence, Change, Typed
  <1>10. CASE \E n \in Capacities : Resize(n)
    BY <1>0, <1>10 DEF Resize, Change, Typed
  <1>11. CASE StopService
    <2> DEFINE f == [p \in Participants |-> IF auth.peers[p].state = "absent" THEN NotLive
                                            ELSE [auth.peers[p] EXCEPT !.state = "fenced",
                                                                       !.expires = now]]
    <2>1. auth' = [EvidenceDropped EXCEPT !.peers = f]
      BY <1>11 DEF StopService
    <2>2. f \in [Participants -> Peer]
      <3>1. auth.peers \in [Participants -> Peer]
        BY <1>0 DEF AuthorityState
      <3>2. NotLive \in Peer /\ \A x \in Peer : [x EXCEPT !.state = "fenced", !.expires = now] \in Peer
        BY <1>0 DEF NotLive, Peer
      <3>3. QED
        BY <3>1, <3>2
    <2> HIDE DEF f
    <2>3. auth' \in AuthorityState /\ Anchored(auth')
      BY <2>1, <2>2, DroppedTyped DEF AuthorityState, Anchored
    <2>4. running' = FALSE /\ record' = record /\ now' = now /\ changes' = changes + 1
      BY <1>11 DEF StopService, Change
    <2>5. running' \in BOOLEAN
      BY <2>4, Zenon
    <2>6. record' \in {None} \cup CollectiveRecord /\ now' \in Nat /\ changes' \in Nat
      BY <1>0, <2>4
    <2>7. QED
      BY <2>3, <2>5, <2>6 DEF Typed
  <1>12. CASE StartService
    <2> DEFINE f == [p \in Participants |-> NotLive]
    <2>1. auth' = [EvidenceDropped EXCEPT !.epoch = @ + 1, !.peers = f]
      BY <1>12 DEF StartService
    <2>2. f \in [Participants -> Peer]
      BY DEF NotLive, Peer
    <2>3. auth.epoch + 1 \in 1 .. MaxEpoch
      BY <1>0, <1>12, PlanningAssumption DEF StartService, AuthorityState
    <2> HIDE DEF f
    <2>4. auth' \in AuthorityState /\ Anchored(auth')
      BY <2>1, <2>2, <2>3, DroppedTyped DEF AuthorityState, Anchored
    <2>5. QED
      BY <1>0, <1>12, <2>4 DEF StartService, Change, Typed
  <1>13. CASE Tick
    BY <1>0, <1>13 DEF Tick, Typed
  <1>14. CASE UNCHANGED planningVars
    BY <1>14 DEF planningVars, Typed
  <1>15. QED
    BY <1>1, <1>2, <1>3, <1>4, <1>5, <1>6, <1>7, <1>8, <1>9, <1>10, <1>11, <1>12, <1>13, <1>14
       DEF PlanningNext
-----------------------------------------------------------------------------
(* Invariance.                                                             *)

\* The decisions a step may record: of this boot, and with terms that follow.
Recordable(d) ==
    d.epoch \in {None, auth.epoch} /\ (Grants(d.outcome) => TermsFollow(d))

\* Whatever admission answers, what is recorded is recordable.
LEMMA AdmittedRecordable ==
    ASSUME NEW d, Recordable(d), NEW a \in AdmissionAnswers(d),
           DOMAIN d = {"instance", "outcome", "axis", "at", "group", "traffic", "epoch", "policy",
                       "topology", "capacity", "congestion", "mode", "rate", "burst", "release",
                       "sync"}
    PROVE  Recordable(Admitted(d, a[1], a[2]))
  <1>1. PICK answer, wait : answer = a[1] /\ wait = a[2]
    OBVIOUS
  <1>2. answer \in {"granted", "rate_limited", "clock_regression", "table_full"}
    BY <1>1 DEF AdmissionAnswers
  <1>3. CASE answer = "granted"
    BY <1>1, <1>3 DEF Admitted
  <1>4. CASE answer = "rate_limited"
    <2>1. Admitted(d, answer, wait) = [d EXCEPT !.outcome = "rate_limited", !.release = d.at + wait]
      BY <1>4 DEF Admitted
    <2>2. /\ Admitted(d, answer, wait).epoch = d.epoch
          /\ Admitted(d, answer, wait).outcome = "rate_limited"
      BY <2>1
    <2>3. QED
      BY <1>1, <2>2 DEF Recordable, Grants
  <1>5. CASE answer = "clock_regression"
    <2>1. Admitted(d, answer, wait) = [d EXCEPT !.outcome = "deferred"]
      BY <1>5 DEF Admitted
    <2>2. /\ Admitted(d, answer, wait).epoch = d.epoch
          /\ Admitted(d, answer, wait).outcome = "deferred"
      BY <2>1
    <2>3. QED
      BY <1>1, <2>2 DEF Recordable, Grants
  <1>6. CASE answer = "table_full"
    <2>1. Admitted(d, answer, wait) = [d EXCEPT !.outcome = "rejected_capacity",
                                                !.axis = "capacity_evidence"]
      BY <1>6 DEF Admitted
    <2>2. /\ Admitted(d, answer, wait).epoch = d.epoch
          /\ Admitted(d, answer, wait).outcome = "rejected_capacity"
      BY <2>1
    <2>3. QED
      BY <1>1, <2>2 DEF Recordable, Grants
  <1>7. QED
    BY <1>2, <1>3, <1>4, <1>5, <1>6

\* What the service answers before it asks the engine is recordable.
LEMMA EarlyRecordable ==
    ASSUME NEW r, NEW t, NEW axis
    PROVE  Recordable(RefusedRecord(r, t, "rejected_stale", axis))
  <1>1. /\ RefusedRecord(r, t, "rejected_stale", axis).epoch = None
        /\ RefusedRecord(r, t, "rejected_stale", axis).outcome = "rejected_stale"
    BY DEF RefusedRecord, Refused, Blank
  <1>2. QED
    BY <1>1 DEF Recordable, Grants

\* And so is what the engine decides, with the fields every record has.
LEMMA DecidedRecordable ==
    ASSUME Typed, NEW r, NEW t, ReachesEngine(r)
    PROVE  LET d == Evaluate(Snapshot(t), r, Definitions[record.gen])
           IN  /\ Recordable(d)
               /\ DOMAIN d = {"instance", "outcome", "axis", "at", "group", "traffic", "epoch",
                              "policy", "topology", "capacity", "congestion", "mode", "rate",
                              "burst", "release", "sync"}
  <1>1. /\ Evaluate(Snapshot(t), r, Definitions[record.gen]).epoch \in {None, auth.epoch}
        /\ Grants(Evaluate(Snapshot(t), r, Definitions[record.gen]).outcome) =>
             TermsFollow(Evaluate(Snapshot(t), r, Definitions[record.gen]))
    <2>1. Snapshot(t).epoch = auth.epoch
      BY DEF Snapshot
    <2>2. QED
      BY <2>1, EpochDecided, GrantBinds
  <1>2. ASSUME NEW k, NEW s, NEW d
        PROVE  DOMAIN Decided(k, s, r, d) =
                 {"instance", "outcome", "axis", "at", "group", "traffic", "epoch", "policy",
                  "topology", "capacity", "congestion", "mode", "rate", "burst", "release", "sync"}
    BY DEF Decided, Refused, Granted, RecordedAt, Blank
  <1>3. QED
    BY <1>1, <1>2 DEF Evaluate, Recordable

\* Recording something recordable while the service runs keeps the history right.
LEMMA RecordKeeps ==
    ASSUME IInv, NEW d, NEW c, Record(d, c), Recordable(d), running, running' = running, auth' = auth
    PROVE  (RingTyped /\ LogCanBeAudited)'
  <1>1. /\ RingTyped'
        /\ \A k \in 1 .. Len(records') :
              \/ records'[k].decision = d
              \/ \E j \in 1 .. Len(records) : records'[k] = records[j]
    BY RecordAdds DEF IInv
  <1>2. DOMAIN records = 1 .. Len(records) /\ DOMAIN records' = 1 .. Len(records')
    BY <1>1 DEF IInv, RingTyped
  <1>3. ASSUME NEW j \in 1 .. Len(records) PROVE Recordable(records[j].decision)
    BY <1>2 DEF IInv, LogCanBeAudited, Recordable
  <1>4. ASSUME NEW k \in 1 .. Len(records') PROVE Recordable(records'[k].decision)
    BY <1>1, <1>3
  <1>5. LogCanBeAudited'
    BY <1>2, <1>4 DEF LogCanBeAudited, Recordable
  <1>6. QED
    BY <1>1, <1>5

\* A step that leaves the ring, the boot and whether it runs alone keeps them too.
LEMMA HistoryUntouched ==
    ASSUME IInv, records' = records, capacity' = capacity, running' = running,
           auth'.epoch = auth.epoch
    PROVE  (RingTyped /\ LogCanBeAudited)'
  BY DEF IInv, RingTyped, LogCanBeAudited

\* Every step keeps the inductive invariant.
LEMMA InvariantStep ==
    ASSUME IInv, [PlanningNext]_planningVars
    PROVE  IInv'
  <1> DEFINE Past == RingTyped /\ LogCanBeAudited
  <1>0. Typed /\ Typed'
    BY TypedStep DEF IInv
  <1> SUFFICES Past'
    BY <1>0 DEF IInv
  <1>a. auth \in AuthorityState
    BY <1>0 DEF Typed
  <1>1. CASE Plan
    <2>1. PICK r \in Requests(auth.epoch), t \in 0 .. now :
             PlanRefusedEarly(r, t) \/ \E c \in Correlation \cup {None} : PlanDecided(r, t, c)
      BY <1>1 DEF Plan
    <2>2. CASE PlanRefusedEarly(r, t)
      <3>1. /\ running /\ running' = running /\ auth' = auth
            /\ Record(RefusedRecord(r, t, "rejected_stale", EarlyAxis(r)), None)
        BY <2>2 DEF PlanRefusedEarly
      <3>2. QED
        BY <3>1, EarlyRecordable, RecordKeeps
    <2>3. CASE \E c \in Correlation \cup {None} : PlanDecided(r, t, c)
      <3> DEFINE d == Evaluate(Snapshot(t), r, Definitions[record.gen])
      <3>1. PICK c \in Correlation \cup {None} : PlanDecided(r, t, c)
        BY <2>3
      <3>2. running /\ running' = running /\ auth' = auth /\ ReachesEngine(r)
        BY <3>1 DEF PlanDecided, ReachesEngine
      <3>3. \/ Record(d, c)
            \/ \E a \in AdmissionAnswers(d) : Record(Admitted(d, a[1], a[2]), c)
        BY <3>1 DEF PlanDecided
      <3>4. /\ Recordable(d)
            /\ DOMAIN d = {"instance", "outcome", "axis", "at", "group", "traffic", "epoch",
                           "policy", "topology", "capacity", "congestion", "mode", "rate",
                           "burst", "release", "sync"}
        BY <1>0, <3>2, DecidedRecordable
      <3> HIDE DEF d
      <3>5. PICK x : Record(x, c) /\ Recordable(x)
        BY <3>3, <3>4, AdmittedRecordable
      <3>6. QED
        BY <3>2, <3>5, RecordKeeps
    <2>4. QED
      BY <2>1, <2>2, <2>3
  <1>2. CASE PlanBinds
    <2>1. records' = records /\ capacity' = capacity /\ running' = running /\ auth' = auth
      BY <1>2 DEF PlanBinds, BindCorrelation
    <2>2. QED
      BY <2>1, HistoryUntouched
  <1>3. CASE \/ RegisterCollective
             \/ \E a \in Attempts : BeginAttempt(a)
             \/ \E state \in Terminal : CloseCollective(state)
             \/ Tick
             \/ UNCHANGED planningVars
    <2>1. records' = records /\ capacity' = capacity /\ running' = running /\ auth' = auth
      BY <1>3 DEF RegisterCollective, BeginAttempt, CloseCollective, Tick, planningVars, history
    <2>2. QED
      BY <2>1, HistoryUntouched
  <1>4. CASE \/ \E g \in DOMAIN PolicyOf : Install("policy", g)
             \/ \E g \in DOMAIN CapacityOf : Install("capacity", g)
             \/ \E g \in DOMAIN CongestionOf : Install("congestion", g)
    <2>1. records' = records /\ capacity' = capacity /\ running' = running
      BY <1>4 DEF Install, history
    <2>2. auth'.epoch = auth.epoch
      BY <1>a, <1>4 DEF Install, AuthorityState
    <2>3. QED
      BY <2>1, <2>2, HistoryUntouched
  <1>5. CASE \E g \in DOMAIN TopologyOf : InstallTopology(g)
    <2>1. records' = records /\ capacity' = capacity /\ running' = running
      BY <1>5 DEF InstallTopology, history
    <2>2. auth'.epoch = auth.epoch
      BY <1>0, <1>5, DroppedTyped DEF InstallTopology, AuthorityState
    <2>3. QED
      BY <2>1, <2>2, HistoryUntouched
  <1>6. CASE \E p \in Participants : Publish(p) \/ Fence(p)
    <2>1. records' = records /\ capacity' = capacity /\ running' = running
      BY <1>6 DEF Publish, Fence, history
    <2>2. auth'.epoch = auth.epoch
      BY <1>a, <1>6 DEF Publish, Fence, AuthorityState
    <2>3. QED
      BY <2>1, <2>2, HistoryUntouched
  <1>7. CASE \E n \in Capacities : Resize(n)
    <2>1. PICK n \in Capacities : SetCapacity(n) /\ running' = running /\ auth' = auth
      BY <1>7 DEF Resize
    <2>2. /\ RingTyped'
          /\ \A k \in 1 .. Len(records') : \E j \in 1 .. Len(records) : records'[k] = records[j]
      BY <2>1, ResizeKeeps DEF IInv
    <2>3. DOMAIN records = 1 .. Len(records) /\ DOMAIN records' = 1 .. Len(records')
      BY <2>2 DEF IInv, RingTyped
    <2>4. LogCanBeAudited'
      BY <2>1, <2>2, <2>3 DEF IInv, LogCanBeAudited
    <2>5. QED
      BY <2>2, <2>4
  <1>8. CASE StopService
    <2>1. RingTyped' /\ Len(records') = 0
      BY <1>8, ClearEmpties DEF IInv, StopService, HistoryCleared
    <2>2. DOMAIN records' = {} /\ 1 .. Len(records') = {}
      BY <2>1 DEF RingTyped
    <2>3. QED
      BY <2>1, <2>2 DEF LogCanBeAudited
  <1>9. CASE StartService
    <2>1. ~running /\ records' = records /\ capacity' = capacity
      BY <1>9 DEF StartService, history
    <2>2. DOMAIN records = {}
      BY <2>1 DEF IInv, LogCanBeAudited
    <2>3. QED
      BY <2>1, <2>2 DEF IInv, RingTyped, LogCanBeAudited
  <1>10. QED
    BY <1>1, <1>2, <1>3, <1>4, <1>5, <1>6, <1>7, <1>8, <1>9 DEF PlanningNext

\* Initially the ring is empty and the coordinator is found in a valid state.
LEMMA InvariantInit == PlanningInit => IInv
  <1> SUFFICES ASSUME PlanningInit PROVE IInv
    OBVIOUS
  <1>1. Typed
    BY StartsValid DEF PlanningInit, Typed
  <1>2. capacity \in Nat \ {0} /\ records = <<>>
    BY HistoryAssumption DEF PlanningInit, HistoryInit, Greater
  <1>3. RingTyped
    BY <1>2 DEF RingTyped
  <1>4. LogCanBeAudited
    BY <1>2 DEF LogCanBeAudited
  <1>5. QED
    BY <1>1, <1>3, <1>4 DEF IInv

\* The inductive invariant holds in every state of the specification.
THEOREM Invariance == PlanningSpec => []IInv
  <1>1. QED
    BY InvariantInit, InvariantStep, PTL DEF PlanningSpec

\* However plans, installs, resizes, stops and starts follow each other: no client
\* is shown a decision of an earlier boot, a stopped service shows none, and the
\* rate and burst of every grant that is shown follow from the generations it names
\* and its time alone (stop, begin_boot, DecisionHistory::clear, evaluate; README:
\* "The decision record binds everything").
THEOREM LogAudited == PlanningSpec => []LogCanBeAudited
  <1>1. IInv => LogCanBeAudited
    BY DEF IInv
  <1>2. QED
    BY <1>1, Invariance, PTL

-----------------------------------------------------------------------------
(* The rates granted.                                                      *)

\* What is available is a rate.
LEMMA AvailableIsARate ==
    ASSUME Typed, NEW t
    PROVE  Available(Snapshot(t)) \in Rates
  <1> DEFINE s == Snapshot(t)
  <1>1. CASE CapacityUsed(s)
    <2>1. s.capacity # None
      BY <1>1 DEF CapacityUsed, Usable
    <2>2. s.capacity \in Evidence(DOMAIN CapacityOf)
      BY <2>1, SnapshotHolds
    <2>3. s.capacity.links \in Seq(Rates)
      BY <2>2 DEF Evidence
    <2>4. QED
      BY <1>1, <2>3, SpareIsARate DEF Available
  <1>2. CASE ~CapacityUsed(s)
    BY <1>2, FlowGroupAssumption DEF Available, Rates
  <1>3. QED
    BY <1>1, <1>2

\* The class policy a request is paced by, once the rules up to class_unstated let
\* it pass, is a valid one of the policy in force.
LEMMA PacedByValidClass ==
    ASSUME Typed, NEW r \in Requests(auth.epoch), NEW t, ReachesEngine(r),
           \A j \in 1 .. 19 : ~Refuses(Order[j], Snapshot(t), r, Definitions[record.gen])
    PROVE  LET s == Snapshot(t)
               d == Definitions[record.gen]
           IN  /\ auth.policy # None /\ auth.topology # None
               /\ s.policy = PolicyOf[auth.policy] /\ ValidPolicy(s.policy)
               /\ CollectivePolicy(s, d) # None /\ CollectivePolicy(s, d).freshness \in Nat
               /\ ClassPolicy(s, r, d) # None /\ ValidClass(ClassPolicy(s, r, d))
  <1> DEFINE s == Snapshot(t)
             d == Definitions[record.gen]
  <1>1. ~Refuses(Order[6], s, r, d) /\ ~Refuses(Order[10], s, r, d)
        /\ ~Refuses(Order[14], s, r, d) /\ ~Refuses(Order[19], s, r, d)
    OBVIOUS
  <1>2. /\ s.policy # None /\ s.topology # None
        /\ CollectivePolicy(s, d) # None /\ ClassPolicy(s, r, d) # None
    BY <1>1, RulesSay
  <1>3. /\ auth.policy # None /\ auth.topology # None
        /\ auth.policy \in DOMAIN PolicyOf /\ s.policy = PolicyOf[auth.policy]
    BY <1>2, SnapshotHolds
  <1>4. ValidPolicy(s.policy)
    BY <1>3, PoliciesValid
  <1>5. d.class \in DOMAIN s.policy.collectives
    BY <1>3, Reaching, DefinitionsValid
  <1>6. auth.epoch \in 1 .. MaxEpoch
    BY DEF Typed, AuthorityState
  <1> HIDE DEF s, d
  <1>7. /\ CollectivePolicy(s, d).freshness \in Nat
        /\ CollectivePolicy(s, d).traffic \in DOMAIN s.policy.classes
    BY <1>2, <1>4, <1>5 DEF ValidPolicy, CollectivePolicy
  <1>8. TrafficClass(s, r, d) \in DOMAIN s.policy.classes
    <2>1. CASE r.requested # None
      BY <1>3, <1>6, <2>1, RequestsDecoded DEF TrafficClass
    <2>2. CASE r.requested = None
      BY <1>7, <2>2 DEF TrafficClass, CollectivePolicy
    <2>3. QED
      BY <2>1, <2>2
  <1>9. ValidClass(ClassPolicy(s, r, d))
    BY <1>2, <1>4, <1>8 DEF ValidPolicy, ClassPolicy
  <1>10. QED
    BY <1>2, <1>3, <1>4, <1>7, <1>9 DEF s, d

\* What pacing makes of a valid class and an available rate.
LEMMA Paced ==
    ASSUME NEW available \in Rates, NEW tp, ValidClass(tp), NEW m \in 1 .. Mille, NEW mult \in 0 .. Mille,
           NEW proposed, proposed = PerMille(Limit(available, tp.ceiling), m),
           ~(available # 0 /\ proposed < tp.floor)
    PROVE  LET rate == Rate(proposed, tp)
               burst == Burst(rate, mult, tp)
           IN  /\ tp.floor <= rate /\ rate <= tp.ceiling
               /\ available # 0 => rate <= available
               /\ burst <= rate
               /\ tp.burst # 0 => burst <= tp.burst
  <1>1. /\ available \in Nat /\ available < Word /\ Word \in Nat
        /\ tp.floor \in Nat /\ tp.ceiling \in Nat /\ tp.burst \in Nat
        /\ tp.ceiling < Word /\ tp.floor <= tp.ceiling
    BY FlowGroupAssumption DEF Rates, ValidClass
  <1> DEFINE limit == Limit(available, tp.ceiling)
             rate == Rate(proposed, tp)
  <1>2. limit \in Rates /\ limit <= tp.ceiling /\ (available # 0 => limit <= available)
    BY <1>1 DEF Limit, Smaller, Rates
  <1>3. m \in 0 .. Mille
    BY DEF Mille
  <1> HIDE DEF limit
  <1>4. proposed \in Nat /\ proposed <= limit
    BY <1>2, <1>3, PerMilleRoundsDown DEF limit, Rates
  <1>5. limit \in Nat
    BY <1>2 DEF Rates
  <1>6. /\ rate \in Nat /\ tp.floor <= rate /\ rate <= tp.ceiling
        /\ available # 0 => rate <= available
    BY <1>1, <1>2, <1>4, <1>5 DEF Rate, Larger, Smaller, Unlimited
  <1> HIDE DEF rate
  <1>7. rate \in Rates
    BY <1>1, <1>6 DEF Rates
  <1>8. PerMille(rate, mult) \in Nat /\ PerMille(rate, mult) <= rate
    BY <1>7, PerMilleRoundsDown DEF Rates
  <1>9. Burst(rate, mult, tp) <= rate /\ (tp.burst # 0 => Burst(rate, mult, tp) <= tp.burst)
    BY <1>1, <1>6, <1>8 DEF Burst, Smaller
  <1>10. QED
    BY <1>6, <1>9 DEF rate

\* A granted rate is within the floor and the ceiling of its class and within what
\* fresh evidence shows as available, and a burst within a second of the rate and
\* within what the class allows: no division, wrap or saturation breaks this
\* (compute_pacing).
THEOREM RatesAreWithinEvidence == PlanningSpec => []RatesWithinEvidence
  <1>1. ASSUME IInv, NEW x \in Decidable, Grants(Answer(x).outcome)
        PROVE  LET d == Answer(x)
                   tp == PolicyOf[auth.policy].classes[d.traffic]
                   s == Snapshot(x[2])
               IN  /\ tp.floor <= d.rate /\ d.rate <= tp.ceiling
                   /\ Available(s) # 0 => d.rate <= Available(s)
                   /\ d.burst <= d.rate
                   /\ tp.burst # 0 => d.burst <= tp.burst
    <2> DEFINE s == Snapshot(x[2])
               r == x[1]
               d == Definitions[record.gen]
               a == Answer(x)
               cp == CollectivePolicy(s, d)
               tp == ClassPolicy(s, r, d)
    <2>1. Typed /\ r \in Requests(auth.epoch) /\ ReachesEngine(r) /\ a = Evaluate(s, r, d)
      BY <1>1 DEF IInv, Decidable, Answer, DefinitionInForce
    <2>2. a = Decided(23, s, r, d) /\ \A j \in 1 .. 22 : ~Refuses(Order[j], s, r, d)
      BY <1>1, <2>1, EvaluateAnswers
    <2> HIDE DEF a, r
    <2>3. /\ s.policy = PolicyOf[auth.policy] /\ ValidPolicy(s.policy) /\ ValidClass(tp)
      BY <2>1, <2>2, PacedByValidClass
    <2>4. Available(s) \in Rates
      BY <2>1, AvailableIsARate
    <2>5. ~Refuses(Order[22], s, r, d)
      BY <2>2
    <2> HIDE DEF s, d
    <2>6. ~(Available(s) # 0 /\ Proposed(s, cp, tp) < tp.floor)
      BY <2>5, RulesSay DEF BelowFloor
    <2>7. /\ a.traffic = TrafficClass(s, r, d)
          /\ a.rate = Rate(Proposed(s, cp, tp), tp)
          /\ a.burst = Burst(a.rate, s.policy.burst_multiplier, tp)
      BY <2>2, GrantedFields
    <2>8. tp = PolicyOf[auth.policy].classes[a.traffic]
      BY <2>3, <2>7 DEF ClassPolicy
    <2> DEFINE m == Response(s.policy.response, Utilization(s, cp))
    <2>9. m \in 1 .. Mille /\ s.policy.burst_multiplier \in 0 .. Mille
      BY <2>3, ResponseIsAPart DEF ValidPolicy
    <2>10. Proposed(s, cp, tp) = PerMille(Limit(Available(s), tp.ceiling), m)
      BY DEF Proposed
    <2> HIDE DEF m, cp, tp
    <2>11. /\ tp.floor <= a.rate /\ a.rate <= tp.ceiling
           /\ Available(s) # 0 => a.rate <= Available(s)
           /\ a.burst <= a.rate
           /\ tp.burst # 0 => a.burst <= tp.burst
      BY <2>3, <2>4, <2>6, <2>7, <2>9, <2>10, Paced
    <2>12. QED
      BY <2>8, <2>11 DEF a, s
  <1>2. IInv => RatesWithinEvidence
    BY <1>1 DEF RatesWithinEvidence
  <1>3. QED
    BY <1>2, Invariance, PTL
-----------------------------------------------------------------------------
(* The rules, read as what they are about.                                 *)

\* A request the engine decides for time t, with the snapshot and the definition
\* it is decided on.
Deciding(s, r, d, t) ==
    /\ Typed /\ t \in Nat
    /\ r \in Requests(auth.epoch) /\ ReachesEngine(r)
    /\ s = Snapshot(t) /\ d = Definitions[record.gen]

\* As many obligations as edges means no two edges state the same one.
LEMMA DistinctObligations ==
    ASSUME NEW e, e \in Seq(ToSet(e))
    PROVE  Cardinality({<<y.step, y.source, y.destination>> : y \in ToSet(e)}) = Len(e)
             <=> \A i, j \in DOMAIN e : SameObligation(e[i], e[j]) => i = j
  <1> DEFINE n == Len(e)
             T == {<<y.step, y.source, y.destination>> : y \in ToSet(e)}
             f == [i \in 1 .. n |-> <<e[i].step, e[i].source, e[i].destination>>]
  <1>1. n \in Nat /\ DOMAIN e = 1 .. n /\ ToSet(e) = {e[i] : i \in 1 .. n}
    BY DEF ToSet
  <1>2. f \in Surjection(1 .. n, T)
    <2>1. f \in [1 .. n -> T]
      BY <1>1
    <2>2. ASSUME NEW y \in T PROVE \E i \in 1 .. n : f[i] = y
      <3>1. PICK z \in ToSet(e) : y = <<z.step, z.source, z.destination>>
        OBVIOUS
      <3>2. PICK i \in 1 .. n : z = e[i]
        BY <1>1
      <3>3. QED
        BY <3>1, <3>2
    <2>3. QED
      BY <2>1, <2>2 DEF Surjection
  <1>3. IsFiniteSet(1 .. n) /\ Cardinality(1 .. n) = n
    <2>1. ASSUME NEW m \in Nat PROVE IsFiniteSet(1 .. m) /\ Cardinality(1 .. m) = m
      <3>1. IsFiniteSet(1 .. m) /\ Cardinality(1 .. m) = IF 1 > m THEN 0 ELSE m - 1 + 1
        BY FS_Interval
      <3>2. QED
        BY <3>1
    <2>2. QED
      BY <1>1, <2>1
  <1>4. f \in Injection(1 .. n, T) <=> \A i, j \in 1 .. n : SameObligation(e[i], e[j]) => i = j
    <2>1. \A i, j \in 1 .. n : f[i] = f[j] <=> SameObligation(e[i], e[j])
      BY DEF SameObligation
    <2>2. f \in [1 .. n -> T]
      BY <1>1
    <2> HIDE DEF f, T, n
    <2>3. f \in Injection(1 .. n, T) <=> \A i, j \in 1 .. n : f[i] = f[j] => i = j
      BY <2>2 DEF Injection, IsInjective
    <2>4. QED
      BY <2>1, <2>3
  <1> HIDE DEF f, T
  <1>5. Cardinality(T) = Cardinality(1 .. n) <=> f \in Injection(1 .. n, T)
    BY <1>2, <1>3, FS_Surjection
  <1>6. QED
    BY <1>1, <1>3, <1>4, <1>5 DEF T

\* The plan rules let a request pass exactly when its plan is about the members.
LEMMA PlanRules ==
    ASSUME NEW s, NEW r, NEW d, NEW t, Deciding(s, r, d, t)
    PROVE  /\ ~Refuses(Order[1], s, r, d)
           /\ (~Refuses(Order[2], s, r, d) /\ ~Refuses(Order[3], s, r, d))
                <=> PlanIsAbout(r.plan, d.participants)
  <1>1. /\ record.gen = r.instance.gen /\ record.gen \in DOMAIN Definitions
        /\ d = Definitions[record.gen]
    BY Reaching DEF Deciding
  <1>2. d.gen = r.instance.gen /\ 0 \notin d.participants
    BY <1>1, DefinitionsValid
  <1>3. ~Refuses(Order[1], s, r, d)
    BY <1>2, RulesSay
  <1>4. ASSUME r.plan # None
        PROVE  ValidPlan(r.plan, d.participants) <=> PlanIsAbout(r.plan, d.participants)
    <2> DEFINE e == r.plan.edges
               M == d.participants
    <2>1. e \in Seq(ToSet(e)) /\ Len(e) <= EdgesMax
      <3>1. auth.epoch \in 1 .. MaxEpoch /\ r \in Requests(auth.epoch) /\ Wellformed(r)
        BY DEF Deciding, Typed, AuthorityState, ReachesEngine
      <3>2. e \in Seq(FlowEdge) /\ Len(e) <= EdgesMax
        BY <1>4, <3>1, RequestsDecoded DEF Wellformed, IsPlan
      <3> HIDE DEF e
      <3>3. QED
        BY <3>2 DEF ToSet
    <2> HIDE DEF e, M
    <2>2. Len(e) \in Nat /\ DOMAIN e = 1 .. Len(e) /\ EdgesMax \in Nat
      BY <2>1, FlowGroupAssumption
    <2>3. Len(e) \in 1 .. EdgesMax <=> e # <<>>
      BY <2>1, <2>2, EmptySeq
    <2>4. ToSet(e) = {e[i] : i \in DOMAIN e}
      BY DEF ToSet
    <2>5. (\A y \in ToSet(e) : y.step # None /\ y.source \in M /\ y.destination \in M \ {y.source})
            <=> \A i \in DOMAIN e : /\ e[i].step # None /\ e[i].source \in M
                                    /\ e[i].destination \in M \ {e[i].source}
      BY <2>4
    <2>6. \A i \in DOMAIN e :
             (/\ e[i].step # None /\ e[i].source \in M /\ e[i].destination \in M \ {e[i].source})
               <=> /\ e[i].source # 0 /\ e[i].destination # 0
                   /\ e[i].source # e[i].destination
                   /\ {e[i].source, e[i].destination} \subseteq M
                   /\ e[i].step # None
      BY <1>2 DEF M
    <2>7. ValidPlan(r.plan, M) <=>
            /\ Len(e) \in 1 .. EdgesMax /\ r.plan.direction # "unknown" /\ M # {}
            /\ \A i \in DOMAIN e : /\ e[i].source # 0 /\ e[i].destination # 0
                                   /\ e[i].source # e[i].destination
                                   /\ {e[i].source, e[i].destination} \subseteq M
                                   /\ e[i].step # None
            /\ \A i, j \in DOMAIN e : SameObligation(e[i], e[j]) => i = j
      BY DEF ValidPlan, e
    <2>8. PlanIsAbout(r.plan, M) <=>
            /\ r.plan.direction # "unknown" /\ e # <<>>
            /\ Cardinality({<<y.step, y.source, y.destination>> : y \in ToSet(e)}) = Len(e)
            /\ \A y \in ToSet(e) : /\ y.step # None /\ y.source \in M
                                   /\ y.destination \in M \ {y.source}
      BY <1>4 DEF PlanIsAbout, e
    <2>9. Cardinality({<<y.step, y.source, y.destination>> : y \in ToSet(e)}) = Len(e)
            <=> \A i, j \in DOMAIN e : SameObligation(e[i], e[j]) => i = j
      BY <2>1, DistinctObligations
    <2>10. (e # <<>> /\ \A i \in DOMAIN e : e[i].source \in M) => M # {}
      BY <2>2, <2>3
    <2> DEFINE P == \A i \in DOMAIN e : /\ e[i].step # None /\ e[i].source \in M
                                        /\ e[i].destination \in M \ {e[i].source}
               Q == \A i, j \in DOMAIN e : SameObligation(e[i], e[j]) => i = j
    <2>11. ValidPlan(r.plan, M) <=>
             e # <<>> /\ r.plan.direction # "unknown" /\ M # {} /\ P /\ Q
      BY <2>3, <2>6, <2>7
    <2>12. PlanIsAbout(r.plan, M) <=> r.plan.direction # "unknown" /\ e # <<>> /\ Q /\ P
      BY <2>5, <2>8, <2>9
    <2>13. P => \A i \in DOMAIN e : e[i].source \in M
      OBVIOUS
    <2> HIDE DEF P, Q
    <2>14. QED
      BY <2>10, <2>11, <2>12, <2>13 DEF M
  <1>5. r.plan = None => ~PlanIsAbout(r.plan, d.participants)
    BY DEF PlanIsAbout
  <1>6. QED
    BY <1>3, <1>4, <1>5, RulesSay

\* With policy and topology in force, the rules on observed generations let a
\* request pass exactly when what it observed is current.
LEMMA ObservedRules ==
    ASSUME NEW s, NEW r, NEW d, NEW t, Deciding(s, r, d, t),
           auth.policy # None, auth.topology # None
    PROVE  (/\ ~Refuses(Order[4], s, r, d) /\ ~Refuses(Order[5], s, r, d)
            /\ ~Refuses(Order[7], s, r, d) /\ ~Refuses(Order[8], s, r, d)
            /\ ~Refuses(Order[9], s, r, d)) <=> ObservedIsCurrent(r.observed)
  <1>1. /\ s.epoch = auth.epoch
        /\ s.policy # None /\ s.policy.gen = auth.policy
        /\ s.topology # None /\ s.topology.gen = auth.topology
        /\ s.capacity = None <=> auth.capacity = None
        /\ auth.capacity # None => s.capacity.gen = auth.capacity
        /\ s.congestion = None <=> auth.congestion = None
        /\ auth.congestion # None => s.congestion.gen = auth.congestion
    BY SnapshotHolds DEF Deciding
  <1>2. \A o, g : Stale(o, g) <=> ~CurrentOr(o, {g})
    BY DEF Stale, CurrentOr
  <1>3. Generation(s.policy) = auth.policy /\ Generation(s.topology) = auth.topology
    BY <1>1 DEF Generation
  <1>4. /\ Refuses(Order[4], s, r, d) <=> ~CurrentOr(r.observed.epoch, {auth.epoch})
        /\ Refuses(Order[5], s, r, d) <=> ~CurrentOr(r.observed.policy, {auth.policy})
        /\ Refuses(Order[7], s, r, d) <=>
             auth.capacity # None /\ ~CurrentOr(r.observed.capacity, {auth.capacity})
        /\ Refuses(Order[8], s, r, d) <=>
             auth.congestion # None /\ ~CurrentOr(r.observed.congestion, {auth.congestion})
        /\ Refuses(Order[9], s, r, d) <=> ~CurrentOr(r.observed.topology, {auth.topology})
    BY <1>1, <1>2, <1>3, RulesSay
  <1>5. QED
    BY <1>4 DEF ObservedIsCurrent

\* The liveness rule refuses exactly when some member is not live.
LEMMA LivenessRule ==
    ASSUME NEW s, NEW r, NEW d, NEW t, Deciding(s, r, d, t)
    PROVE  Refuses(Order[11], s, r, d) <=> ~MembersAreLive(d.participants, t)
  <1>1. s.peers = auth.peers /\ s.now = t
    BY SnapshotHolds DEF Deciding
  <1>2. QED
    BY <1>1, RulesSay DEF MembersAreLive, Live

\* With a topology in force, the topology rules let a request pass exactly when
\* the topology is fresh and has the nodes of the members.
LEMMA TopologyRules ==
    ASSUME NEW s, NEW r, NEW d, NEW t, Deciding(s, r, d, t), auth.topology # None
    PROVE  /\ Refuses(Order[12], s, r, d) <=> ~TopologyCovers({}, t)
           /\ (Refuses(Order[12], s, r, d) \/ Refuses(Order[13], s, r, d))
                <=> ~TopologyCovers(d.participants, t)
  <1>1. /\ s.peers = auth.peers /\ s.now = t /\ t \in Nat
        /\ auth.topology \in DOMAIN TopologyOf /\ s.topology = TopologyOf[auth.topology]
    BY SnapshotHolds DEF Deciding
  <1>2. s.topology.captured \in Nat /\ TopologyMaxAge \in Nat
    BY <1>1, TopologiesValid, EngineAssumption
  <1>3. Age(s, s.topology) > TopologyMaxAge
          <=> ~(TopologyOf[auth.topology].captured + TopologyMaxAge >= t)
    BY <1>1, <1>2 DEF Age
  <1>4. Refuses(Order[12], s, r, d)
          <=> ~(TopologyOf[auth.topology].captured + TopologyMaxAge >= t)
    BY <1>3, RulesSay
  <1>5. Refuses(Order[13], s, r, d)
          <=> ~({auth.peers[p].node : p \in d.participants} \subseteq TopologyOf[auth.topology].nodes)
    BY <1>1, RulesSay
  <1>6. {auth.peers[p].node : p \in {}} \subseteq TopologyOf[auth.topology].nodes
    OBVIOUS
  <1>7. QED
    BY <1>4, <1>5, <1>6 DEF TopologyCovers

\* With a policy in force, the rules on classes let a request pass exactly when it
\* would travel in a class, and that is the class the decision names.
LEMMA ClassRules ==
    ASSUME NEW s, NEW r, NEW d, NEW t, Deciding(s, r, d, t), auth.policy # None
    PROVE  /\ (\A j \in 14 .. 18 : ~Refuses(Order[j], s, r, d))
                <=> Treatment(r, d.class) # "unclassified"
           /\ Treatment(r, d.class) # "unclassified" => TrafficClass(s, r, d) = Treatment(r, d.class)
  <1>1. s.policy = PolicyOf[auth.policy]
    BY SnapshotHolds DEF Deciding
  <1> DEFINE cp == CollectivePolicy(s, d)
  <1>2. cp = PolicyOf[auth.policy].collectives[d.class]
    BY <1>1 DEF CollectivePolicy
  <1>3. TrafficClass(s, r, d) = IF r.requested # None THEN r.requested ELSE cp.traffic
    BY DEF TrafficClass, CollectivePolicy
  <1> HIDE DEF cp
  <1>4. (\A j \in 14 .. 18 : ~Refuses(Order[j], s, r, d)) <=>
          /\ ~Refuses(Order[14], s, r, d) /\ ~Refuses(Order[15], s, r, d)
          /\ ~Refuses(Order[16], s, r, d) /\ ~Refuses(Order[17], s, r, d)
          /\ ~Refuses(Order[18], s, r, d)
    BY 14 .. 18 = {14, 15, 16, 17, 18}
  <1>5. /\ Refuses(Order[14], s, r, d) <=> cp = None
        /\ Refuses(Order[15], s, r, d) <=> ~KnownClass(d.class)
        /\ Refuses(Order[16], s, r, d) <=> r.requested # None /\ ~cp.override
        /\ Refuses(Order[17], s, r, d) <=> r.requested # None /\ r.requested = "unclassified"
        /\ Refuses(Order[18], s, r, d) <=> TrafficClass(s, r, d) = "unclassified"
    BY RulesSay DEF cp, Classified
  <1>6. Treatment(r, d.class) =
          IF ~KnownClass(d.class) \/ cp = None THEN "unclassified"
          ELSE IF r.requested = None THEN cp.traffic
          ELSE IF cp.override THEN r.requested ELSE "unclassified"
    BY <1>2 DEF Treatment
  <1>7. QED
    BY <1>3, <1>4, <1>5, <1>6

\* Once the rules up to class_unstated let a request pass, those on congestion and
\* the one on capacity let it pass exactly when the evidence supports it.
LEMMA EvidenceRules ==
    ASSUME NEW s, NEW r, NEW d, NEW t, Deciding(s, r, d, t),
           \A j \in 1 .. 19 : ~Refuses(Order[j], s, r, d)
    PROVE  /\ (Refuses(Order[20], s, r, d) \/ Refuses(Order[21], s, r, d))
                <=> ~CongestionSupports(r, t)
           /\ Refuses(Order[22], s, r, d) <=> ~CapacitySupports(r, t)
  <1> DEFINE cp == CollectivePolicy(s, d)
             tp == ClassPolicy(s, r, d)
             available == Available(s)
             m == Response(s.policy.response, Utilization(s, cp))
             e == CongestionOf[auth.congestion]
             Fresh == tp.fresh => /\ auth.congestion # None
                                  /\ e.captured + cp.freshness >= t
                                  /\ e.captured + e.valid_for >= t
             Enough == available # 0 => Mille * tp.floor <= Smaller(available, tp.ceiling) * m
  <1>1. /\ Typed /\ t \in Nat /\ r \in Requests(auth.epoch) /\ ReachesEngine(r)
        /\ s = Snapshot(t) /\ d = Definitions[record.gen]
    BY DEF Deciding
  <1>2. /\ auth.policy # None /\ s.policy = PolicyOf[auth.policy] /\ ValidPolicy(s.policy)
        /\ cp.freshness \in Nat /\ ValidClass(tp)
    BY <1>1, PacedByValidClass
  <1>3. Treatment(r, d.class) # "unclassified" /\ TrafficClass(s, r, d) = Treatment(r, d.class)
    <2>1. \A j \in 14 .. 18 : ~Refuses(Order[j], s, r, d)
      OBVIOUS
    <2>2. QED
      BY <1>2, <2>1, ClassRules
  <1>4. (CongestionSupports(r, t) <=> Fresh) /\ (CapacitySupports(r, t) <=> Enough)
    <2>1. cp = TreatedInForce /\ tp = ClassInForce(r)
      BY <1>1, <1>2, <1>3
         DEF CollectivePolicy, ClassPolicy, DefinitionInForce, TreatedInForce, ClassInForce
    <2> HIDE DEF cp, tp
    <2>2. QED
      BY <1>1, <2>1 DEF CongestionSupports, CapacitySupports
  <1>5. /\ available \in Rates /\ m \in 1 .. Mille
    BY <1>1, <1>2, AvailableIsARate, ResponseIsAPart DEF ValidPolicy
  <1>6. /\ s.now = t
        /\ s.congestion = None <=> auth.congestion = None
        /\ auth.congestion # None => /\ s.congestion.captured = e.captured
                                     /\ s.congestion.valid_for = e.valid_for
                                     /\ e.captured \in Nat /\ e.valid_for \in Nat
    <2>1. /\ s.now = t
          /\ s.congestion = None <=> auth.congestion = None
          /\ auth.congestion # None => /\ s.congestion.captured = e.captured
                                       /\ s.congestion.valid_for = e.valid_for
                                       /\ s.congestion \in Evidence(DOMAIN CongestionOf)
      BY <1>1, SnapshotHolds
    <2> HIDE DEF e
    <2>2. s.congestion \in Evidence(DOMAIN CongestionOf) =>
            s.congestion.captured \in Nat /\ s.congestion.valid_for \in Nat
      BY DEF Evidence
    <2>3. QED
      BY <2>1, <2>2
  <1>7. /\ Refuses(Order[20], s, r, d) <=> tp.fresh /\ s.congestion = None
        /\ Refuses(Order[21], s, r, d) <=>
             tp.fresh /\ Age(s, s.congestion) > Smaller(s.congestion.valid_for, cp.freshness)
        /\ Refuses(Order[22], s, r, d) <=> available # 0 /\ Proposed(s, cp, tp) < tp.floor
    BY RulesSay DEF BelowFloor
  <1>8. Proposed(s, cp, tp) = PerMille(Limit(available, tp.ceiling), m)
    BY DEF Proposed
  <1> HIDE DEF cp, tp, available, m, e
  <1>9. (~Refuses(Order[20], s, r, d) /\ ~Refuses(Order[21], s, r, d)) <=> Fresh
    <2>1. auth.congestion # None =>
            (Age(s, s.congestion) > Smaller(s.congestion.valid_for, cp.freshness)
               <=> ~(e.captured + cp.freshness >= t /\ e.captured + e.valid_for >= t))
      BY <1>1, <1>2, <1>6 DEF Age, Smaller
    <2>2. QED
      BY <1>6, <1>7, <2>1
  <1>10. ~Refuses(Order[22], s, r, d) <=> Enough
    <2>1. /\ available \in Nat /\ available < Word /\ Word \in Nat
          /\ tp.floor \in Nat /\ tp.ceiling \in Nat /\ tp.ceiling < Word
      BY <1>2, <1>5, FlowGroupAssumption DEF Rates, ValidClass
    <2> DEFINE limit == Limit(available, tp.ceiling)
    <2>2. limit \in Rates /\ (available # 0 => limit = Smaller(available, tp.ceiling))
      BY <2>1 DEF Limit, Smaller, Rates
    <2>3. m \in 0 .. Mille
      BY <1>5 DEF Mille
    <2> HIDE DEF limit
    <2>4. /\ PerMille(limit, m) \in Rates
          /\ tp.floor <= PerMille(limit, m) <=> Mille * tp.floor <= limit * m
      BY <2>1, <2>2, <2>3, PerMilleRoundsDown
    <2>5. PerMille(limit, m) < tp.floor <=> ~(tp.floor <= PerMille(limit, m))
      BY <2>1, <2>4 DEF Rates
    <2>6. Refuses(Order[22], s, r, d) <=> available # 0 /\ PerMille(limit, m) < tp.floor
      BY <1>7, <1>8 DEF limit
    <2>7. available # 0 => Smaller(available, tp.ceiling) * m = limit * m
      BY <2>2
    <2>8. QED
      BY <2>4, <2>5, <2>6, <2>7
  <1> HIDE DEF Fresh, Enough
  <1>11. QED
    BY <1>4, <1>9, <1>10

-----------------------------------------------------------------------------
(* What is granted, and what a refusal says.                               *)

\* A request that may be decided next is one the engine decides.
LEMMA DecidableDecides ==
    ASSUME Typed, NEW x \in Decidable
    PROVE  /\ Deciding(Snapshot(x[2]), x[1], DefinitionInForce, x[2])
           /\ Answer(x) = Evaluate(Snapshot(x[2]), x[1], DefinitionInForce)
  <1>1. x \in Requests(auth.epoch) \X (0 .. now) /\ ReachesEngine(x[1])
    BY DEF Decidable
  <1>2. x[1] \in Requests(auth.epoch) /\ x[2] \in Nat
    BY <1>1
  <1>3. QED
    BY <1>1, <1>2 DEF Deciding, Answer, DefinitionInForce

\* No rule refuses a request exactly when it is authorised.
LEMMA NoneRefusesIffAuthorised ==
    ASSUME NEW s, NEW r, NEW t, Deciding(s, r, DefinitionInForce, t)
    PROVE  (\A j \in 1 .. 22 : ~Refuses(Order[j], s, r, DefinitionInForce)) <=> Authorised(r, t)
  <1> DEFINE d == DefinitionInForce
             R(j) == Refuses(Order[j], s, r, d)
  <1>1. (s.policy = None <=> auth.policy = None) /\ (s.topology = None <=> auth.topology = None)
    BY SnapshotHolds DEF Deciding
  <1>2. (R(6) <=> auth.policy = None) /\ (R(10) <=> auth.topology = None)
    BY <1>1, RulesSay
  <1>3. CASE auth.policy = None \/ auth.topology = None
    <2>1. R(6) \/ R(10)
      BY <1>2, <1>3
    <2>2. ~Authorised(r, t)
      BY <1>3 DEF Authorised
    <2>3. QED
      BY <2>1, <2>2
  <1>4. CASE auth.policy # None /\ auth.topology # None
    <2>1. Authorised(r, t) <=>
            /\ ObservedIsCurrent(r.observed) /\ PlanIsAbout(r.plan, d.participants)
            /\ MembersAreLive(d.participants, t) /\ TopologyCovers(d.participants, t)
            /\ Treatment(r, d.class) # "unclassified"
            /\ ClassInForce(r) # None
            /\ CongestionSupports(r, t) /\ CapacitySupports(r, t)
      BY <1>4 DEF Authorised
    <2>2. /\ s.policy = PolicyOf[auth.policy]
          /\ ClassInForce(r) = PolicyOf[auth.policy].classes[Treatment(r, d.class)]
      BY <1>4, SnapshotHolds DEF Deciding, ClassInForce
    <2> HIDE DEF d
    <2>3. Deciding(s, r, d, t)
      BY DEF d
    <2>4. ~R(1) /\ (~R(2) /\ ~R(3) <=> PlanIsAbout(r.plan, d.participants))
      BY <2>3, PlanRules
    <2>5. (~R(4) /\ ~R(5) /\ ~R(7) /\ ~R(8) /\ ~R(9)) <=> ObservedIsCurrent(r.observed)
      BY <1>4, <2>3, ObservedRules
    <2>6. ~R(6) /\ ~R(10)
      BY <1>2, <1>4
    <2>7. (~R(11) <=> MembersAreLive(d.participants, t))
          /\ (~R(12) /\ ~R(13) <=> TopologyCovers(d.participants, t))
      BY <1>4, <2>3, LivenessRule, TopologyRules
    <2>8. /\ (\A j \in 14 .. 18 : ~R(j)) <=> Treatment(r, d.class) # "unclassified"
          /\ Treatment(r, d.class) # "unclassified" => TrafficClass(s, r, d) = Treatment(r, d.class)
      BY <1>4, <2>3, ClassRules
    <2>9. Treatment(r, d.class) # "unclassified" =>
            (~R(19) <=> ClassInForce(r) # None)
      BY <2>2, <2>8, RulesSay DEF ClassPolicy
    <2>10. (\A j \in 1 .. 19 : ~R(j)) =>
             ((\A j \in 20 .. 22 : ~R(j)) <=> CongestionSupports(r, t) /\ CapacitySupports(r, t))
      <3>1. (\A j \in 1 .. 19 : ~R(j)) =>
              /\ (R(20) \/ R(21)) <=> ~CongestionSupports(r, t)
              /\ R(22) <=> ~CapacitySupports(r, t)
        BY <2>3, EvidenceRules
      <3> HIDE DEF R
      <3>2. (\A j \in 20 .. 22 : ~R(j)) <=> ~R(20) /\ ~R(21) /\ ~R(22)
        BY 20 .. 22 = {20, 21, 22}
      <3>3. QED
        BY <3>1, <3>2
    <2> HIDE DEF R
    <2>11. (\A j \in 1 .. 22 : ~R(j)) <=> (\A j \in 1 .. 19 : ~R(j)) /\ (\A j \in 20 .. 22 : ~R(j))
      OBVIOUS
    <2>12. (\A j \in 1 .. 19 : ~R(j)) <=>
             /\ ~R(1) /\ ~R(2) /\ ~R(3) /\ ~R(4) /\ ~R(5) /\ ~R(6) /\ ~R(7) /\ ~R(8) /\ ~R(9)
             /\ ~R(10) /\ ~R(11) /\ ~R(12) /\ ~R(13) /\ (\A j \in 14 .. 18 : ~R(j)) /\ ~R(19)
      <3>1. 1 .. 19 = {1, 2, 3, 4, 5, 6, 7, 8, 9, 10, 11, 12, 13} \cup (14 .. 18) \cup {19}
        OBVIOUS
      <3>2. QED
        BY <3>1
    <2>13. (\A j \in 1 .. 22 : ~R(j)) <=> Authorised(r, t)
      BY <2>1, <2>4, <2>5, <2>6, <2>7, <2>8, <2>9, <2>10, <2>11, <2>12
    <2>14. QED
      BY <2>13 DEF R, d
  <1>5. QED
    BY <1>3, <1>4

\* A request is granted exactly when every authority it needs is in force at the
\* time it arrived: nothing stale is granted and nothing current refused, in any
\* state that installs, publications, fences, topology changes and restarts lead
\* to (apply_authority_chain, evaluate).
THEOREM GrantsAreTheAuthorised == PlanningSpec => []GrantsExactlyTheAuthorised
  <1>1. ASSUME IInv, NEW x \in Decidable
        PROVE  Grants(Answer(x).outcome) <=> Authorised(x[1], x[2])
    <2> DEFINE s == Snapshot(x[2])
               r == x[1]
               d == DefinitionInForce
    <2>1. Deciding(s, r, d, x[2]) /\ Answer(x) = Evaluate(s, r, d)
      BY <1>1, DecidableDecides DEF IInv
    <2>2. (\A j \in 1 .. 22 : ~Refuses(Order[j], s, r, d)) <=> Authorised(r, x[2])
      BY <2>1, NoneRefusesIffAuthorised
    <2>3. Grants(Evaluate(s, r, d).outcome) <=> \A j \in 1 .. 22 : ~Refuses(Order[j], s, r, d)
      BY EvaluateAnswers
    <2>4. QED
      BY <2>1, <2>2, <2>3
  <1>2. IInv => GrantsExactlyTheAuthorised
    BY <1>1 DEF GrantsExactlyTheAuthorised
  <1>3. QED
    BY <1>2, Invariance, PTL

\* The verdict at each place.
LEMMA Verdicts ==
    /\ Verdict(Order[1]) = <<"rejected_stale", "collective_generation">>
    /\ \A k \in {2, 3, 13} : Verdict(Order[k]) = <<"requires_replan", "plan">>
    /\ Verdict(Order[4]) = <<"rejected_stale", "coordinator_epoch">>
    /\ Verdict(Order[5]) = <<"rejected_stale", "policy_generation">>
    /\ \A k \in {6, 19} : Verdict(Order[k]) = <<"rejected_policy", "policy_generation">>
    /\ Verdict(Order[7]) = <<"rejected_stale", "capacity_evidence">>
    /\ Verdict(Order[8]) = <<"rejected_stale", "congestion_evidence">>
    /\ \A k \in {9, 10, 12} : Verdict(Order[k]) = <<"rejected_stale", "topology_generation">>
    /\ Verdict(Order[11]) = <<"rejected_stale", "participant_liveness">>
    /\ \A k \in {14, 15, 16, 17} : Verdict(Order[k]) = <<"rejected_policy", "semantics">>
    /\ Verdict(Order[18]) = <<"unknown_semantics", "semantics">>
    /\ \A k \in {20, 21} : Verdict(Order[k]) = <<"requires_replan", "congestion_evidence">>
    /\ Verdict(Order[22]) = <<"rejected_capacity", "capacity_evidence">>
  <1>1. /\ Verdict("generation") = <<"rejected_stale", "collective_generation">>
        /\ Verdict("epoch") = <<"rejected_stale", "coordinator_epoch">>
        /\ Verdict("policy") = <<"rejected_stale", "policy_generation">>
        /\ Verdict("capacity") = <<"rejected_stale", "capacity_evidence">>
        /\ Verdict("congestion") = <<"rejected_stale", "congestion_evidence">>
        /\ Verdict("liveness") = <<"rejected_stale", "participant_liveness">>
        /\ Verdict("unclassified") = <<"unknown_semantics", "semantics">>
        /\ Verdict("floor") = <<"rejected_capacity", "capacity_evidence">>
    BY Zenon DEF Verdict
  <1>2. /\ \A x \in {"no_plan", "plan", "node"} : Verdict(x) = <<"requires_replan", "plan">>
        /\ \A x \in {"no_policy", "class_unstated"} :
              Verdict(x) = <<"rejected_policy", "policy_generation">>
        /\ \A x \in {"topology", "no_topology", "topology_age"} :
              Verdict(x) = <<"rejected_stale", "topology_generation">>
        /\ \A x \in {"collective_unstated", "class_unknown", "override", "override_unclassified"} :
              Verdict(x) = <<"rejected_policy", "semantics">>
        /\ \A x \in {"no_congestion", "congestion_age"} :
              Verdict(x) = <<"requires_replan", "congestion_evidence">>
    BY Zenon DEF Verdict
  <1>3. QED
    BY <1>1, <1>2, Rules

\* What an answer says, axis by axis.
LEMMA TruthfulSays ==
    ASSUME NEW a, NEW r, NEW t
    PROVE  /\ a.axis = "none" => (Truthful(a, r, t) <=> Grants(a.outcome))
           /\ a.axis = "collective_generation" =>
                (Truthful(a, r, t) <=> record = None \/ record.gen # r.instance.gen)
           /\ a.axis = "attempt_generation" =>
                (Truthful(a, r, t) <=> record.attempt # r.instance.attempt)
           /\ a.axis = "lifecycle" => (Truthful(a, r, t) <=> record.state \in Terminal)
           /\ a.axis = "coordinator_epoch" =>
                (Truthful(a, r, t) <=> ~CurrentOr(r.observed.epoch, {auth.epoch}))
           /\ a.axis = "policy_generation" =>
                (Truthful(a, r, t) <=>
                   IF a.outcome = "rejected_stale" THEN ~CurrentOr(r.observed.policy, {auth.policy})
                   ELSE auth.policy = None \/ ClassInForce(r) = None)
           /\ a.axis = "capacity_evidence" =>
                (Truthful(a, r, t) <=>
                   IF a.outcome = "rejected_stale"
                   THEN auth.capacity # None /\ ~CurrentOr(r.observed.capacity, {auth.capacity})
                   ELSE ~CapacitySupports(r, t))
           /\ a.axis = "congestion_evidence" =>
                (Truthful(a, r, t) <=>
                   IF a.outcome = "rejected_stale"
                   THEN auth.congestion # None /\ ~CurrentOr(r.observed.congestion, {auth.congestion})
                   ELSE /\ MembersAreLive(DefinitionInForce.participants, t)
                        /\ ~CongestionSupports(r, t))
           /\ a.axis = "topology_generation" =>
                (Truthful(a, r, t) <=> \/ auth.topology = None
                                      \/ ~CurrentOr(r.observed.topology, {auth.topology})
                                      \/ ~TopologyCovers({}, t))
           /\ a.axis = "participant_liveness" =>
                (Truthful(a, r, t) <=> ~MembersAreLive(DefinitionInForce.participants, t))
           /\ a.axis = "plan" =>
                (Truthful(a, r, t) <=> \/ ~PlanIsAbout(r.plan, DefinitionInForce.participants)
                                      \/ ~TopologyCovers(DefinitionInForce.participants, t))
           /\ a.axis = "semantics" =>
                (Truthful(a, r, t) <=>
                   /\ Treatment(r, DefinitionInForce.class) = "unclassified"
                   /\ a.outcome = "unknown_semantics" <=>
                        /\ r.requested = None /\ KnownClass(DefinitionInForce.class)
                        /\ TreatedInForce # None)
  BY DEF Truthful

\* The refusal of a rule that is the first to refuse is truthful.
LEMMA FirstRefusalTruthful ==
    ASSUME NEW s, NEW r, NEW t, Deciding(s, r, DefinitionInForce, t), NEW k \in 1 .. 22, NEW a,
           a.outcome = Verdict(Order[k])[1], a.axis = Verdict(Order[k])[2],
           Refuses(Order[k], s, r, DefinitionInForce),
           \A j \in 1 .. k - 1 : ~Refuses(Order[j], s, r, DefinitionInForce)
    PROVE  Truthful(a, r, t)
  <1> DEFINE d == DefinitionInForce
             R(j) == Refuses(Order[j], s, r, d)
  <1>1. /\ Deciding(s, r, d, t) /\ R(k) /\ \A j \in 1 .. k - 1 : ~R(j)
        /\ a.outcome = Verdict(Order[k])[1] /\ a.axis = Verdict(Order[k])[2]
    OBVIOUS
  <1>2. /\ s.epoch = auth.epoch
        /\ Generation(s.policy) = auth.policy /\ Generation(s.topology) = auth.topology
        /\ s.policy = None <=> auth.policy = None
        /\ auth.policy # None => s.policy = PolicyOf[auth.policy]
        /\ s.topology = None <=> auth.topology = None
        /\ s.capacity = None <=> auth.capacity = None
        /\ auth.capacity # None => s.capacity.gen = auth.capacity
        /\ s.congestion = None <=> auth.congestion = None
        /\ auth.congestion # None => s.congestion.gen = auth.congestion
    BY <1>1, SnapshotHolds DEF Deciding, Generation
  <1>3. \A o, g : Stale(o, g) <=> ~CurrentOr(o, {g})
    BY DEF Stale, CurrentOr
  <1>4. k # 1
    BY <1>1, PlanRules
  <1>5. CASE k = 4
    <2>1. a.axis = "coordinator_epoch"
      BY <1>1, <1>5, Verdicts
    <2>2. ~CurrentOr(r.observed.epoch, {auth.epoch})
      BY <1>1, <1>2, <1>3, <1>5, RulesSay
    <2>3. QED
      BY <2>1, <2>2, TruthfulSays
  <1>6. CASE k = 5
    <2>1. a.axis = "policy_generation" /\ a.outcome = "rejected_stale"
      BY <1>1, <1>6, Verdicts
    <2>2. ~CurrentOr(r.observed.policy, {auth.policy})
      BY <1>1, <1>2, <1>3, <1>6, RulesSay
    <2>3. QED
      BY <2>1, <2>2, TruthfulSays
  <1>7. CASE k = 7
    <2>1. a.axis = "capacity_evidence" /\ a.outcome = "rejected_stale"
      BY <1>1, <1>7, Verdicts
    <2>2. auth.capacity # None /\ ~CurrentOr(r.observed.capacity, {auth.capacity})
      BY <1>1, <1>2, <1>3, <1>7, RulesSay
    <2>3. QED
      BY <2>1, <2>2, TruthfulSays
  <1>8. CASE k = 8
    <2>1. a.axis = "congestion_evidence" /\ a.outcome = "rejected_stale"
      BY <1>1, <1>8, Verdicts
    <2>2. auth.congestion # None /\ ~CurrentOr(r.observed.congestion, {auth.congestion})
      BY <1>1, <1>2, <1>3, <1>8, RulesSay
    <2>3. QED
      BY <2>1, <2>2, TruthfulSays
  <1>9. CASE k \in {9, 10, 12}
    <2>1. a.axis = "topology_generation"
      BY <1>1, <1>9, Verdicts
    <2>2. k = 9 => ~CurrentOr(r.observed.topology, {auth.topology})
      BY <1>1, <1>2, <1>3, RulesSay
    <2>3. k = 10 => auth.topology = None
      BY <1>1, <1>2, RulesSay
    <2>4. k = 12 /\ auth.topology # None => ~TopologyCovers({}, t)
      BY <1>1, TopologyRules
    <2>5. QED
      BY <1>9, <2>1, <2>2, <2>3, <2>4, TruthfulSays
  <1>10. CASE k = 11
    <2>1. a.axis = "participant_liveness"
      BY <1>1, <1>10, Verdicts
    <2>2. ~MembersAreLive(d.participants, t)
      BY <1>1, <1>10, LivenessRule
    <2>3. QED
      BY <2>1, <2>2, TruthfulSays
  <1>11. CASE k \in {2, 3, 13}
    <2>1. a.axis = "plan"
      BY <1>1, <1>11, Verdicts
    <2>2. k \in {2, 3} => ~PlanIsAbout(r.plan, d.participants)
      BY <1>1, PlanRules
    <2>3. k = 13 => ~TopologyCovers(d.participants, t)
      <3> SUFFICES ASSUME k = 13 PROVE ~TopologyCovers(d.participants, t)
        OBVIOUS
      <3>1. ~R(10)
        BY <1>1
      <3>2. auth.topology # None
        BY <1>2, <3>1, RulesSay
      <3>3. QED
        BY <1>1, <3>2, TopologyRules
    <2>4. QED
      BY <1>11, <2>1, <2>2, <2>3, TruthfulSays
  <1>12. k > 6 => auth.policy # None
    <2>1. k > 6 => ~R(6)
      BY <1>1
    <2>2. QED
      BY <1>2, <2>1, RulesSay
  <1>13. CASE k \in {6, 19}
    <2>1. a.axis = "policy_generation" /\ a.outcome # "rejected_stale"
      BY <1>1, <1>13, Verdicts
    <2>2. k = 6 => auth.policy = None
      BY <1>1, <1>2, RulesSay
    <2>3. k = 19 => ClassInForce(r) = None
      <3> SUFFICES ASSUME k = 19 PROVE ClassInForce(r) = None
        OBVIOUS
      <3>1. auth.policy # None /\ \A j \in 14 .. 18 : ~R(j)
        BY <1>1, <1>12
      <3>2. TrafficClass(s, r, d) = Treatment(r, d.class)
        BY <1>1, <3>1, ClassRules
      <3>3. ClassPolicy(s, r, d) = ClassInForce(r)
        BY <1>2, <3>1, <3>2 DEF ClassPolicy, ClassInForce
      <3>4. QED
        BY <1>1, <3>3, RulesSay
    <2>4. QED
      BY <1>13, <2>1, <2>2, <2>3, TruthfulSays
  <1>14. CASE k \in 14 .. 18
    <2>1. /\ a.axis = "semantics"
          /\ a.outcome = "unknown_semantics" <=> k = 18
      BY <1>1, <1>14, Verdicts
    <2>2. Treatment(r, d.class) = "unclassified"
      <3>1. auth.policy # None
        BY <1>12, <1>14
      <3>2. ~(\A j \in 14 .. 18 : ~R(j))
        BY <1>1, <1>14
      <3>3. QED
        BY <1>1, <3>1, <3>2, ClassRules
    <2>3. CollectivePolicy(s, d) = TreatedInForce
      BY <1>2, <1>12, <1>14 DEF CollectivePolicy, TreatedInForce
    <2>4. /\ R(14) <=> TreatedInForce = None
          /\ R(15) <=> ~KnownClass(d.class)
          /\ R(16) => r.requested # None
          /\ R(17) <=> r.requested # None /\ ~Classified(r.requested)
          /\ R(18) <=> ~Classified(TrafficClass(s, r, d))
      BY <2>3, RulesSay
    <2>5. r.requested # None => TrafficClass(s, r, d) = r.requested
      BY DEF TrafficClass
    <2> HIDE DEF R, d
    <2>6. k = 18 <=> /\ r.requested = None /\ KnownClass(d.class) /\ TreatedInForce # None
      <3>1. CASE k \in {14, 15, 16, 17}
        BY <1>1, <2>4, <3>1
      <3>2. CASE k = 18
        <4>1. ~R(14) /\ ~R(15) /\ ~R(17) /\ R(18)
          BY <1>1, <3>2
        <4>2. QED
          BY <2>4, <2>5, <3>2, <4>1
      <3>3. QED
        BY <1>14, <3>1, <3>2
    <2>7. QED
      BY <2>1, <2>2, <2>6, TruthfulSays DEF d
  <1>15. CASE k \in 20 .. 22
    <2>1. \A j \in 1 .. 19 : ~R(j)
      BY <1>1, <1>15
    <2>2. /\ (R(20) \/ R(21)) <=> ~CongestionSupports(r, t)
          /\ R(22) <=> ~CapacitySupports(r, t)
      BY <1>1, <2>1, EvidenceRules
    <2>3. MembersAreLive(d.participants, t)
      BY <1>1, <2>1, LivenessRule
    <2>4. CASE k \in {20, 21}
      <3>1. a.axis = "congestion_evidence" /\ a.outcome # "rejected_stale"
        BY <1>1, <2>4, Verdicts
      <3>2. QED
        BY <1>1, <2>2, <2>3, <2>4, <3>1, TruthfulSays
    <2>5. CASE k = 22
      <3>1. a.axis = "capacity_evidence" /\ a.outcome # "rejected_stale"
        BY <1>1, <2>5, Verdicts
      <3>2. QED
        BY <1>1, <2>2, <2>5, <3>1, TruthfulSays
    <2>6. QED
      BY <1>15, <2>4, <2>5
  <1>16. QED
    BY <1>4, <1>5, <1>6, <1>7, <1>8, <1>9, <1>10, <1>11, <1>13, <1>14, <1>15

\* On every axis a request can be refused on, the axis a refusal names is the one
\* that is not current or will not do, although several may fail at once and only
\* the first is reported, and unknown_semantics means that the policy leaves a known
\* class unclassified, in every state that installs, publications, fences, topology
\* changes and restarts lead to (plan_flow_group, apply_authority_chain, evaluate).
THEOREM RefusalsTruthful == PlanningSpec => []RefusalsAreTruthful
  <1>1. ASSUME IInv, NEW x \in Asked PROVE Truthful(Reply(x), x[1], x[2])
    <2>1. /\ pending = None /\ Len(log) < MaxDecisions /\ running
          /\ x \in Requests(auth.epoch) \X (0 .. now) /\ Wellformed(x[1])
      BY <1>1 DEF Asked
    <2>2. CASE EarlyAxis(x[1]) # "none"
      <3>1. Reply(x) = RefusedRecord(x[1], x[2], "rejected_stale", EarlyAxis(x[1]))
        BY <2>2 DEF Reply
      <3>2. Reply(x).axis = EarlyAxis(x[1])
        BY <3>1 DEF RefusedRecord, Refused, Blank
      <3>3. x[1].instance.attempt # None
        BY <2>1 DEF Wellformed
      <3>4. \/ EarlyAxis(x[1]) = "collective_generation"
                 /\ (record = None \/ record.gen # x[1].instance.gen)
            \/ EarlyAxis(x[1]) = "attempt_generation" /\ record.attempt # x[1].instance.attempt
            \/ EarlyAxis(x[1]) = "lifecycle" /\ record.state \in Terminal
        BY <2>2, <3>3 DEF EarlyAxis
      <3>5. QED
        BY <3>2, <3>4, TruthfulSays
    <2>3. CASE EarlyAxis(x[1]) = "none"
      <3> DEFINE s == Snapshot(x[2])
                 d == DefinitionInForce
      <3>1. x \in Decidable /\ Reply(x) = Answer(x)
        BY <2>1, <2>3 DEF Decidable, ReachesEngine, Reply
      <3>2. Deciding(s, x[1], d, x[2]) /\ Answer(x) = Evaluate(s, x[1], d)
        BY <1>1, <3>1, DecidableDecides DEF IInv
      <3> HIDE DEF s
      <3>3. CASE Grants(Answer(x).outcome) /\ Answer(x) = Decided(23, s, x[1], d)
        <4>1. Answer(x).axis = "none"
          BY <3>3, GrantedFields
        <4>2. QED
          BY <3>1, <3>3, <4>1, TruthfulSays
      <3>4. ASSUME NEW k \in 1 .. 22, Answer(x) = Decided(k, s, x[1], d),
                   Refuses(Order[k], s, x[1], d),
                   \A j \in 1 .. k - 1 : ~Refuses(Order[j], s, x[1], d)
            PROVE  Truthful(Answer(x), x[1], x[2])
        <4>1. /\ Answer(x).outcome = Verdict(Order[k])[1]
              /\ Answer(x).axis = Verdict(Order[k])[2]
          BY <3>4, RefusedFields
        <4>2. QED
          BY <3>2, <3>4, <4>1, FirstRefusalTruthful
      <3>5. QED
        BY <3>1, <3>2, <3>3, <3>4, EvaluateAnswers
    <2>4. QED
      BY <2>2, <2>3
  <1>2. IInv => RefusalsAreTruthful
    BY <1>1 DEF RefusalsAreTruthful
  <1>3. QED
    BY <1>2, Invariance, PTL
-----------------------------------------------------------------------------
(* Loops.                                                                  *)

\* Induction, said of a set.
LEMMA Induction ==
    ASSUME NEW G, 0 \in G, \A k \in Nat : k \in G => k + 1 \in G
    PROVE  \A k \in Nat : k \in G
  <1> SUFFICES ASSUME Nat \ G # {} PROVE FALSE
    OBVIOUS
  <1>1. PICK x \in Nat \ G : \A y \in Nat \ G : x <= y
    BY LeastNumber
  <1>2. PICK y \in Nat : x = y + 1
    BY <1>1
  <1>3. y \in G
    BY <1>1, <1>2
  <1>4. QED
    BY <1>1, <1>2, <1>3

\* f records the states, in S, of a loop of n steps: the k-th step is F[k].
IsTrace(f, S, start, n, F) ==
    /\ f \in [0 .. n -> S]
    /\ f[0] = start
    /\ \A k \in 1 .. n : f[k] = F[k][f[k - 1]]

\* Every loop has such a record.
LEMMA LoopHasATrace ==
    ASSUME NEW S, NEW start \in S, NEW n \in Nat, NEW F \in [1 .. n -> [S -> S]]
    PROVE  \E f : IsTrace(f, S, start, n, F)
  <1> DEFINE Traces(m) ==
                 {f \in [0 .. m -> S] : f[0] = start /\ \A k \in 1 .. m : f[k] = F[k][f[k - 1]]}
             G == {m \in Nat : m <= n => Traces(m) # {}}
  <1>1. 0 \in G
    <2>1. [k \in 0 .. 0 |-> start] \in Traces(0)
      OBVIOUS
    <2>2. QED
      BY <2>1
  <1>2. ASSUME NEW m \in Nat, m \in G PROVE m + 1 \in G
    <2> SUFFICES ASSUME m + 1 <= n PROVE Traces(m + 1) # {}
      OBVIOUS
    <2>1. PICK g \in Traces(m) : TRUE
      BY <1>2
    <2>2. /\ g \in [0 .. m -> S] /\ g[0] = start
          /\ \A k \in 1 .. m : g[k] = F[k][g[k - 1]]
      BY <2>1
    <2>3. m + 1 \in 1 .. n /\ g[m] \in S /\ F[m + 1][g[m]] \in S
      BY <2>2
    <2> DEFINE h == [k \in 0 .. m + 1 |-> IF k = m + 1 THEN F[m + 1][g[m]] ELSE g[k]]
    <2>4. h \in [0 .. m + 1 -> S] /\ h[0] = start
      BY <2>2, <2>3
    <2>5. ASSUME NEW k \in 1 .. m + 1 PROVE h[k] = F[k][h[k - 1]]
      <3>1. CASE k = m + 1
        <4>1. h[k] = F[m + 1][g[m]] /\ k - 1 = m /\ m \in 0 .. m + 1 /\ m # m + 1
          BY <3>1
        <4>2. h[m] = g[m]
          BY <4>1
        <4>3. QED
          BY <3>1, <4>1, <4>2
      <3>2. CASE k # m + 1
        <4>1. k \in 1 .. m /\ k - 1 \in 0 .. m + 1 /\ k - 1 # m + 1
          BY <3>2
        <4>2. h[k] = g[k] /\ h[k - 1] = g[k - 1]
          BY <3>2, <4>1
        <4>3. QED
          BY <2>2, <4>1, <4>2
      <3>3. QED
        BY <3>1, <3>2
    <2>6. h \in Traces(m + 1)
      BY <2>4, <2>5
    <2>7. QED
      BY <2>6
  <1> HIDE DEF G
  <1>3. \A m \in Nat : m \in G
    BY <1>1, <1>2, Induction
  <1>4. Traces(n) # {}
    BY <1>3 DEF G
  <1>5. QED
    BY <1>4 DEF IsTrace

\* The same induction up to n.
LEMMA InductionUpTo ==
    ASSUME NEW n \in Nat, NEW G, 0 \in G, \A k \in 1 .. n : k - 1 \in G => k \in G
    PROVE  \A k \in 0 .. n : k \in G
  <1> DEFINE H == {k \in Nat : k <= n => k \in G}
  <1>1. 0 \in H
    OBVIOUS
  <1>2. ASSUME NEW k \in Nat, k \in H PROVE k + 1 \in H
    <2>1. CASE k + 1 <= n
      <3>1. k + 1 \in 1 .. n /\ (k + 1) - 1 = k /\ k \in G
        BY <1>2, <2>1
      <3>2. QED
        BY <3>1
    <2>2. CASE ~(k + 1 <= n)
      BY <2>2
    <2>3. QED
      BY <2>1, <2>2
  <1> HIDE DEF H
  <1>3. \A k \in Nat : k \in H
    BY <1>1, <1>2, Induction
  <1>4. QED
    BY <1>3 DEF H

\* Two functions that start alike and take the same steps are one.
LEMMA SameTrace ==
    ASSUME NEW n \in Nat, NEW f, NEW g, g[0] = f[0],
           \A k \in 1 .. n : g[k - 1] = f[k - 1] => g[k] = f[k]
    PROVE  \A k \in 0 .. n : g[k] = f[k]
  <1> DEFINE G == {k \in 0 .. n : g[k] = f[k]}
  <1>1. 0 \in G
    OBVIOUS
  <1>2. \A k \in 1 .. n : k - 1 \in G => k \in G
    OBVIOUS
  <1> HIDE DEF G
  <1>3. \A k \in 0 .. n : k \in G
    BY <1>1, <1>2, InductionUpTo
  <1>4. QED
    BY <1>3 DEF G

-----------------------------------------------------------------------------
(* Sorting.                                                                *)

\* A relation that sorts 1 .. n: a strict order, up to elements it does not
\* tell apart.
StrictWeakOrder(R, D) ==
    /\ \A i \in D : <<i, i>> \notin R
    /\ \A i, j, k \in D : <<i, j>> \in R /\ <<j, k>> \in R => <<i, k>> \in R
    /\ \A i, j, k \in D : <<i, k>> \in R => <<i, j>> \in R \/ <<j, k>> \in R

\* A strict total order on 1 .. n puts the positions in order: the place of one
\* is the number of those before it.
LEMMA TotalOrderSorts ==
    ASSUME NEW n \in Nat, NEW L,
           \A i \in 1 .. n : <<i, i>> \notin L,
           \A i, j, k \in 1 .. n : <<i, j>> \in L /\ <<j, k>> \in L => <<i, k>> \in L,
           \A i, j \in 1 .. n : i # j => <<i, j>> \in L \/ <<j, i>> \in L
    PROVE  \E p \in Bijection(1 .. n, 1 .. n) :
               \A i, j \in 1 .. n : <<p[i], p[j]>> \in L => i < j
  <1> DEFINE D == 1 .. n
             Before(i) == {j \in D : <<j, i>> \in L}
             rank == [i \in D |-> Cardinality(Before(i)) + 1]
  <1>1. IsFiniteSet(D) /\ Cardinality(D) = n
    BY FS_Interval
  <1>2. ASSUME NEW i \in D
        PROVE  IsFiniteSet(Before(i)) /\ Cardinality(Before(i)) \in Nat /\ Cardinality(Before(i)) < n
    <2>1. Before(i) \in SUBSET D /\ i \in D /\ i \notin Before(i)
      OBVIOUS
    <2> HIDE DEF Before, D
    <2>2. IsFiniteSet(Before(i)) /\ Cardinality(Before(i)) <= n /\ Before(i) # D
      BY <1>1, <2>1, FS_Subset
    <2>3. Cardinality(Before(i)) # n
      BY <1>1, <2>1, <2>2, FS_Subset
    <2>4. Cardinality(Before(i)) \in Nat
      BY <2>2, FS_CardinalityType
    <2>5. QED
      BY <2>2, <2>3, <2>4
  <1>3. rank \in [D -> D]
    BY <1>2
  <1>4. ASSUME NEW i \in D, NEW j \in D, <<i, j>> \in L
        PROVE  rank[i] < rank[j]
    <2>1. Before(i) \in SUBSET Before(j)
      BY <1>4
    <2>2. i \in Before(j) /\ i \notin Before(i)
      BY <1>4
    <2>3. IsFiniteSet(Before(j)) /\ Cardinality(Before(j)) \in Nat /\ Cardinality(Before(i)) \in Nat
      BY <1>2
    <2>4. Cardinality(Before(i)) <= Cardinality(Before(j))
      BY <2>1, <2>3, FS_Subset
    <2>5. Cardinality(Before(i)) # Cardinality(Before(j))
      BY <2>1, <2>2, <2>3, FS_Subset
    <2>6. Cardinality(Before(i)) < Cardinality(Before(j))
      BY <2>3, <2>4, <2>5
    <2>7. QED
      BY <2>3, <2>6
  <1> HIDE DEF rank, Before
  <1>5. ASSUME NEW i \in D, NEW j \in D, i # j
        PROVE  rank[i] # rank[j]
    <2>1. <<i, j>> \in L \/ <<j, i>> \in L
      BY <1>5
    <2>2. rank[i] \in Nat /\ rank[j] \in Nat
      BY <1>3
    <2>3. QED
      BY <1>4, <2>1, <2>2
  <1>6. rank \in Injection(D, D)
    BY <1>3, <1>5 DEF Injection, IsInjective
  <1>7. rank \in Surjection(D, D)
    BY <1>1, <1>6, FS_Injection
  <1>8. \A m \in D : \E i \in D : rank[i] = m
    BY <1>7 DEF Surjection
  <1> DEFINE p == [m \in D |-> CHOOSE i \in D : rank[i] = m]
  <1>9. \A m \in D : p[m] \in D /\ rank[p[m]] = m
    BY <1>8
  <1>10. p \in [D -> D]
    BY <1>9
  <1> HIDE DEF p
  <1>11. p \in Bijection(D, D)
    <2>1. \A a, b \in D : p[a] = p[b] => a = b
      BY <1>9
    <2>2. \A i \in D : \E m \in D : p[m] = i
      <3> SUFFICES ASSUME NEW i \in D PROVE p[rank[i]] = i
        BY <1>3
      <3>1. rank[i] \in D
        BY <1>3
      <3>2. p[rank[i]] \in D /\ rank[p[rank[i]]] = rank[i]
        BY <1>9, <3>1
      <3>3. QED
        BY <1>5, <3>2
    <2>3. QED
      BY <1>10, <2>1, <2>2 DEF Bijection, Injection, Surjection, IsInjective
  <1>12. ASSUME NEW i \in D, NEW j \in D, <<p[i], p[j]>> \in L PROVE i < j
    BY <1>4, <1>9, <1>12
  <1>13. QED
    BY <1>11, <1>12

\* A strict weak order does, too: ties go by position.
LEMMA WeakOrderSorts ==
    ASSUME NEW n \in Nat, NEW R, StrictWeakOrder(R, 1 .. n)
    PROVE  \E p \in Bijection(1 .. n, 1 .. n) :
               \A i, j \in 1 .. n : <<p[i], p[j]>> \in R => i < j
  <1> DEFINE D == 1 .. n
             L == {x \in D \X D : x \in R \/ (<<x[2], x[1]>> \notin R /\ x[1] < x[2])}
  <1>1. \A i, j \in D : <<i, j>> \in L <=> <<i, j>> \in R \/ (<<j, i>> \notin R /\ i < j)
    OBVIOUS
  <1>2. /\ \A i \in D : <<i, i>> \notin R
        /\ \A i, j, k \in D : <<i, j>> \in R /\ <<j, k>> \in R => <<i, k>> \in R
        /\ \A i, j, k \in D : <<i, k>> \in R => <<i, j>> \in R \/ <<j, k>> \in R
    BY DEF StrictWeakOrder
  <1>3. \A i, j \in D : i \in Nat /\ (i # j => i < j \/ j < i)
    OBVIOUS
  <1> HIDE DEF L, D
  <1>4. ASSUME NEW i \in D PROVE <<i, i>> \notin L
    <2>1. i \in Nat /\ ~(i < i) /\ <<i, i>> \notin R
      BY <1>2, <1>3
    <2>2. QED
      BY <1>1, <2>1
  <1>5. \A i, j \in D : i # j => <<i, j>> \in L \/ <<j, i>> \in L
    BY <1>3, <1>1
  <1>6. ASSUME NEW i \in D, NEW j \in D, NEW k \in D, <<i, j>> \in L, <<j, k>> \in L
        PROVE  <<i, k>> \in L
    <2>1. <<i, j>> \in R \/ (<<j, i>> \notin R /\ i < j)
      BY <1>1, <1>6
    <2>2. <<j, k>> \in R \/ (<<k, j>> \notin R /\ j < k)
      BY <1>1, <1>6
    <2>3. i \in Nat /\ j \in Nat /\ k \in Nat
      BY <1>3
    <2>4. CASE <<i, k>> \in R
      BY <1>1, <2>4
    <2>5. CASE <<i, k>> \notin R
      <3>1. <<i, j>> \notin R \/ <<j, k>> \notin R
        BY <1>2, <2>5
      <3>2. <<k, i>> \notin R
        <4>1. <<j, i>> \notin R /\ <<k, j>> \notin R
          BY <1>2, <2>1, <2>2
        <4>2. QED
          BY <1>2, <4>1
      <3>3. CASE <<i, j>> \notin R /\ <<j, k>> \notin R
        BY <1>1, <2>1, <2>2, <2>3, <3>2, <3>3
      <3>4. CASE <<i, j>> \in R
        BY <1>2, <2>2, <2>5, <3>1, <3>4
      <3>5. CASE <<j, k>> \in R
        BY <1>2, <2>1, <2>5, <3>1, <3>5
      <3>6. QED
        BY <3>3, <3>4, <3>5
    <2>6. QED
      BY <2>4, <2>5
  <1>7. PICK p \in Bijection(D, D) : \A i, j \in D : <<p[i], p[j]>> \in L => i < j
    BY <1>4, <1>5, <1>6, TotalOrderSorts DEF D
  <1>8. \A i \in D : p[i] \in D
    BY DEF Bijection, Injection
  <1>9. QED
    BY <1>1, <1>7, <1>8 DEF D

\* The edges std::sort is asked to order, and the ends of edges.
Edge == [step : Nat, source : Nat, destination : Nat, bytes : 0 .. Word - 1,
         crosses_rack : BOOLEAN]

\* There is an arrangement the canonical order asks for, and it is one.
LEMMA CanonicalIsSorted ==
    ASSUME NEW e \in Seq(Edge)
    PROVE  \E p \in Bijection(DOMAIN e, DOMAIN e) :
               /\ Canonical(e) = [i \in DOMAIN e |-> e[p[i]]]
               /\ \A i, j \in DOMAIN e : EdgeLess(Canonical(e)[i], Canonical(e)[j]) => i < j
  <1> DEFINE n == Len(e)
             R == {x \in (1 .. n) \X (1 .. n) : EdgeLess(e[x[1]], e[x[2]])}
  <1>1. n \in Nat /\ DOMAIN e = 1 .. n /\ \A i \in 1 .. n : e[i] \in Edge
    OBVIOUS
  <1>2. \A i, j \in 1 .. n : <<i, j>> \in R <=> EdgeLess(e[i], e[j])
    OBVIOUS
  <1>3. \A a \in Edge : ~EdgeLess(a, a)
    BY DEF EdgeLess, Edge
  <1>4. \A a, b, c \in Edge : EdgeLess(a, b) /\ EdgeLess(b, c) => EdgeLess(a, c)
    BY DEF EdgeLess, Edge
  <1>5. \A a, b, c \in Edge : EdgeLess(a, c) => EdgeLess(a, b) \/ EdgeLess(b, c)
    BY DEF EdgeLess, Edge
  <1> HIDE DEF R, n
  <1>6. StrictWeakOrder(R, 1 .. n)
    <2>1. \A i \in 1 .. n : <<i, i>> \notin R
      BY <1>1, <1>2, <1>3
    <2>2. \A i, j, k \in 1 .. n : <<i, j>> \in R /\ <<j, k>> \in R => <<i, k>> \in R
      BY <1>1, <1>2, <1>4
    <2>3. \A i, j, k \in 1 .. n : <<i, k>> \in R => <<i, j>> \in R \/ <<j, k>> \in R
      BY <1>1, <1>2, <1>5
    <2>4. QED
      BY <2>1, <2>2, <2>3 DEF StrictWeakOrder
  <1>7. PICK p \in Bijection(1 .. n, 1 .. n) :
               \A i, j \in 1 .. n : <<p[i], p[j]>> \in R => i < j
    BY <1>1, <1>6, WeakOrderSorts
  <1>8. \A i \in 1 .. n : p[i] \in 1 .. n
    BY DEF Bijection, Injection
  <1> DEFINE s == [i \in 1 .. n |-> e[p[i]]]
  <1>9. s \in Arrangements(e)
    BY <1>1, <1>7 DEF Arrangements
  <1>10. \A i, j \in 1 .. n : EdgeLess(s[i], s[j]) => i < j
    BY <1>2, <1>7, <1>8
  <1> DEFINE t == Canonical(e)
  <1>11. t \in Arrangements(e) /\ \A i, j \in DOMAIN e : EdgeLess(t[i], t[j]) => i < j
    BY <1>1, <1>9, <1>10 DEF Canonical
  <1>12. PICK q \in Bijection(DOMAIN e, DOMAIN e) : t = [i \in DOMAIN e |-> e[q[i]]]
    BY <1>11 DEF Arrangements
  <1>13. QED
    BY <1>11, <1>12

\* The same of the ends of edges, which may repeat.
LEMMA AscendingIsSorted ==
    ASSUME NEW e \in Seq(Nat)
    PROVE  \E p \in Bijection(DOMAIN e, DOMAIN e) :
               /\ Ascending(e) = [i \in DOMAIN e |-> e[p[i]]]
               /\ \A i, j \in DOMAIN e : Ascending(e)[i] < Ascending(e)[j] => i < j
  <1> DEFINE n == Len(e)
             R == {x \in (1 .. n) \X (1 .. n) : e[x[1]] < e[x[2]]}
  <1>1. n \in Nat /\ DOMAIN e = 1 .. n /\ \A i \in 1 .. n : e[i] \in Nat
    OBVIOUS
  <1>2. \A i, j \in 1 .. n : <<i, j>> \in R <=> e[i] < e[j]
    OBVIOUS
  <1> HIDE DEF R, n
  <1>3. StrictWeakOrder(R, 1 .. n)
    <2>1. \A i \in 1 .. n : <<i, i>> \notin R
      BY <1>1, <1>2
    <2>2. \A i, j, k \in 1 .. n : <<i, j>> \in R /\ <<j, k>> \in R => <<i, k>> \in R
      BY <1>1, <1>2
    <2>3. \A i, j, k \in 1 .. n : <<i, k>> \in R => <<i, j>> \in R \/ <<j, k>> \in R
      BY <1>1, <1>2
    <2>4. QED
      BY <2>1, <2>2, <2>3 DEF StrictWeakOrder
  <1>4. PICK p \in Bijection(1 .. n, 1 .. n) :
               \A i, j \in 1 .. n : <<p[i], p[j]>> \in R => i < j
    BY <1>1, <1>3, WeakOrderSorts
  <1>5. \A i \in 1 .. n : p[i] \in 1 .. n
    BY DEF Bijection, Injection
  <1> DEFINE s == [i \in 1 .. n |-> e[p[i]]]
  <1>6. s \in Arrangements(e)
    BY <1>1, <1>4 DEF Arrangements
  <1>7. \A i, j \in 1 .. n : s[i] < s[j] => i < j
    BY <1>2, <1>4, <1>5
  <1> DEFINE t == Ascending(e)
  <1>8. t \in Arrangements(e) /\ \A i, j \in DOMAIN e : t[i] < t[j] => i < j
    BY <1>1, <1>6, <1>7 DEF Ascending
  <1>9. PICK q \in Bijection(DOMAIN e, DOMAIN e) : t = [i \in DOMAIN e |-> e[q[i]]]
    BY <1>8 DEF Arrangements
  <1>10. QED
    BY <1>8, <1>9

\* No obligation is stated twice (validate_flow_group_plan).
Distinct(e) == \A i, j \in DOMAIN e : SameObligation(e[i], e[j]) => i = j

\* The canonical order of distinct obligations is strict and has the same edges.
LEMMA CanonicalOrder ==
    ASSUME NEW e \in Seq(Edge), Distinct(e)
    PROVE  /\ Canonical(e) \in Seq(Edge) /\ Len(Canonical(e)) = Len(e)
           /\ DOMAIN Canonical(e) = 1 .. Len(e)
           /\ ToSet(Canonical(e)) = ToSet(e)
           /\ \A i, j \in 1 .. Len(e) : i < j => EdgeLess(Canonical(e)[i], Canonical(e)[j])
  <1>1. PICK p \in Bijection(DOMAIN e, DOMAIN e) :
               /\ Canonical(e) = [i \in DOMAIN e |-> e[p[i]]]
               /\ \A i, j \in DOMAIN e : EdgeLess(Canonical(e)[i], Canonical(e)[j]) => i < j
    BY CanonicalIsSorted
  <1>2. PICK n, t : n = Len(e) /\ t = Canonical(e)
    OBVIOUS
  <1>3. n \in Nat /\ DOMAIN e = 1 .. n /\ \A i \in 1 .. n : e[i] \in Edge
    BY <1>2
  <1>4. /\ \A i \in 1 .. n : p[i] \in 1 .. n
        /\ \A i, j \in 1 .. n : p[i] = p[j] => i = j
        /\ \A j \in 1 .. n : \E i \in 1 .. n : p[i] = j
    BY <1>3 DEF Bijection, Injection, Surjection, IsInjective
  <1>5. t = [i \in 1 .. n |-> e[p[i]]]
    BY <1>1, <1>2, <1>3
  <1>6. t \in Seq(Edge) /\ Len(t) = n /\ DOMAIN t = 1 .. n
    BY <1>3, <1>4, <1>5
  <1>7. ToSet(t) = ToSet(e)
    <2>1. \A x : (\E i \in 1 .. n : t[i] = x) <=> (\E j \in 1 .. n : e[j] = x)
      BY <1>4, <1>5
    <2>2. QED
      BY <1>3, <1>6, <2>1 DEF ToSet
  <1>8. ASSUME NEW i \in 1 .. n, NEW j \in 1 .. n, i < j PROVE EdgeLess(t[i], t[j])
    <2>1. t[i] = e[p[i]] /\ t[j] = e[p[j]] /\ p[i] \in 1 .. n /\ p[j] \in 1 .. n
      BY <1>4, <1>5
    <2>2. p[i] # p[j]
      BY <1>4, <1>8
    <2>3. ~SameObligation(t[i], t[j])
      BY <1>3, <2>1, <2>2 DEF Distinct
    <2>4. ~EdgeLess(t[j], t[i])
      <3>1. ~(j < i)
        BY <1>8
      <3>2. QED
        BY <1>1, <1>2, <1>3, <3>1
    <2>5. t[i] \in Edge /\ t[j] \in Edge
      BY <1>3, <2>1
    <2>6. QED
      BY <2>3, <2>4, <2>5 DEF EdgeLess, SameObligation, Edge
  <1>9. QED
    BY <1>2, <1>6, <1>7, <1>8

\* A plan of distinct obligations has as many edges as it has obligations.
LEMMA LengthOfDistinct ==
    ASSUME NEW e \in Seq(Edge), Distinct(e)
    PROVE  IsFiniteSet(ToSet(e)) /\ Cardinality(ToSet(e)) = Len(e)
  <1>1. PICK n : n = Len(e)
    OBVIOUS
  <1>2. n \in Nat /\ DOMAIN e = 1 .. n /\ e \in [1 .. n -> ToSet(e)]
    BY <1>1 DEF ToSet
  <1>3. \A i, j \in 1 .. n : e[i] = e[j] => i = j
    BY <1>2 DEF Distinct, SameObligation
  <1>4. e \in Surjection(1 .. n, ToSet(e))
    BY <1>2 DEF Surjection, ToSet
  <1>5. e \in Injection(1 .. n, ToSet(e))
    BY <1>2, <1>3 DEF Injection, IsInjective
  <1>6. IsFiniteSet(1 .. n) /\ Cardinality(1 .. n) = n
    BY <1>2, FS_Interval
  <1>7. QED
    BY <1>1, <1>4, <1>5, <1>6, FS_Surjection

\* The same obligations, however stated, have one canonical order.
LEMMA CanonicalIsUnique ==
    ASSUME NEW e \in Seq(Edge), NEW f \in Seq(Edge), Distinct(e), Distinct(f),
           ToSet(e) = ToSet(f)
    PROVE  Canonical(e) = Canonical(f)
  <1>1. PICK n, s, t : n = Len(e) /\ s = Canonical(e) /\ t = Canonical(f)
    OBVIOUS
  <1>2. Len(f) = n /\ n \in Nat
    BY <1>1, LengthOfDistinct
  <1>3. /\ s \in Seq(Edge) /\ Len(s) = n /\ DOMAIN s = 1 .. n /\ ToSet(s) = ToSet(e)
        /\ \A i, j \in 1 .. n : i < j => EdgeLess(s[i], s[j])
    BY <1>1, CanonicalOrder
  <1>4. /\ t \in Seq(Edge) /\ Len(t) = n /\ DOMAIN t = 1 .. n /\ ToSet(t) = ToSet(e)
        /\ \A i, j \in 1 .. n : i < j => EdgeLess(t[i], t[j])
    BY <1>1, <1>2, CanonicalOrder
  <1>5. /\ \A i \in 1 .. n : s[i] \in Edge /\ t[i] \in Edge
        /\ \A i \in 1 .. n : \E j \in 1 .. n : s[i] = t[j]
        /\ \A i \in 1 .. n : \E j \in 1 .. n : t[i] = s[j]
    <2>1. \A i \in 1 .. n : s[i] \in ToSet(t) /\ t[i] \in ToSet(s)
      <3>1. \A i \in 1 .. n : s[i] \in ToSet(s)
        BY <1>3 DEF ToSet
      <3>2. \A i \in 1 .. n : t[i] \in ToSet(t)
        BY <1>4 DEF ToSet
      <3>3. QED
        BY <1>3, <1>4, <3>1, <3>2
    <2>2. \A i \in 1 .. n : s[i] \in Edge /\ t[i] \in Edge
      <3>1. \A i \in 1 .. n : s[i] \in Edge
        BY <1>3
      <3>2. \A i \in 1 .. n : t[i] \in Edge
        BY <1>4
      <3>3. QED
        BY <3>1, <3>2
    <2>3. \A x \in ToSet(t) : \E j \in 1 .. n : x = t[j]
      BY <1>4 DEF ToSet
    <2>4. \A x \in ToSet(s) : \E j \in 1 .. n : x = s[j]
      BY <1>3 DEF ToSet
    <2>5. QED
      BY <2>1, <2>2, <2>3, <2>4
  <1>6. \A a, b \in Edge : ~(EdgeLess(a, b) /\ EdgeLess(b, a))
    BY DEF EdgeLess, Edge
  <1> DEFINE Bad == {i \in 1 .. n : s[i] # t[i]}
  <1>7. Bad = {}
    <2> SUFFICES ASSUME Bad # {} PROVE FALSE
      OBVIOUS
    <2>1. PICK x \in Bad : \A y \in Bad : x <= y
      <3>1. Bad \subseteq Nat
        BY <1>2
      <3> HIDE DEF Bad
      <3>2. QED
        BY <3>1, LeastNumber
    <2>2. x \in 1 .. n /\ s[x] # t[x]
      BY <2>1
    <2>3. \A y \in 1 .. n : y < x => s[y] = t[y]
      BY <1>2, <2>1
    <2>4. PICK j \in 1 .. n : s[x] = t[j]
      BY <1>5, <2>2
    <2>5. PICK k \in 1 .. n : t[x] = s[k]
      BY <1>5, <2>2
    <2>6. j # x /\ k # x
      BY <2>2, <2>4, <2>5
    <2>7. ~(j < x)
      <3> SUFFICES ASSUME j < x PROVE FALSE
        OBVIOUS
      <3>1. EdgeLess(s[j], s[x]) /\ s[j] = s[x]
        BY <1>3, <2>2, <2>3, <2>4
      <3>2. QED
        BY <1>5, <1>6, <2>2, <3>1
    <2>8. ~(k < x)
      <3> SUFFICES ASSUME k < x PROVE FALSE
        OBVIOUS
      <3>1. EdgeLess(t[k], t[x]) /\ t[k] = t[x]
        BY <1>4, <2>2, <2>3, <2>5
      <3>2. QED
        BY <1>5, <1>6, <2>2, <3>1
    <2>9. x < j /\ x < k
      BY <1>2, <2>2, <2>6, <2>7, <2>8
    <2>10. EdgeLess(t[x], t[j]) /\ EdgeLess(s[x], s[k])
      BY <1>3, <1>4, <2>2, <2>9
    <2>11. QED
      BY <1>5, <1>6, <2>2, <2>4, <2>5, <2>10
  <1>8. s = t
    <2>1. \A i \in 1 .. n : s[i] = t[i]
      BY <1>7
    <2>2. s = [i \in 1 .. n |-> s[i]] /\ t = [i \in 1 .. n |-> t[i]]
      BY <1>3, <1>4
    <2>3. QED
      BY <2>1, <2>2
  <1>9. QED
    BY <1>1, <1>8

-----------------------------------------------------------------------------
(* Sums.                                                                   *)

\* u holds the sums of the first numbers of f.
IsSum(u, f, n) ==
    /\ u \in [0 .. n -> Nat]
    /\ u[0] = 0
    /\ \A k \in 1 .. n : u[k] = u[k - 1] + f[k]

\* They exist.
LEMMA SumExists ==
    ASSUME NEW n \in Nat, NEW f \in [1 .. n -> Nat]
    PROVE  \E u : IsSum(u, f, n)
  <1> DEFINE F == [k \in 1 .. n |-> [x \in Nat |-> x + f[k]]]
  <1>1. F \in [1 .. n -> [Nat -> Nat]]
    OBVIOUS
  <1>2. \A k \in 1 .. n, x \in Nat : F[k][x] = x + f[k]
    OBVIOUS
  <1> HIDE DEF F
  <1>3. PICK u : IsTrace(u, Nat, 0, n, F)
    BY <1>1, LoopHasATrace
  <1>4. ASSUME NEW k \in 1 .. n PROVE u[k] = u[k - 1] + f[k]
    <2>1. k - 1 \in 0 .. n
      OBVIOUS
    <2>2. u[k - 1] \in Nat
      BY <1>3, <2>1 DEF IsTrace
    <2>3. QED
      BY <1>2, <1>3, <2>2 DEF IsTrace
  <1>5. QED
    BY <1>3, <1>4 DEF IsSum, IsTrace

\* No sum exceeds a later one.
LEMMA SumGrows ==
    ASSUME NEW n \in Nat, NEW f \in [1 .. n -> Nat], NEW u, IsSum(u, f, n)
    PROVE  \A k \in 0 .. n : u[k] <= u[n]
  <1>1. u \in [0 .. n -> Nat] /\ \A k \in 1 .. n : u[k] = u[k - 1] + f[k]
    BY DEF IsSum
  <1> DEFINE G == {k \in Nat : k <= n => u[n - k] <= u[n]}
  <1>2. 0 \in G
    BY <1>1
  <1>3. ASSUME NEW k \in Nat, k \in G PROVE k + 1 \in G
    <2> SUFFICES ASSUME k + 1 <= n PROVE u[n - (k + 1)] <= u[n]
      OBVIOUS
    <2>1. n - k \in 1 .. n /\ (n - k) - 1 = n - (k + 1) /\ n - (k + 1) \in 0 .. n /\ n \in 0 .. n
      OBVIOUS
    <2>2. u[n - k] <= u[n]
      BY <1>3
    <2>3. u[n - k] = u[n - (k + 1)] + f[n - k]
      BY <1>1, <2>1
    <2>4. u[n - (k + 1)] \in Nat /\ f[n - k] \in Nat /\ u[n] \in Nat
      BY <1>1, <2>1
    <2>5. QED
      BY <2>2, <2>3, <2>4
  <1> HIDE DEF G
  <1>4. \A k \in Nat : k \in G
    BY <1>2, <1>3, Induction
  <1>5. ASSUME NEW k \in 0 .. n PROVE u[k] <= u[n]
    <2>1. n - k \in Nat /\ n - k <= n /\ n - (n - k) = k
      OBVIOUS
    <2>2. QED
      BY <1>4, <2>1 DEF G
  <1>6. QED
    BY <1>5

\* g is f with d added to the number at x.
Raised(f, g, n, x, d) ==
    /\ f \in [1 .. n -> Nat] /\ g \in [1 .. n -> Nat] /\ x \in 1 .. n /\ d \in Nat
    /\ g[x] = f[x] + d
    /\ \A k \in 1 .. n : k # x => g[k] = f[k]

\* That adds d to the sum.
LEMMA SumChanges ==
    ASSUME NEW n \in Nat, NEW f, NEW g, NEW x, NEW d, Raised(f, g, n, x, d),
           NEW u, NEW v, IsSum(u, f, n), IsSum(v, g, n)
    PROVE  v[n] = u[n] + d
  <1> DEFINE G == {k \in 0 .. n : v[k] = u[k] + (IF k < x THEN 0 ELSE d)}
  <1>1. /\ f \in [1 .. n -> Nat] /\ g \in [1 .. n -> Nat] /\ x \in 1 .. n /\ d \in Nat
        /\ g[x] = f[x] + d
        /\ \A k \in 1 .. n : k # x => g[k] = f[k]
    BY DEF Raised
  <1>2. /\ u \in [0 .. n -> Nat] /\ u[0] = 0 /\ \A k \in 1 .. n : u[k] = u[k - 1] + f[k]
        /\ v \in [0 .. n -> Nat] /\ v[0] = 0 /\ \A k \in 1 .. n : v[k] = v[k - 1] + g[k]
    BY DEF IsSum
  <1>3. 0 \in G
    BY <1>1, <1>2
  <1>4. ASSUME NEW k \in 1 .. n, k - 1 \in G PROVE k \in G
    <2>1. v[k - 1] = u[k - 1] + (IF k - 1 < x THEN 0 ELSE d)
      BY <1>4
    <2>2. u[k] = u[k - 1] + f[k] /\ v[k] = v[k - 1] + g[k]
      BY <1>2
    <2>3. u[k - 1] \in Nat /\ v[k - 1] \in Nat /\ f[k] \in Nat /\ g[k] \in Nat
      <3>1. k - 1 \in 0 .. n
        OBVIOUS
      <3>2. QED
        BY <1>1, <1>2, <3>1
    <2>4. CASE k = x
      <3>1. v[k - 1] = u[k - 1] /\ g[k] = f[k] + d /\ k - 1 \in Int /\ ~(k < x)
        BY <1>1, <2>1, <2>3, <2>4
      <3>2. PICK a, b : a = u[k - 1] /\ b = f[k]
        OBVIOUS
      <3>3. a \in Nat /\ b \in Nat
        BY <2>3, <3>2
      <3>4. v[k] = a + (b + d) /\ u[k] = a + b
        BY <2>2, <3>1, <3>2
      <3>5. v[k] = u[k] + d
        BY <1>1, <3>3, <3>4
      <3>6. QED
        BY <3>1, <3>5
    <2>5. CASE k # x
      <3>1. g[k] = f[k]
        BY <1>1, <2>5
      <3>2. k - 1 < x <=> k < x
        BY <1>1, <2>5
      <3>3. (IF k - 1 < x THEN 0 ELSE d) = IF k < x THEN 0 ELSE d
        BY <3>2
      <3>4. PICK c \in Nat : c = IF k < x THEN 0 ELSE d
        BY <1>1
      <3>5. PICK a, b : a = u[k - 1] /\ b = f[k]
        OBVIOUS
      <3>6. a \in Nat /\ b \in Nat
        BY <2>3, <3>5
      <3>7. v[k] = (a + c) + b /\ u[k] = a + b
        BY <2>1, <2>2, <3>1, <3>3, <3>4, <3>5
      <3>8. v[k] = u[k] + c
        BY <3>4, <3>6, <3>7
      <3>9. QED
        BY <3>4, <3>8
    <2>6. QED
      BY <2>4, <2>5
  <1> HIDE DEF G
  <1>5. \A k \in 0 .. n : k \in G
    BY <1>3, <1>4, InductionUpTo
  <1>6. n \in 0 .. n /\ ~(n < x)
    BY <1>1
  <1>7. QED
    BY <1>5, <1>6 DEF G

\* What adds to nothing adds up to nothing.
LEMMA SumOfNothing ==
    ASSUME NEW n \in Nat, NEW f, \A k \in 1 .. n : f[k] = 0, NEW u, IsSum(u, f, n)
    PROVE  u[n] = 0
  <1>1. PICK z : z = [k \in 0 .. n |-> 0]
    OBVIOUS
  <1>2. ASSUME NEW k \in 1 .. n, u[k - 1] = z[k - 1] PROVE u[k] = z[k]
    <2>1. k - 1 \in 0 .. n /\ k \in 0 .. n
      OBVIOUS
    <2>2. u[k] = u[k - 1] + f[k] /\ f[k] = 0 /\ u[k - 1] = 0 /\ z[k] = 0
      BY <1>1, <1>2, <2>1 DEF IsSum
    <2>3. QED
      BY <2>2
  <1>3. u[0] = z[0]
    BY <1>1 DEF IsSum
  <1>4. \A k \in 0 .. n : u[k] = z[k]
    BY <1>2, <1>3, SameTrace
  <1>5. n \in 0 .. n
    OBVIOUS
  <1>6. QED
    BY <1>1, <1>4, <1>5

\* g lists the numbers of f in the order p.
Rearranged(f, g, p, n) ==
    /\ f \in [1 .. n -> Nat] /\ g \in [1 .. n -> Nat]
    /\ p \in Bijection(1 .. n, 1 .. n)
    /\ \A k \in 1 .. n : g[k] = f[p[k]]

\* The order of the numbers does not matter: the sum of the first k of the
\* arranged ones is the sum of all, those not among the k taken as 0.
LEMMA SumOfArranged ==
    ASSUME NEW n \in Nat, NEW f, NEW g, NEW p, Rearranged(f, g, p, n),
           NEW u, NEW v, IsSum(u, f, n), IsSum(v, g, n)
    PROVE  v[n] = u[n]
  <1> DEFINE Seen(k) == {p[i] : i \in 1 .. k}
             Masked(k) == [i \in 1 .. n |-> IF i \in Seen(k) THEN f[i] ELSE 0]
             G == {k \in 0 .. n : \A w : IsSum(w, Masked(k), n) => w[n] = v[k]}
  <1>1. /\ \A i \in 1 .. n : p[i] \in 1 .. n
        /\ \A i, j \in 1 .. n : p[i] = p[j] => i = j
        /\ \A j \in 1 .. n : \E i \in 1 .. n : p[i] = j
    BY DEF Rearranged, Bijection, Injection, Surjection, IsInjective
  <1>2. f \in [1 .. n -> Nat] /\ \A k : Masked(k) \in [1 .. n -> Nat]
    BY DEF Rearranged
  <1>3. 0 \in G
    <2> SUFFICES ASSUME NEW w, IsSum(w, Masked(0), n) PROVE w[n] = v[0]
      OBVIOUS
    <2>1. \A k \in 1 .. n : Masked(0)[k] = 0
      OBVIOUS
    <2> HIDE DEF Masked
    <2>2. w[n] = 0
      BY <2>1, SumOfNothing
    <2>3. QED
      BY <2>2 DEF IsSum
  <1> HIDE DEF Masked, Seen
  <1>4. ASSUME NEW k \in 1 .. n, k - 1 \in G PROVE k \in G
    <2> SUFFICES ASSUME NEW w, IsSum(w, Masked(k), n) PROVE w[n] = v[k]
      OBVIOUS
    <2> DEFINE x == p[k]
               d == f[x]
               before == Masked(k - 1)
               after == Masked(k)
    <2>1. x = p[k] /\ d = f[x] /\ d = f[p[k]]
      OBVIOUS
    <2> HIDE DEF x, d
    <2>2. PICK y : IsSum(y, before, n)
      BY <1>2, <2>1, SumExists
    <2>3. y[n] = v[k - 1]
      BY <1>4, <2>1, <2>2
    <2>4. x \in 1 .. n /\ d \in Nat
      <3>1. x \in 1 .. n
        BY <1>1, <2>1
      <3>2. QED
        BY <1>2, <2>1, <3>1
    <2>5. x \notin Seen(k - 1) /\ x \in Seen(k)
      <3>1. k - 1 \in Nat /\ k \in Nat /\ k \in 1 .. k
        OBVIOUS
      <3>2. \A i \in 1 .. k - 1 : i \in 1 .. n /\ i # k
        OBVIOUS
      <3>3. \A i \in 1 .. k - 1 : p[i] # x
        BY <1>1, <2>1, <3>2
      <3>4. QED
        BY <2>1, <3>1, <3>3 DEF Seen
    <2>6. \A i \in 1 .. n : i # x => (i \in Seen(k - 1) <=> i \in Seen(k))
      <3>1. \A i \in 1 .. k : i = k \/ i \in 1 .. k - 1
        OBVIOUS
      <3>2. \A i \in 1 .. k - 1 : i \in 1 .. k
        OBVIOUS
      <3>3. ASSUME NEW i \in 1 .. n, i # x, i \in Seen(k) PROVE i \in Seen(k - 1)
        <4>1. PICK j \in 1 .. k : i = p[j]
          BY <3>3 DEF Seen
        <4>2. j # k
          BY <2>1, <3>3, <4>1
        <4>3. QED
          BY <3>1, <4>1, <4>2 DEF Seen
      <3>4. ASSUME NEW i \in 1 .. n, i \in Seen(k - 1) PROVE i \in Seen(k)
        BY <3>2, <3>4 DEF Seen
      <3>5. QED
        BY <3>3, <3>4
    <2>7. after[x] = f[x] /\ before[x] = 0 /\ f[x] = d
      BY <2>1, <2>4, <2>5 DEF Masked
    <2>8. after[x] = before[x] + d
      BY <2>4, <2>7
    <2>9. \A i \in 1 .. n : i # x => after[i] = before[i]
      BY <2>1, <2>6 DEF Masked
    <2>10. before \in [1 .. n -> Nat] /\ after \in [1 .. n -> Nat] /\ IsSum(w, after, n)
      BY <1>2, <2>1
    <2> HIDE DEF before, after
    <2>11. w[n] = y[n] + d
      <3>1. Raised(before, after, n, x, d)
        BY <2>4, <2>8, <2>9, <2>10 DEF Raised
      <3>2. QED
        BY <2>2, <2>10, <3>1, SumChanges
    <2>12. v[k] = v[k - 1] + d
      <3>1. g[k] = d
        BY <2>1 DEF Rearranged
      <3>2. QED
        BY <3>1 DEF IsSum
    <2>13. QED
      BY <2>3, <2>11, <2>12
  <1> HIDE DEF G
  <1>5. \A k \in 0 .. n : k \in G
    BY <1>3, <1>4, InductionUpTo
  <1>6. Masked(n) = f
    <2>1. \A i \in 1 .. n : i \in Seen(n)
      BY <1>1 DEF Seen
    <2>2. QED
      BY <1>2, <2>1 DEF Masked
  <1>7. n \in 0 .. n
    OBVIOUS
  <1>8. \A w : IsSum(w, f, n) => w[n] = v[n]
    BY <1>5, <1>6, <1>7 DEF G
  <1>9. QED
    BY <1>8

\* The bytes of the edges of e.
Bytes(e) == [k \in 1 .. Len(e) |-> e[k].bytes]

\* They are numbers.
LEMMA BytesAreNumbers ==
    ASSUME NEW e \in Seq(Edge)
    PROVE  Len(e) \in Nat /\ Bytes(e) \in [1 .. Len(e) -> Nat]
  <1>1. \A k \in 1 .. Len(e) : e[k] \in Edge
    OBVIOUS
  <1>2. \A x \in Edge : x.bytes \in Nat
    BY FlowGroupAssumption DEF Edge
  <1>3. QED
    BY <1>1, <1>2 DEF Bytes

\* The volume of a list of edges is the sum of their bytes.
LEMMA VolumeIsSum ==
    ASSUME NEW e \in Seq(Edge), NEW u, IsSum(u, Bytes(e), Len(e))
    PROVE  Volume(e) = u[Len(e)]
  <1> DEFINE n == Len(e)
             sum == CHOOSE g : g = [k \in 0 .. Len(e) |->
                                       IF k = 0 THEN 0 ELSE g[k - 1] + e[k].bytes]
  <1>1. Volume(e) = sum[n]
    BY DEF Volume
  <1>2. n \in Nat /\ n \in 0 .. n
    OBVIOUS
  <1>3. u \in [0 .. n -> Nat] /\ u[0] = 0 /\ \A k \in 1 .. n : u[k] = u[k - 1] + e[k].bytes
    BY DEF IsSum, Bytes
  <1>4. u = [k \in 0 .. n |-> IF k = 0 THEN 0 ELSE u[k - 1] + e[k].bytes]
    <2>1. \A k \in 0 .. n : k = 0 \/ k \in 1 .. n
      BY <1>2
    <2>2. QED
      BY <1>3, <2>1
  <1>5. sum = [k \in 0 .. n |-> IF k = 0 THEN 0 ELSE sum[k - 1] + e[k].bytes]
    BY <1>4
  <1> HIDE DEF sum, n
  <1>6. sum[0] = u[0]
    BY <1>2, <1>3, <1>5
  <1>7. ASSUME NEW k \in 1 .. n, sum[k - 1] = u[k - 1] PROVE sum[k] = u[k]
    <2>1. k \in 0 .. n /\ k # 0
      BY <1>2
    <2>2. sum[k] = sum[k - 1] + e[k].bytes
      BY <1>5, <2>1
    <2>3. QED
      BY <1>3, <1>7, <2>2
  <1>8. \A k \in 0 .. n : sum[k] = u[k]
    BY <1>2, <1>6, <1>7, SameTrace
  <1>9. QED
    BY <1>1, <1>2, <1>8 DEF n

\* So is the total the code adds up in a word, as long as the sum fits one: no
\* part of it is larger.
LEMMA TotalIsSum ==
    ASSUME NEW e \in Seq(Edge), NEW u, IsSum(u, Bytes(e), Len(e)), u[Len(e)] < Word
    PROVE  Total(e) = u[Len(e)]
  <1> DEFINE n == Len(e)
             upTo == CHOOSE g : g = [k \in 0 .. Len(e) |->
                                       IF k = 0 THEN 0 ELSE (g[k - 1] + e[k].bytes) % Word]
  <1>1. Total(e) = upTo[n]
    BY DEF Total
  <1>2. n \in Nat /\ n \in 0 .. n
    OBVIOUS
  <1>3. u \in [0 .. n -> Nat] /\ u[0] = 0 /\ \A k \in 1 .. n : u[k] = u[k - 1] + e[k].bytes
    BY DEF IsSum, Bytes
  <1>4. \A k \in 0 .. n : u[k] \in Nat /\ u[k] < Word /\ u[k] % Word = u[k]
    <2>1. \A k \in 0 .. n : u[k] <= u[n]
      BY BytesAreNumbers, SumGrows
    <2>2. \A a, b \in Nat : a <= b /\ b < Word => a < Word /\ a % Word = a
      BY FlowGroupAssumption
    <2>3. u[n] \in Nat /\ u[n] < Word
      BY <1>2, <1>3
    <2>4. QED
      BY <1>3, <2>1, <2>2, <2>3
  <1>5. \A k \in 1 .. n : u[k] = (u[k - 1] + e[k].bytes) % Word
    <2>1. \A k \in 1 .. n : k \in 0 .. n
      OBVIOUS
    <2>2. QED
      BY <1>3, <1>4, <2>1
  <1>6. u = [k \in 0 .. n |-> IF k = 0 THEN 0 ELSE (u[k - 1] + e[k].bytes) % Word]
    <2>1. \A k \in 0 .. n : k = 0 \/ k \in 1 .. n
      BY <1>2
    <2>2. QED
      BY <1>3, <1>5, <2>1
  <1>7. upTo = [k \in 0 .. n |-> IF k = 0 THEN 0 ELSE (upTo[k - 1] + e[k].bytes) % Word]
    BY <1>6
  <1> HIDE DEF upTo, n
  <1>8. upTo[0] = u[0]
    BY <1>2, <1>3, <1>7
  <1>9. ASSUME NEW k \in 1 .. n, upTo[k - 1] = u[k - 1] PROVE upTo[k] = u[k]
    <2>1. k \in 0 .. n /\ k # 0
      BY <1>2
    <2>2. upTo[k] = (upTo[k - 1] + e[k].bytes) % Word
      BY <1>7, <2>1
    <2>3. QED
      BY <1>5, <1>9, <2>2
  <1>10. \A k \in 0 .. n : upTo[k] = u[k]
    BY <1>2, <1>8, <1>9, SameTrace
  <1>11. QED
    BY <1>1, <1>2, <1>10 DEF n

\* The group's total is the sum of the bytes its plan states, in whatever order.
LEMMA TotalOfArranged ==
    ASSUME NEW e \in Seq(Edge), NEW t \in Seq(Edge), NEW p \in Bijection(DOMAIN e, DOMAIN e),
           t = [i \in DOMAIN e |-> e[p[i]]], Volume(e) < Word
    PROVE  Total(t) = Volume(e)
  <1>1. PICK n : n = Len(e) /\ n \in Nat
    OBVIOUS
  <1>2. DOMAIN e = 1 .. n /\ DOMAIN t = 1 .. n /\ Len(t) = n
    <2>1. DOMAIN e = 1 .. n /\ DOMAIN t = 1 .. n
      BY <1>1
    <2>2. Len(t) = n
      BY <1>1, <2>1
    <2>3. QED
      BY <2>1, <2>2
  <1>3. p \in Bijection(1 .. n, 1 .. n) /\ \A i \in 1 .. n : p[i] \in 1 .. n
    BY <1>2 DEF Bijection, Injection
  <1>4. PICK u : IsSum(u, Bytes(e), n)
    BY <1>1, BytesAreNumbers, SumExists
  <1>5. Volume(e) = u[n]
    BY <1>1, <1>4, VolumeIsSum
  <1>6. \A k \in 1 .. n : Bytes(t)[k] = Bytes(e)[p[k]]
    BY <1>1, <1>2, <1>3 DEF Bytes
  <1>7. PICK v : IsSum(v, Bytes(t), n)
    BY <1>2, BytesAreNumbers, SumExists
  <1>8. v[n] = u[n]
    <2>1. Rearranged(Bytes(e), Bytes(t), p, n)
      <3>1. Bytes(e) \in [1 .. n -> Nat] /\ Bytes(t) \in [1 .. n -> Nat]
        BY <1>1, <1>2, BytesAreNumbers
      <3>2. QED
        BY <1>3, <1>6, <3>1 DEF Rearranged
    <2>2. QED
      BY <1>1, <1>4, <1>7, <2>1, SumOfArranged
  <1>9. QED
    BY <1>2, <1>5, <1>7, <1>8, TotalIsSum

-----------------------------------------------------------------------------
(* Runs.                                                                   *)

\* The positions of a value.
Occurrences(s, v) == {i \in DOMAIN s : s[i] = v}

\* A list in ascending order, and the positions up to k that hold what k holds.
IsAscending(s) ==
    /\ s \in Seq(Nat)
    /\ \A i, j \in DOMAIN s : s[i] < s[j] => i < j

Alike(s, k) == {j \in 1 .. k : s[j] = s[k]}

\* A run of equal elements ends at k.
RunEnds(s, k) == k = Len(s) \/ s[k + 1] # s[k]

\* Arranging a list keeps the number of times a value occurs in it.
LEMMA OccurrencesArranged ==
    ASSUME NEW n \in Nat, NEW e, NEW t, NEW p, Rearranged(e, t, p, n), NEW v
    PROVE  /\ IsFiniteSet(Occurrences(e, v)) /\ Cardinality(Occurrences(e, v)) \in Nat
           /\ Cardinality(Occurrences(t, v)) = Cardinality(Occurrences(e, v))
  <1> DEFINE A == Occurrences(t, v)
             B == Occurrences(e, v)
             q == [i \in A |-> p[i]]
  <1>1. /\ \A i \in 1 .. n : p[i] \in 1 .. n
        /\ \A i, j \in 1 .. n : p[i] = p[j] => i = j
        /\ \A j \in 1 .. n : \E i \in 1 .. n : p[i] = j
    BY DEF Rearranged, Bijection, Injection, Surjection, IsInjective
  <1>2. DOMAIN e = 1 .. n /\ DOMAIN t = 1 .. n /\ \A i \in 1 .. n : t[i] = e[p[i]]
    BY DEF Rearranged
  <1>3. A \in SUBSET (1 .. n) /\ B \in SUBSET (1 .. n)
    BY <1>2 DEF Occurrences
  <1>4. \A i \in 1 .. n : i \in A <=> p[i] \in B
    BY <1>1, <1>2 DEF Occurrences
  <1> HIDE DEF A, B
  <1>5. q \in [A -> B]
    BY <1>3, <1>4
  <1>6. \A i, j \in A : q[i] = q[j] => i = j
    BY <1>1, <1>3
  <1>7. \A j \in B : \E i \in A : q[i] = j
    <2> SUFFICES ASSUME NEW j \in B PROVE \E i \in A : q[i] = j
      OBVIOUS
    <2>1. PICK i \in 1 .. n : p[i] = j
      BY <1>1, <1>3
    <2>2. i \in A
      BY <1>4, <2>1
    <2>3. QED
      BY <2>1, <2>2
  <1> HIDE DEF q
  <1>8. q \in Bijection(A, B)
    BY <1>5, <1>6, <1>7 DEF Bijection, Injection, Surjection, IsInjective
  <1>9. IsFiniteSet(1 .. n)
    BY FS_Interval
  <1>10. IsFiniteSet(A) /\ IsFiniteSet(B)
    BY <1>3, <1>9, FS_Subset
  <1>11. Cardinality(A) = Cardinality(B)
    BY <1>8, <1>10, FS_Bijection DEF ExistsBijection
  <1>12. Cardinality(B) \in Nat
    BY <1>10, FS_CardinalityType
  <1>13. QED
    BY <1>10, <1>11, <1>12 DEF A, B

\* The run at k is one longer than the one before it, unless that has ended.
LEMMA RunGrows ==
    ASSUME NEW s, IsAscending(s), NEW k \in 1 .. Len(s)
    PROVE  /\ IsFiniteSet(Alike(s, k)) /\ Cardinality(Alike(s, k)) \in Nat
           /\ k = 1 => Cardinality(Alike(s, k)) = 1
           /\ k > 1 /\ RunEnds(s, k - 1) => Cardinality(Alike(s, k)) = 1
           /\ k > 1 /\ ~RunEnds(s, k - 1) =>
                Cardinality(Alike(s, k)) = Cardinality(Alike(s, k - 1)) + 1
  <1> DEFINE n == Len(s)
  <1>1. n \in Nat /\ DOMAIN s = 1 .. n /\ \A i \in 1 .. n : s[i] \in Nat
    BY DEF IsAscending
  <1>2. \A i, j \in 1 .. n : i < j => s[i] <= s[j]
    <2> SUFFICES ASSUME NEW i \in 1 .. n, NEW j \in 1 .. n, i < j PROVE s[i] <= s[j]
      OBVIOUS
    <2>1. ~(j < i)
      OBVIOUS
    <2>2. ~(s[j] < s[i])
      BY <1>1, <2>1 DEF IsAscending
    <2>3. QED
      BY <1>1, <2>2
  <1>3. \A i \in 1 .. n : IsFiniteSet(Alike(s, i)) /\ Cardinality(Alike(s, i)) \in Nat
    <2> SUFFICES ASSUME NEW i \in 1 .. n
                 PROVE  IsFiniteSet(Alike(s, i)) /\ Cardinality(Alike(s, i)) \in Nat
      OBVIOUS
    <2>1. IsFiniteSet(1 .. i) /\ Alike(s, i) \in SUBSET (1 .. i)
      BY FS_Interval DEF Alike
    <2>2. IsFiniteSet(Alike(s, i))
      BY <2>1, FS_Subset
    <2>3. QED
      BY <2>2, FS_CardinalityType
  <1>4. CASE k = 1
    <2>1. 1 .. k = {k}
      BY <1>4
    <2>2. Alike(s, k) = {k}
      BY <2>1 DEF Alike
    <2>3. Cardinality({k}) = 1
      BY FS_Singleton
    <2>4. ~(k > 1)
      BY <1>4
    <2>5. QED
      BY <1>3, <2>2, <2>3, <2>4
  <1>5. CASE k > 1 /\ RunEnds(s, k - 1)
    <2>1. k - 1 \in 1 .. n /\ k - 1 # n /\ (k - 1) + 1 = k
      BY <1>1, <1>5
    <2>2. s[k] # s[k - 1]
      BY <1>5, <2>1 DEF RunEnds
    <2>3. \A j \in 1 .. k : j < k => j \in 1 .. n /\ (j = k - 1 \/ j < k - 1)
      BY <1>1
    <2>4. \A j \in 1 .. k : j < k => s[j] # s[k]
      <3> SUFFICES ASSUME NEW j \in 1 .. k, j < k PROVE s[j] # s[k]
        OBVIOUS
      <3>1. s[j] <= s[k - 1]
        BY <1>1, <1>2, <2>1, <2>3
      <3>2. s[k - 1] <= s[k]
        BY <1>2, <2>1
      <3>3. s[j] \in Nat /\ s[k - 1] \in Nat /\ s[k] \in Nat
        BY <1>1, <2>1, <2>3
      <3>4. QED
        BY <2>2, <3>1, <3>2, <3>3
    <2>5. Alike(s, k) = {k}
      BY <2>4 DEF Alike
    <2>6. QED
      BY <1>3, <1>5, <2>5, FS_Singleton
  <1>6. CASE k > 1 /\ ~RunEnds(s, k - 1)
    <2>1. k - 1 \in 1 .. n /\ (k - 1) + 1 = k
      BY <1>1, <1>6
    <2>2. s[k] = s[k - 1]
      BY <1>6, <2>1 DEF RunEnds
    <2>3. \A j : j \in 1 .. k <=> j \in 1 .. (k - 1) \/ j = k
      BY <1>1, <1>6
    <2>4. Alike(s, k) = Alike(s, k - 1) \cup {k} /\ k \notin Alike(s, k - 1)
      BY <2>2, <2>3 DEF Alike
    <2>5. IsFiniteSet(Alike(s, k - 1))
      BY <1>3, <2>1
    <2>6. Cardinality(Alike(s, k)) = Cardinality(Alike(s, k - 1)) + 1
      BY <2>4, <2>5, FS_AddElement
    <2>7. QED
      BY <1>3, <1>6, <2>6
  <1>7. QED
    BY <1>4, <1>5, <1>6

\* What the loop over an ascending list knows after k elements, having come to the
\* run that is open and the longest that has ended.
RunsCounted(s, k, run, longest) ==
    /\ run \in Nat /\ longest \in Nat
    /\ run = IF k = 0 \/ RunEnds(s, k) THEN 0 ELSE Cardinality(Alike(s, k))
    /\ \A b \in 1 .. k : RunEnds(s, b) => Cardinality(Alike(s, b)) <= longest
    /\ longest = 0 \/ \E b \in 1 .. k : RunEnds(s, b) /\ Cardinality(Alike(s, b)) = longest

\* One more element.
LEMMA RunsCountedOn ==
    ASSUME NEW s, IsAscending(s), NEW k \in 1 .. Len(s), NEW run, NEW longest,
           RunsCounted(s, k - 1, run, longest)
    PROVE  /\ ~RunEnds(s, k) => RunsCounted(s, k, run + 1, longest)
           /\ RunEnds(s, k) =>
                RunsCounted(s, k, 0, IF run + 1 > longest THEN run + 1 ELSE longest)
  <1>1. run \in Nat /\ longest \in Nat /\ Len(s) \in Nat
    BY DEF RunsCounted, IsAscending
  <1>2. run + 1 = Cardinality(Alike(s, k)) /\ Cardinality(Alike(s, k)) \in Nat
    <2>1. CASE k = 1
      BY <2>1, RunGrows DEF RunsCounted
    <2>2. CASE k # 1
      <3>1. k > 1 /\ k - 1 # 0
        BY <1>1, <2>2
      <3>2. QED
        BY <1>1, <3>1, RunGrows DEF RunsCounted
    <2>3. QED
      BY <2>1, <2>2
  <1>3. /\ \A b \in 1 .. k - 1 : RunEnds(s, b) => Cardinality(Alike(s, b)) <= longest
        /\ longest = 0 \/ \E b \in 1 .. k - 1 : RunEnds(s, b) /\ Cardinality(Alike(s, b)) = longest
    BY DEF RunsCounted
  <1>4. /\ k # 0 /\ k \in 1 .. k
        /\ \A b \in 1 .. k : b = k \/ b \in 1 .. k - 1
        /\ \A b \in 1 .. k - 1 : b \in 1 .. k
    BY <1>1
  <1>5. ASSUME ~RunEnds(s, k) PROVE RunsCounted(s, k, run + 1, longest)
    <2>1. \A b \in 1 .. k : RunEnds(s, b) => Cardinality(Alike(s, b)) <= longest
      BY <1>3, <1>4, <1>5
    <2>2. longest = 0 \/ \E b \in 1 .. k : RunEnds(s, b) /\ Cardinality(Alike(s, b)) = longest
      BY <1>3, <1>4
    <2>3. QED
      BY <1>1, <1>2, <1>4, <1>5, <2>1, <2>2 DEF RunsCounted
  <1>6. ASSUME RunEnds(s, k)
        PROVE  RunsCounted(s, k, 0, IF run + 1 > longest THEN run + 1 ELSE longest)
    <2>1. PICK most : most = IF run + 1 > longest THEN run + 1 ELSE longest
      OBVIOUS
    <2>2. most \in Nat /\ longest <= most /\ run + 1 <= most /\ most \in {longest, run + 1}
      BY <1>1, <2>1
    <2>3. \A b \in 1 .. k : RunEnds(s, b) => Cardinality(Alike(s, b)) <= most
      <3> SUFFICES ASSUME NEW b \in 1 .. k, RunEnds(s, b) PROVE Cardinality(Alike(s, b)) <= most
        OBVIOUS
      <3>1. CASE b = k
        BY <1>2, <2>2, <3>1
      <3>2. CASE b \in 1 .. k - 1
        <4>1. Cardinality(Alike(s, b)) <= longest
          BY <1>3, <3>2
        <4>2. Cardinality(Alike(s, b)) \in Nat
          <5>1. b \in 1 .. Len(s)
            BY <1>1, <3>2
          <5>2. QED
            BY <5>1, RunGrows
        <4>3. QED
          BY <1>1, <2>2, <4>1, <4>2
      <3>3. QED
        BY <1>4, <3>1, <3>2
    <2>4. most = 0 \/ \E b \in 1 .. k : RunEnds(s, b) /\ Cardinality(Alike(s, b)) = most
      <3>1. CASE most = longest
        BY <1>3, <1>4, <3>1
      <3>2. CASE most = run + 1
        BY <1>2, <1>4, <1>6, <3>2
      <3>3. QED
        BY <2>2, <3>1, <3>2
    <2>5. RunsCounted(s, k, 0, most)
      BY <1>1, <1>6, <2>2, <2>3, <2>4 DEF RunsCounted
    <2>6. QED
      BY <2>1, <2>5
  <1>7. QED
    BY <1>5, <1>6

\* The positions alike up to the end of a run are all that hold its value.
LEMMA RunIsWhole ==
    ASSUME NEW s, IsAscending(s), NEW b \in 1 .. Len(s), RunEnds(s, b)
    PROVE  Alike(s, b) = Occurrences(s, s[b])
  <1> DEFINE n == Len(s)
  <1>1. n \in Nat /\ DOMAIN s = 1 .. n /\ \A i \in 1 .. n : s[i] \in Nat
    BY DEF IsAscending
  <1>2. ASSUME NEW j \in 1 .. n, s[j] = s[b], j > b PROVE FALSE
    <2>1. b # n /\ b + 1 \in 1 .. n /\ ~(b + 1 < b) /\ ~(j < b + 1)
      <3>1. n \in Nat /\ j \in 1 .. n /\ b \in 1 .. n /\ j > b
        BY <1>1, <1>2
      <3> HIDE DEF n
      <3>2. QED
        BY <3>1
    <2>2. s[b + 1] # s[b]
      BY <2>1 DEF RunEnds
    <2>3. ~(s[b + 1] < s[b]) /\ ~(s[j] < s[b + 1])
      BY <1>1, <2>1 DEF IsAscending
    <2>4. s[b] \in Nat /\ s[b + 1] \in Nat
      BY <1>1, <2>1
    <2>5. QED
      BY <1>2, <2>2, <2>3, <2>4
  <1>3. \A j \in 1 .. n : s[j] = s[b] => j \in 1 .. b
    BY <1>1, <1>2
  <1>4. \A j \in 1 .. b : j \in 1 .. n
    BY <1>1
  <1>5. QED
    BY <1>1, <1>3, <1>4 DEF Alike, Occurrences

\* A value that occurs has a last occurrence, where its run ends.
LEMMA RunOfValue ==
    ASSUME NEW s, IsAscending(s), NEW i \in 1 .. Len(s)
    PROVE  \E b \in 1 .. Len(s) : RunEnds(s, b) /\ s[b] = s[i]
  <1> DEFINE n == Len(s)
             T == {m \in 0 .. n : \E j \in 1 .. n : s[j] = s[i] /\ m = n - j}
  <1>1. n \in Nat
    BY DEF IsAscending
  <1>2. T \in SUBSET Nat /\ n - i \in T
    BY <1>1
  <1>3. PICK m \in T : \A y \in T : m <= y
    <2> HIDE DEF T
    <2>1. QED
      BY <1>2, LeastNumber
  <1>4. PICK b \in 1 .. n : s[b] = s[i] /\ m = n - b
    BY <1>3
  <1>5. RunEnds(s, b)
    <2> SUFFICES ASSUME b # n, s[b + 1] = s[b] PROVE FALSE
      BY DEF RunEnds
    <2>1. b + 1 \in 1 .. n /\ n - (b + 1) \in 0 .. n /\ ~(n - b <= n - (b + 1))
      BY <1>1
    <2>2. n - (b + 1) \in T
      BY <1>4, <2>1
    <2>3. QED
      BY <1>3, <1>4, <2>1, <2>2
  <1>6. QED
    BY <1>4, <1>5

\* One step of the loop that measures the runs.
RunStep(s, k, x) ==
    LET run == x.run + 1
        longest == x.longest
    IN  IF k = Len(s) \/ s[k + 1] # s[k]
        THEN [run |-> 0, longest |-> IF run > longest THEN run ELSE longest]
        ELSE [run |-> run, longest |-> longest]

\* The states it goes through.
IsRunTrace(u, s) ==
    u = [k \in 0 .. Len(s) |-> IF k = 0 THEN [run |-> 0, longest |-> 0]
                                        ELSE RunStep(s, k, u[k - 1])]

\* There are such states.
LEMMA RunTraceExists ==
    ASSUME NEW s, Len(s) \in Nat
    PROVE  \E u : IsRunTrace(u, s)
  <1> DEFINE n == Len(s)
             S == [run : Nat, longest : Nat]
             F == [k \in 1 .. n |-> [x \in S |-> RunStep(s, k, x)]]
             start == [run |-> 0, longest |-> 0]
  <1>1. start \in S
    OBVIOUS
  <1>2. \A k \in 1 .. n, x \in S : RunStep(s, k, x) \in S
    BY DEF RunStep
  <1>3. F \in [1 .. n -> [S -> S]] /\ \A k \in 1 .. n, x \in S : F[k][x] = RunStep(s, k, x)
    BY <1>2
  <1> HIDE DEF F, S, start
  <1>4. PICK u : IsTrace(u, S, start, n, F)
    BY <1>1, <1>3, LoopHasATrace
  <1>5. \A k \in 0 .. n : k = 0 \/ (k \in 1 .. n /\ k - 1 \in 0 .. n)
    OBVIOUS
  <1>6. \A k \in 0 .. n : u[k] = IF k = 0 THEN start ELSE RunStep(s, k, u[k - 1])
    BY <1>3, <1>4, <1>5 DEF IsTrace
  <1>7. IsRunTrace(u, s)
    BY <1>4, <1>6 DEF IsTrace, IsRunTrace, start
  <1>8. QED
    BY <1>7

\* They count the runs.
LEMMA RunTraceCounts ==
    ASSUME NEW s, IsAscending(s), NEW u, IsRunTrace(u, s)
    PROVE  RunsCounted(s, Len(s), u[Len(s)].run, u[Len(s)].longest)
  <1> DEFINE n == Len(s)
             G == {k \in 0 .. n : RunsCounted(s, k, u[k].run, u[k].longest)}
  <1>1. n \in Nat /\ n \in 0 .. n
    BY DEF IsAscending
  <1>2. 0 \in G
    <2>1. u[0] = [run |-> 0, longest |-> 0]
      BY <1>1 DEF IsRunTrace
    <2>2. u[0].run = 0 /\ u[0].longest = 0
      BY <2>1
    <2>3. RunsCounted(s, 0, 0, 0)
      BY DEF RunsCounted
    <2>4. QED
      BY <1>1, <2>2, <2>3
  <1>3. ASSUME NEW k \in 1 .. n, k - 1 \in G PROVE k \in G
    <2>1. RunsCounted(s, k - 1, u[k - 1].run, u[k - 1].longest)
      BY <1>3
    <2>2. k \in 0 .. n /\ k # 0
      OBVIOUS
    <2>3. u[k] = RunStep(s, k, u[k - 1])
      BY <2>2 DEF IsRunTrace
    <2> DEFINE run == u[k - 1].run
               longest == u[k - 1].longest
    <2>4. CASE RunEnds(s, k)
      <3>1. u[k] = [run |-> 0, longest |-> IF run + 1 > longest THEN run + 1 ELSE longest]
        BY <2>3, <2>4 DEF RunStep, RunEnds
      <3>2. u[k].run = 0 /\ u[k].longest = IF run + 1 > longest THEN run + 1 ELSE longest
        BY <3>1
      <3> HIDE DEF run, longest
      <3>3. QED
        BY <2>1, <2>2, <2>4, <3>2, RunsCountedOn DEF run, longest
    <2>5. CASE ~RunEnds(s, k)
      <3>1. u[k] = [run |-> run + 1, longest |-> longest]
        BY <2>3, <2>5 DEF RunStep, RunEnds
      <3>2. u[k].run = run + 1 /\ u[k].longest = longest
        BY <3>1
      <3>3. QED
        BY <2>1, <2>2, <2>5, <3>2, RunsCountedOn
    <2>6. QED
      BY <2>4, <2>5
  <1> HIDE DEF G
  <1>4. \A k \in 0 .. n : k \in G
    BY <1>1, <1>2, <1>3, InductionUpTo
  <1>5. QED
    BY <1>1, <1>4 DEF G
\* The longest run of the sorted ends is the number of times the most frequent
\* one of them occurs.
LEMMA LongestRunCounts ==
    ASSUME NEW ends \in Seq(Nat), Len(ends) # 0
    PROVE  /\ \A v : Cardinality(Occurrences(ends, v)) <= LongestRun(ends)
           /\ \E i \in DOMAIN ends : Cardinality(Occurrences(ends, ends[i])) = LongestRun(ends)
  <1> DEFINE n == Len(ends)
             s == Ascending(ends)
             u == CHOOSE f : f = [k \in 0 .. Len(s) |->
                      IF k = 0 THEN [run |-> 0, longest |-> 0]
                      ELSE LET run == f[k - 1].run + 1
                               longest == f[k - 1].longest
                           IN  IF k = Len(s) \/ s[k + 1] # s[k]
                               THEN [run |-> 0, longest |-> IF run > longest THEN run ELSE longest]
                               ELSE [run |-> run, longest |-> longest]]
  <1>1. n \in Nat /\ n # 0 /\ DOMAIN ends = 1 .. n /\ \A i \in 1 .. n : ends[i] \in Nat
    OBVIOUS
  <1>2. PICK p \in Bijection(DOMAIN ends, DOMAIN ends) :
               /\ s = [i \in DOMAIN ends |-> ends[p[i]]]
               /\ \A i, j \in DOMAIN ends : s[i] < s[j] => i < j
    BY AscendingIsSorted
  <1>3. LongestRun(ends) = u[Len(s)].longest
    BY DEF LongestRun
  <1>4. (\E f : IsRunTrace(f, s)) => IsRunTrace(u, s)
    BY DEF IsRunTrace, RunStep
  <1> HIDE DEF n, s, u
  <1>5. /\ \A i \in 1 .. n : p[i] \in 1 .. n /\ s[i] = ends[p[i]]
        /\ DOMAIN s = 1 .. n /\ p \in Bijection(1 .. n, 1 .. n)
    BY <1>1, <1>2 DEF Bijection, Injection
  <1>6. IsAscending(s) /\ Len(s) = n
    <2>1. s \in [1 .. n -> Nat]
      BY <1>1, <1>2, <1>5
    <2>2. s \in Seq(Nat) /\ Len(s) = n
      BY <1>1, <2>1
    <2>3. QED
      BY <1>1, <1>2, <1>5, <2>2 DEF IsAscending
  <1>7. RunsCounted(s, n, u[n].run, u[n].longest)
    BY <1>1, <1>4, <1>6, RunTraceExists, RunTraceCounts
  <1> DEFINE most == LongestRun(ends)
  <1>8. /\ most \in Nat
        /\ \A b \in 1 .. n : RunEnds(s, b) => Cardinality(Alike(s, b)) <= most
        /\ most = 0 \/ \E b \in 1 .. n : RunEnds(s, b) /\ Cardinality(Alike(s, b)) = most
    BY <1>3, <1>6, <1>7 DEF RunsCounted
  <1> HIDE DEF most
  <1>9. \A v : /\ IsFiniteSet(Occurrences(ends, v)) /\ Cardinality(Occurrences(ends, v)) \in Nat
               /\ Cardinality(Occurrences(s, v)) = Cardinality(Occurrences(ends, v))
    <2> SUFFICES ASSUME NEW v
                 PROVE  /\ IsFiniteSet(Occurrences(ends, v))
                        /\ Cardinality(Occurrences(ends, v)) \in Nat
                        /\ Cardinality(Occurrences(s, v)) = Cardinality(Occurrences(ends, v))
      OBVIOUS
    <2>1. s \in [1 .. n -> Nat] /\ ends \in [1 .. n -> Nat]
      BY <1>1, <1>2, <1>5
    <2>2. Rearranged(ends, s, p, n)
      BY <1>5, <2>1 DEF Rearranged
    <2>3. QED
      BY <1>1, <2>2, OccurrencesArranged
  <1>10. ASSUME NEW i \in 1 .. n PROVE Cardinality(Occurrences(s, s[i])) <= most
    <2>1. PICK b \in 1 .. n : RunEnds(s, b) /\ s[b] = s[i]
      BY <1>6, RunOfValue
    <2>2. Alike(s, b) = Occurrences(s, s[i])
      BY <1>6, <2>1, RunIsWhole
    <2>3. QED
      BY <1>8, <2>1, <2>2
  <1>11. ASSUME NEW v PROVE Cardinality(Occurrences(ends, v)) <= most
    <2>1. CASE Occurrences(s, v) = {}
      <3>1. Cardinality(Occurrences(ends, v)) = 0
        BY <1>9, <2>1, FS_EmptySet
      <3>2. QED
        BY <1>8, <3>1
    <2>2. CASE Occurrences(s, v) # {}
      <3>1. PICK i \in 1 .. n : s[i] = v
        BY <1>5, <2>2 DEF Occurrences
      <3>2. QED
        BY <1>9, <1>10, <3>1
    <2>3. QED
      BY <2>1, <2>2
  <1>12. most # 0
    <2>1. 1 \in 1 .. n /\ 1 \in Occurrences(ends, ends[1])
      BY <1>1 DEF Occurrences
    <2>2. Cardinality(Occurrences(ends, ends[1])) # 0
      BY <1>9, <2>1, FS_EmptySet
    <2>3. QED
      BY <1>8, <1>9, <1>11, <2>2
  <1>13. PICK b \in 1 .. n : RunEnds(s, b) /\ Cardinality(Alike(s, b)) = most
    BY <1>8, <1>12
  <1>14. Cardinality(Occurrences(ends, ends[p[b]])) = most /\ p[b] \in DOMAIN ends
    <2>1. Alike(s, b) = Occurrences(s, s[b])
      BY <1>6, <1>13, RunIsWhole
    <2>2. s[b] = ends[p[b]] /\ p[b] \in 1 .. n
      BY <1>5
    <2>3. QED
      BY <1>1, <1>9, <1>13, <2>1, <2>2
  <1>15. QED
    BY <1>11, <1>14 DEF most

-----------------------------------------------------------------------------
(* Flow groups.                                                            *)

\* The ends of the edges of e on one side.
Sources(e) == [i \in DOMAIN e |-> e[i].source]
Destinations(e) == [i \in DOMAIN e |-> e[i].destination]

\* The canonical order lists each end as often as the plan does.
LEMMA EndsRearranged ==
    ASSUME NEW e \in Seq(Edge)
    PROVE  LET c == Canonical(e)
           IN  \E p : /\ Rearranged(Sources(e), Sources(c), p, Len(e))
                      /\ Rearranged(Destinations(e), Destinations(c), p, Len(e))
  <1> DEFINE n == Len(e)
             c == Canonical(e)
  <1>1. n \in Nat /\ DOMAIN e = 1 .. n /\ \A i \in 1 .. n : e[i] \in Edge
    OBVIOUS
  <1>2. PICK p \in Bijection(DOMAIN e, DOMAIN e) : c = [i \in DOMAIN e |-> e[p[i]]]
    BY CanonicalIsSorted
  <1> HIDE DEF n, c
  <1>3. p \in Bijection(1 .. n, 1 .. n) /\ \A i \in 1 .. n : p[i] \in 1 .. n
    BY <1>1, <1>2 DEF Bijection, Injection
  <1>4. DOMAIN c = 1 .. n /\ \A i \in 1 .. n : c[i] = e[p[i]] /\ c[i] \in Edge
    BY <1>1, <1>2, <1>3
  <1>5. \A y \in Edge : y.source \in Nat /\ y.destination \in Nat
    BY DEF Edge
  <1>6. Rearranged(Sources(e), Sources(c), p, n)
    BY <1>1, <1>3, <1>4, <1>5 DEF Sources, Rearranged
  <1>7. Rearranged(Destinations(e), Destinations(c), p, n)
    BY <1>1, <1>3, <1>4, <1>5 DEF Destinations, Rearranged
  <1>8. QED
    BY <1>6, <1>7 DEF n, c

\* No value occurs in f more than m times, and one does so often.
MostFrequent(f, m) ==
    /\ \A v : Cardinality(Occurrences(f, v)) <= m
    /\ \E i \in DOMAIN f : Cardinality(Occurrences(f, f[i])) = m

\* The longest run of rearranged ends counts the ends as they were.
LEMMA LongestRunOfRearranged ==
    ASSUME NEW n \in Nat, n # 0, NEW f, NEW g, NEW p, Rearranged(f, g, p, n)
    PROVE  MostFrequent(f, LongestRun(g))
  <1>1. f \in [1 .. n -> Nat] /\ g \in [1 .. n -> Nat]
    BY DEF Rearranged
  <1>2. g \in Seq(Nat) /\ Len(g) = n /\ DOMAIN g = 1 .. n
    BY <1>1
  <1>3. \A v : Cardinality(Occurrences(g, v)) = Cardinality(Occurrences(f, v))
    BY OccurrencesArranged
  <1>4. \A v : Cardinality(Occurrences(g, v)) <= LongestRun(g)
    BY <1>2, LongestRunCounts
  <1>5. PICK i \in 1 .. n : Cardinality(Occurrences(g, g[i])) = LongestRun(g)
    BY <1>2, LongestRunCounts
  <1>6. p[i] \in 1 .. n /\ g[i] = f[p[i]]
    BY DEF Rearranged, Bijection, Injection
  <1>7. QED
    BY <1>1, <1>3, <1>4, <1>5, <1>6 DEF MostFrequent

\* The group of a decision: none up to the rule about the plan.
LEMMA GroupDecided ==
    ASSUME NEW k \in 1 .. 23, NEW s, NEW r, NEW d
    PROVE  Decided(k, s, r, d).group = IF k <= 3 THEN None ELSE Construct(Owned(r.plan, d))
  <1>1. RecordedAt(k, s, r, d).group = IF k <= 3 THEN None ELSE Construct(Owned(r.plan, d))
    BY Places DEF RecordedAt, Blank
  <1>2. QED
    BY <1>1, Rules DEF Decided, Refused, Granted, RecordedAt, Blank

\* An answer that has a group has the one of its plan, which is valid.
LEMMA GroupAnswered ==
    ASSUME Typed, NEW x \in Decidable, Answer(x).group # None
    PROVE  /\ Answer(x).group = Construct(Owned(x[1].plan, DefinitionInForce))
           /\ IsPlan(x[1].plan)
           /\ x[1].plan.edges \in Seq(Edge) /\ Distinct(x[1].plan.edges)
           /\ Len(x[1].plan.edges) # 0
           /\ \A i \in DOMAIN x[1].plan.edges :
                /\ x[1].plan.edges[i].source \in Participants
                /\ x[1].plan.edges[i].destination \in Participants
  <1> DEFINE s == Snapshot(x[2])
             r == x[1]
             d == DefinitionInForce
             e == r.plan.edges
             k == FirstRefusal(s, r, d)
  <1>1. Deciding(s, r, d, x[2]) /\ Answer(x) = Evaluate(s, r, d)
    BY DecidableDecides
  <1>2. k \in 1 .. 23 /\ \A j \in 1 .. k - 1 : ~Refuses(Order[j], s, r, d)
    BY FirstIsFirst
  <1>3. Answer(x) = Decided(k, s, r, d)
    BY <1>1 DEF Evaluate
  <1>4. d.participants \subseteq Participants
    <2>1. record.gen \in DOMAIN Definitions /\ d = Definitions[record.gen]
      BY <1>1, Reaching DEF Deciding
    <2>2. QED
      BY <2>1, DefinitionsValid
  <1>5. auth.epoch \in 1 .. MaxEpoch /\ r \in Requests(auth.epoch)
    BY <1>1 DEF Deciding, Typed, AuthorityState
  <1> HIDE DEF s, r, d, k
  <1>6. ~(k <= 3) /\ Answer(x).group = Construct(Owned(r.plan, d))
    BY <1>2, <1>3, GroupDecided
  <1>7. r.plan # None /\ ValidPlan(r.plan, d.participants)
    <2>1. 2 \in 1 .. k - 1 /\ 3 \in 1 .. k - 1
      BY <1>2, <1>6
    <2>2. ~Refuses(Order[2], s, r, d) /\ ~Refuses(Order[3], s, r, d)
      BY <1>2, <2>1
    <2>3. QED
      BY <2>2, RulesSay
  <1>8. IsPlan(r.plan) /\ e \in Seq(FlowEdge)
    BY <1>5, <1>7, RequestsDecoded DEF IsPlan
  <1>9. /\ Len(e) \in 1 .. EdgesMax
        /\ \A i \in DOMAIN e : /\ e[i].step # None
                               /\ {e[i].source, e[i].destination} \subseteq d.participants
        /\ Distinct(e)
    BY <1>7 DEF ValidPlan, Distinct
  <1> HIDE DEF e
  <1>10. e \in Seq(Edge)
    <2>1. Len(e) \in Nat /\ DOMAIN e = 1 .. Len(e) /\ \A i \in 1 .. Len(e) : e[i] \in FlowEdge
      BY <1>8
    <2>2. \A y \in FlowEdge : y.step # None => y \in Edge
      BY DEF FlowEdge, Edge, Rates
    <2>3. \A i \in 1 .. Len(e) : e[i] \in Edge
      BY <1>9, <2>1, <2>2
    <2>4. e = [i \in 1 .. Len(e) |-> e[i]]
      BY <1>8
    <2>5. QED
      BY <2>1, <2>3, <2>4
  <1>11. Len(e) # 0
    BY <1>9
  <1>12. QED
    BY <1>4, <1>6, <1>8, <1>9, <1>10, <1>11 DEF r, d, e

\* The plan with the class of the definition.
LEMMA OwnedFields ==
    ASSUME NEW plan, IsPlan(plan), NEW d
    PROVE  LET o == Owned(plan, d)
           IN  /\ o.class = d.class /\ o.edges = plan.edges /\ o.instance = plan.instance
               /\ o.pattern = plan.pattern /\ o.direction = plan.direction
               /\ o.simultaneous = plan.simultaneous
  <1>1. PICK a, b, c, f, g, h, e :
            plan = [instance |-> a, class |-> b, pattern |-> c, direction |-> f,
                    simultaneous |-> g, sequence |-> h, edges |-> e]
    BY DEF IsPlan
  <1>2. QED
    BY <1>1 DEF Owned

\* What a group says of the edges e its plan states.
Summarised(g, e, plan, d) ==
    /\ MostFrequent(Sources(e), g.fan_out) /\ MostFrequent(Destinations(e), g.fan_in)
    /\ g.participants = UNION {{y.source, y.destination} : y \in ToSet(e)}
    /\ Volume(e) < Word => g.total = Volume(e)
    /\ g.id = <<plan.instance, d.class, plan.pattern, plan.direction, plan.simultaneous,
                Canonical(e)>>

\* It says so of every valid plan.
LEMMA GroupSummarises ==
    ASSUME NEW plan, IsPlan(plan), NEW d,
           plan.edges \in Seq(Edge), Distinct(plan.edges), Len(plan.edges) # 0
    PROVE  Summarised(Construct(Owned(plan, d)), plan.edges, plan, d)
  <1> DEFINE e == plan.edges
             n == Len(e)
             c == Canonical(e)
             g == Construct(Owned(plan, d))
  <1>1. /\ g.fan_out = LongestRun(Sources(c)) /\ g.fan_in = LongestRun(Destinations(c))
        /\ g.participants = {y.source : y \in ToSet(c)} \cup {y.destination : y \in ToSet(c)}
        /\ g.total = Total(c)
        /\ g.id = <<plan.instance, d.class, plan.pattern, plan.direction, plan.simultaneous, c>>
    <2>1. PICK o : o = Owned(plan, d)
      OBVIOUS
    <2>2. /\ o.class = d.class /\ o.edges = e /\ o.instance = plan.instance
          /\ o.pattern = plan.pattern /\ o.direction = plan.direction
          /\ o.simultaneous = plan.simultaneous
      BY <2>1, OwnedFields
    <2>3. g = Construct(o)
      BY <2>1
    <2> HIDE DEF g, e
    <2>4. QED
      BY <2>2, <2>3 DEF Construct, Sources, Destinations
  <1>2. n \in Nat /\ n # 0 /\ DOMAIN e = 1 .. n
    OBVIOUS
  <1>3. c \in Seq(Edge) /\ ToSet(c) = ToSet(e)
    BY CanonicalOrder
  <1>4. PICK p : /\ Rearranged(Sources(e), Sources(c), p, n)
                 /\ Rearranged(Destinations(e), Destinations(c), p, n)
    BY EndsRearranged
  <1>5. PICK t \in Bijection(DOMAIN e, DOMAIN e) : c = [i \in DOMAIN e |-> e[t[i]]]
    BY CanonicalIsSorted
  <1>6. Volume(e) < Word => Total(c) = Volume(e)
    BY <1>3, <1>5, TotalOfArranged
  <1> HIDE DEF c, g, n, e
  <1>7. MostFrequent(Sources(e), g.fan_out) /\ MostFrequent(Destinations(e), g.fan_in)
    BY <1>1, <1>2, <1>4, LongestRunOfRearranged
  <1>8. g.participants = UNION {{y.source, y.destination} : y \in ToSet(e)}
    BY <1>1, <1>3
  <1>9. QED
    BY <1>1, <1>6, <1>7, <1>8 DEF Summarised, c, g, e

\* Two plans are of one group exactly when they state the same, the order of the
\* edges, the class they claim and the plan's sequence number apart.
LEMMA GroupsAreTold ==
    ASSUME NEW a, NEW b, NEW d,
           a.edges \in Seq(Edge), b.edges \in Seq(Edge), Distinct(a.edges), Distinct(b.edges)
    PROVE  (<<a.instance, d.class, a.pattern, a.direction, a.simultaneous, Canonical(a.edges)>>
              = <<b.instance, d.class, b.pattern, b.direction, b.simultaneous, Canonical(b.edges)>>)
             <=> <<a.instance, a.pattern, a.direction, a.simultaneous, ToSet(a.edges)>>
                   = <<b.instance, b.pattern, b.direction, b.simultaneous, ToSet(b.edges)>>
  <1>1. Canonical(a.edges) = Canonical(b.edges) <=> ToSet(a.edges) = ToSet(b.edges)
    BY CanonicalOrder, CanonicalIsUnique
  <1>2. QED
    BY <1>1

\* A flow group is its plan, summarised, whatever plan is stated: the runs the
\* code measures in the sorted ends are the numbers of edges that leave or reach a
\* participant, the wrapping total is the volume as long as that fits a word, and
\* the identity tells plans apart by the obligations they state, in whatever order
\* (construct_flow_group, flow_group_content_digest).
THEOREM GroupsAreTheirPlans == PlanningSpec => []GroupsFollowPlans
  <1>1. ASSUME IInv PROVE GroupsFollowPlans
    <2> DEFINE Grouped == {y \in Decidable : y[2] = now /\ Answer(y).group # None}
               built == {<<x[1].plan, Answer(x).group>> : x \in Grouped}
               Unordered(p) ==
                   <<p.instance, p.pattern, p.direction, p.simultaneous, ToSet(p.edges)>>
               Out(e) == [p \in Participants |-> Cardinality({i \in DOMAIN e : e[i].source = p})]
               Into(e) == [p \in Participants |->
                              Cardinality({i \in DOMAIN e : e[i].destination = p})]
               d == DefinitionInForce
    <2>1. ASSUME NEW b \in built
          PROVE  /\ b[2] = Construct(Owned(b[1], d)) /\ IsPlan(b[1])
                 /\ b[1].edges \in Seq(Edge) /\ Distinct(b[1].edges) /\ Len(b[1].edges) # 0
                 /\ \A i \in DOMAIN b[1].edges : /\ b[1].edges[i].source \in Participants
                                                 /\ b[1].edges[i].destination \in Participants
      <3>1. PICK x \in Decidable : Answer(x).group # None /\ b = <<x[1].plan, Answer(x).group>>
        OBVIOUS
      <3>2. b[1] = x[1].plan /\ b[2] = Answer(x).group
        BY <3>1
      <3>3. QED
        BY <1>1, <3>1, <3>2, GroupAnswered DEF IInv
    <2> HIDE DEF built, d
    <2>2. ASSUME NEW b \in built
          PROVE  LET g == b[2]
                     e == b[1].edges
                 IN  /\ \A p \in Participants : Out(e)[p] <= g.fan_out /\ Into(e)[p] <= g.fan_in
                     /\ \E p \in Participants : Out(e)[p] = g.fan_out
                     /\ \E p \in Participants : Into(e)[p] = g.fan_in
                     /\ g.participants = UNION {{y.source, y.destination} : y \in ToSet(e)}
                     /\ Volume(e) < Word => g.total = Volume(e)
                     /\ g.id[2] = d.class
      <3> DEFINE g == b[2]
                 e == b[1].edges
      <3>1. Summarised(g, e, b[1], d)
        <4>1. PICK p : p = b[1]
          OBVIOUS
        <4>2. /\ g = Construct(Owned(p, d)) /\ IsPlan(p) /\ e = p.edges
              /\ p.edges \in Seq(Edge) /\ Distinct(p.edges) /\ Len(p.edges) # 0
          BY <2>1, <4>1
        <4> HIDE DEF g, e
        <4>3. Summarised(g, p.edges, p, d)
          BY <4>2, GroupSummarises
        <4>4. QED
          BY <4>1, <4>2, <4>3
      <3>2. \A i \in DOMAIN e : e[i].source \in Participants /\ e[i].destination \in Participants
        BY <2>1
      <3> HIDE DEF g, e
      <3>3. \A p \in Participants : /\ Out(e)[p] = Cardinality(Occurrences(Sources(e), p))
                                    /\ Into(e)[p] = Cardinality(Occurrences(Destinations(e), p))
        BY DEF Occurrences, Sources, Destinations
      <3> HIDE DEF Out, Into
      <3>4. /\ DOMAIN Sources(e) = DOMAIN e /\ DOMAIN Destinations(e) = DOMAIN e
            /\ \A i \in DOMAIN e : /\ Sources(e)[i] \in Participants
                                   /\ Destinations(e)[i] \in Participants
        BY <3>2 DEF Sources, Destinations
      <3>5. \A p \in Participants : Out(e)[p] <= g.fan_out /\ Into(e)[p] <= g.fan_in
        BY <3>1, <3>3 DEF Summarised, MostFrequent
      <3>6. (\E p \in Participants : Out(e)[p] = g.fan_out) /\ \E p \in Participants : Into(e)[p] = g.fan_in
        BY <3>1, <3>3, <3>4 DEF Summarised, MostFrequent
      <3>7. g.id[2] = d.class
        BY <3>1 DEF Summarised
      <3>8. QED
        BY <3>1, <3>5, <3>6, <3>7 DEF Summarised, g, e
    <2>3. ASSUME NEW a \in built, NEW b \in built
          PROVE  a[2].id = b[2].id <=> Unordered(a[1]) = Unordered(b[1])
      <3>1. Summarised(a[2], a[1].edges, a[1], d) /\ Summarised(b[2], b[1].edges, b[1], d)
        BY <2>1, GroupSummarises
      <3>2. PICK p, q : p = a[1] /\ q = b[1]
        OBVIOUS
      <3>3. p.edges \in Seq(Edge) /\ Distinct(p.edges) /\ q.edges \in Seq(Edge) /\ Distinct(q.edges)
        BY <2>1, <3>2
      <3>4. (<<p.instance, d.class, p.pattern, p.direction, p.simultaneous, Canonical(p.edges)>>
               = <<q.instance, d.class, q.pattern, q.direction, q.simultaneous, Canonical(q.edges)>>)
              <=> Unordered(p) = Unordered(q)
        BY <3>3, GroupsAreTold
      <3>5. QED
        BY <3>1, <3>2, <3>4 DEF Summarised
    <2>4. QED
      BY <2>2, <2>3 DEF GroupsFollowPlans, built, d
  <1>2. QED
    BY <1>1, Invariance, PTL
=============================================================================
