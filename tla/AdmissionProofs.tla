-------------------------- MODULE AdmissionProofs ---------------------------
(***************************************************************************)
(* Proofs about Admission for all rates, volumes and words: a bucket       *)
(* releases no more than one full bucket and its rate over every interval, *)
(* and the wait a rate limited request is told is enough.                  *)
(***************************************************************************)
EXTENDS Admission, FiniteSetTheorems, TLAPS

-----------------------------------------------------------------------------
(* Arithmetic.                                                             *)

\* Division with remainder of natural numbers.
LEMMA Division ==
    ASSUME NEW a \in Nat, NEW n \in Nat, n > 0
    PROVE  /\ a \div n \in Nat
           /\ a % n \in Nat /\ a % n < n
           /\ a = n * (a \div n) + (a % n)
           /\ a % n <= a
           /\ n * (a \div n) <= a
  OBVIOUS

\* What fits a word is not changed by taking it modulo the word.
LEMMA Fits ==
    ASSUME NEW a \in Nat, NEW n \in Nat, a < n
    PROVE  a % n = a
  OBVIOUS

\* Multiplication is monotone.
LEMMA Monotone ==
    ASSUME NEW a \in Nat, NEW b \in Nat, NEW c \in Nat, a <= b
    PROVE  c * a <= c * b /\ c * a \in Nat /\ c * b \in Nat
  OBVIOUS

\* A product divided by its second factor.
LEMMA Quotient ==
    ASSUME NEW q \in Nat, NEW n \in Nat, n > 0
    PROVE  (q * n) \div n = q
  OBVIOUS

\* A positive factor does not make a product smaller.
LEMMA Factor ==
    ASSUME NEW a \in Nat, NEW n \in Nat, n > 0
    PROVE  a <= n * a /\ (n * a > 0 => a > 0)
  OBVIOUS

\* The product of a number split by division.
LEMMA Distribute ==
    ASSUME NEW s \in Nat, NEW q \in Nat, NEW m \in Nat, NEW w \in Nat
    PROVE  (s * q + m) * w = s * (q * w) + m * w
  OBVIOUS

\* The parts of a sum that fits a word fit it too.
LEMMA Parts ==
    ASSUME NEW a \in Nat, NEW b \in Nat, NEW c \in Nat, NEW s \in Nat, NEW n \in Nat,
           a <= s, c = s + b, c < n
    PROVE  a < n /\ b < n
  OBVIOUS

-----------------------------------------------------------------------------
(* The token bucket.                                                       *)

\* A refill credits no more than the rate yields: neither the two halves of the
\* product, nor their rounding, nor a saturation after an overflow does
\* (TokenBucket::refill).
LEMMA GainIsEarned ==
    ASSUME NEW rate \in Nat, NEW e \in Nat, e > 0, NEW depth \in Nat, depth < Word
    PROVE  /\ Gained(rate, e, depth) \in Nat
           /\ Scale * Lesser(Gained(rate, e, depth), depth) <= rate * e
<1> DEFINE q == rate \div Scale
           m == rate % Scale
           whole == (q * e) % Word
           prod == (m * e) % Word
           part == prod \div Scale
           sum == (whole + part) % Word
<1>1. Scale \in Nat /\ Scale > 0 /\ Word \in Nat /\ Word > 0
  BY AdmissionAssumption
<1>2. q \in Nat /\ m \in Nat /\ rate = Scale * q + m
  BY <1>1, Division
<1>3. q * e \in Nat /\ m * e \in Nat /\ rate * e = Scale * (q * e) + m * e
  BY <1>1, <1>2
<1>4. whole \in Nat /\ whole <= q * e /\ prod \in Nat /\ prod <= m * e
  BY <1>1, <1>3, Division
<1>5. part \in Nat /\ Scale * part <= prod
  BY <1>1, <1>4, Division
<1>6. sum \in Nat /\ sum <= whole + part
  BY <1>1, <1>4, <1>5, Division
<1>7. Scale * (whole + part) <= rate * e
  BY <1>1, <1>3, <1>4, <1>5, Monotone
<1>8. CASE whole \div e # q \/ sum < whole
  <2>1. Gained(rate, e, depth) = depth
    BY <1>8 DEF Gained
  <2>2. Word <= q * e \/ Word <= whole + part
    <3>1. CASE whole \div e # q
      <4>1. whole # q * e
        BY <3>1, <1>2, Quotient
      <4>2. ~(q * e < Word)
        BY <4>1, <1>1, <1>3, Fits
      <4> QED BY <4>2, <1>1, <1>3
    <3>2. CASE sum < whole
      <4>1. ~(whole + part < Word)
        BY <3>2, <1>1, <1>4, <1>5, Fits
      <4> QED BY <4>1, <1>1, <1>4, <1>5
    <3> QED BY <1>8, <3>1, <3>2
  <2>3. depth <= q * e \/ depth <= whole + part
    BY <2>2, <1>1, <1>3, <1>4, <1>5
  <2>4. Scale * depth <= rate * e
    <3>1. CASE depth <= q * e
      BY <3>1, <1>1, <1>3, Monotone
    <3>2. CASE depth <= whole + part
      <4>1. whole + part \in Nat
        BY <1>4, <1>5
      <4>2. Scale * depth <= Scale * (whole + part)
        BY <3>2, <4>1, <1>1, Monotone
      <4>3. Scale * depth \in Nat /\ Scale * (whole + part) \in Nat /\ rate * e \in Nat
        BY <4>1, <1>1
      <4> QED BY ONLY <4>2, <4>3, <1>7
    <3> QED BY <2>3, <3>1, <3>2
  <2>5. Lesser(depth, depth) = depth
    BY DEF Lesser
  <2> QED BY <2>1, <2>4, <2>5
<1>9. CASE ~(whole \div e # q \/ sum < whole)
  <2>1. Gained(rate, e, depth) = sum
    BY <1>9 DEF Gained
  <2>2. Lesser(sum, depth) \in Nat /\ Lesser(sum, depth) <= whole + part
    BY <1>6, <1>4, <1>5 DEF Lesser
  <2>3. whole + part \in Nat
    BY <1>4, <1>5
  <2>4. Scale * Lesser(sum, depth) <= Scale * (whole + part)
    BY <2>2, <2>3, <1>1, Monotone
  <2>5. /\ Scale * Lesser(sum, depth) \in Nat
        /\ Scale * (whole + part) \in Nat /\ rate * e \in Nat
    BY <2>2, <2>3, <1>1
  <2> QED BY ONLY <2>1, <2>4, <2>5, <1>6, <1>7
<1> QED BY <1>8, <1>9

\* Refilling a live bucket: its clock moves to the time of the request, it is no
\* fuller than its depth, and what it gains is within the highest rate.
LEMMA RefillIsEarned ==
    ASSUME NEW b \in Bucket, b.live, NEW t \in Nat, b.last <= t,
           NEW rate \in Rates, NEW depth \in Nat, depth <= TopDepth
    PROVE  /\ Refill(b, t, rate, depth) \in Bucket
           /\ Refill(b, t, rate, depth).live
           /\ Refill(b, t, rate, depth).last = t
           /\ Refill(b, t, rate, depth).tokens <= depth
           /\ Scale * Refill(b, t, rate, depth).tokens
                <= Scale * b.tokens + TopRate * (t - b.last)
<1> DEFINE e == Elapsed(b, t)
           gained == IF e = 0 THEN 0 ELSE Gained(rate, e, depth)
           credit == Lesser(gained, depth)
           c == Refill(b, t, rate, depth)
<1>1. /\ Scale \in Nat /\ Word \in Nat /\ Word > 0 /\ depth < Word
      /\ rate \in Nat /\ rate <= TopRate /\ TopRate \in Nat
  BY AdmissionAssumption
<1>2. b.tokens \in Nat /\ b.last \in Nat /\ t - b.last \in Nat
  BY DEF Bucket
<1>3. e \in Nat /\ e <= t - b.last
  BY <1>1, <1>2, Division DEF Elapsed
<1>4. gained \in Nat /\ Scale * credit <= rate * e
  <2>1. CASE e = 0
    BY <2>1, <1>1 DEF Lesser
  <2>2. CASE e # 0
    BY <2>2, <1>1, <1>3, GainIsEarned
  <2> QED BY <2>1, <2>2
<1>5. credit \in Nat
  BY <1>4 DEF Lesser
<1>6. c = [b EXCEPT !.tokens = Lesser(depth, b.tokens + credit), !.last = t]
  BY DEF Refill
<1>7. /\ Lesser(depth, b.tokens + credit) \in Nat
      /\ Lesser(depth, b.tokens + credit) <= depth
      /\ Lesser(depth, b.tokens + credit) <= b.tokens + credit
  BY <1>2, <1>5 DEF Lesser
<1>8. c.tokens = Lesser(depth, b.tokens + credit) /\ c.last = t /\ c.live /\ c \in Bucket
  BY <1>6, <1>7 DEF Bucket
<1>9. rate * e <= TopRate * (t - b.last)
  <2>1. rate * e <= rate * (t - b.last)
    BY <1>1, <1>2, <1>3, Monotone
  <2>2. rate * (t - b.last) <= TopRate * (t - b.last)
    BY <1>1, <1>2, Monotone
  <2>3. rate * e \in Nat /\ rate * (t - b.last) \in Nat /\ TopRate * (t - b.last) \in Nat
    BY <1>1, <1>2, <1>3
  <2> QED BY ONLY <2>1, <2>2, <2>3
<1>10. Scale * c.tokens <= Scale * b.tokens + Scale * credit
  <2>1. Scale * c.tokens <= Scale * (b.tokens + credit)
    BY <1>1, <1>2, <1>5, <1>7, <1>8, Monotone
  <2>2. Scale * (b.tokens + credit) = Scale * b.tokens + Scale * credit
    BY <1>1, <1>2, <1>5
  <2> QED BY <2>1, <2>2
<1>11. /\ Scale * c.tokens \in Nat /\ Scale * b.tokens \in Nat /\ Scale * credit \in Nat
       /\ rate * e \in Nat /\ TopRate * (t - b.last) \in Nat
  BY <1>1, <1>2, <1>3, <1>5, <1>7, <1>8
<1>12. Scale * c.tokens <= Scale * b.tokens + TopRate * (t - b.last)
  BY ONLY <1>4, <1>9, <1>10, <1>11
<1> HIDE DEF c
<1> QED BY <1>7, <1>8, <1>12 DEF c

\* A rate limited request may count on the wait it was told: after it, the
\* refill makes up for the deficit, although both are rounded.
LEMMA WaitRefills ==
    ASSUME NEW b \in Bucket, b.live, NEW rate \in Rates, NEW need \in Nat,
           NEW depth \in Nat, need <= depth, need > b.tokens,
           (need - b.tokens) * Scale + rate < Word
    PROVE  need <= Refill(b, b.last + Delay(b.tokens, need, rate), rate, depth).tokens
<1> DEFINE d == need - b.tokens
           x == d * Scale + rate - 1
           w == x \div rate
           q == rate \div Scale
           m == rate % Scale
           part == (m * w) \div Scale
<1>1. /\ Scale \in Nat /\ Scale > 0 /\ Word \in Nat /\ rate \in Nat /\ rate > 0
      /\ b.tokens \in Nat /\ b.last \in Nat /\ d \in Nat /\ d > 0
  BY AdmissionAssumption DEF Bucket
<1>2. d * Scale \in Nat /\ d * Scale > 0 /\ x \in Nat /\ x < Word
  BY <1>1
<1>3. w \in Nat /\ rate * w <= x /\ x < rate * w + rate
  BY <1>1, <1>2, Division
<1>4. d * Scale <= rate * w /\ w > 0 /\ w <= x
  <2>1. d * Scale <= rate * w
    BY <1>1, <1>2, <1>3
  <2>2. w > 0
    <3> HIDE DEF w, x, d
    <3>1. rate * w > 0
      BY <2>1, <1>1, <1>2, <1>3
    <3> QED BY <3>1, <1>1, <1>3, Factor
  <2>3. w <= rate * w
    BY <1>1, <1>3, Factor
  <2> QED BY <2>1, <2>2, <2>3, <1>1, <1>2, <1>3
<1>5. Delay(b.tokens, need, rate) = w
  <2>1. x % Word = x
    BY <1>1, <1>2, Fits
  <2>2. ((need - b.tokens) * Scale + rate - 1) % Word = x
    BY <2>1
  <2> QED BY <2>2, <1>3, <1>4 DEF Delay, Greater
<1>6. Elapsed(b, b.last + w) = w
  <2>1. (b.last + w) - b.last = w
    BY <1>1, <1>3
  <2> QED BY <2>1, <1>1, <1>2, <1>3, <1>4, Fits DEF Elapsed
<1>7. /\ q \in Nat /\ m \in Nat /\ m < Scale /\ rate = Scale * q + m
      /\ q * w \in Nat /\ m * w \in Nat
      /\ rate * w = Scale * (q * w) + m * w
  <2>1. q \in Nat /\ m \in Nat /\ m < Scale /\ rate = Scale * q + m
    BY <1>1, Division
  <2>2. q * w \in Nat /\ m * w \in Nat
    BY <2>1, <1>3
  <2> HIDE DEF q, m, w
  <2> QED BY <2>1, <2>2, <1>1, <1>3, Distribute
<1>8. q * w < Word /\ m * w < Word
  <2> HIDE DEF q, m, w, x, d
  <2>1. q * w <= Scale * (q * w)
    BY <1>1, <1>7, Factor
  <2>2. Scale * (q * w) \in Nat /\ rate * w \in Nat
    BY <1>1, <1>3, <1>7
  <2>3. rate * w < Word
    BY <2>2, <1>1, <1>2, <1>3
  <2> QED BY <2>1, <2>2, <2>3, <1>1, <1>7, Parts
<1>9. part \in Nat /\ Scale * part <= m * w /\ m * w < Scale * part + Scale
  <2> HIDE DEF q, m, w
  <2>1. m * w = Scale * part + ((m * w) % Scale) /\ (m * w) % Scale < Scale
    BY <1>1, <1>7, Division
  <2>2. part \in Nat /\ Scale * part <= m * w /\ (m * w) % Scale \in Nat
    BY <1>1, <1>7, Division
  <2> HIDE DEF part
  <2> QED BY <2>1, <2>2, <1>1, <1>7
<1>10. q * w + part >= d
  <2>1. rate * w < Scale * (q * w) + Scale * part + Scale
    BY <1>1, <1>3, <1>7, <1>9
  <2>2. Scale * (q * w) + Scale * part + Scale = Scale * (q * w + part + 1)
    BY <1>1, <1>7, <1>9
  <2>3. Scale * d < Scale * (q * w + part + 1)
    BY <2>1, <2>2, <1>1, <1>2, <1>3, <1>4, <1>7, <1>9
  <2>4. ~(q * w + part + 1 <= d)
    <3>1. q * w + part + 1 \in Nat
      BY <1>7, <1>9
    <3>2. SUFFICES ASSUME q * w + part + 1 <= d PROVE FALSE
      OBVIOUS
    <3>3. Scale * (q * w + part + 1) <= Scale * d
      BY <3>1, <3>2, <1>1, Monotone
    <3>4. Scale * (q * w + part + 1) \in Nat /\ Scale * d \in Nat
      BY <3>1, <1>1
    <3> QED BY ONLY <3>3, <3>4, <2>3
  <2> QED BY <2>4, <1>1, <1>7, <1>9
<1>11. q * w + part < Word
  <2>1. q * w + part <= Scale * (q * w + part)
    BY <1>1, <1>7, <1>9
  <2>2. Scale * (q * w + part) = Scale * (q * w) + Scale * part
    BY <1>1, <1>7, <1>9
  <2>3. Scale * (q * w) \in Nat /\ Scale * part \in Nat /\ rate * w \in Nat
    BY <1>1, <1>3, <1>7, <1>9
  <2> QED BY <2>1, <2>2, <2>3, <1>1, <1>2, <1>3, <1>7, <1>9
<1>12. Gained(rate, w, depth) = q * w + part
  <2>1. (q * w) % Word = q * w /\ (m * w) % Word = m * w
    <3>1. q * w \in Nat /\ m * w \in Nat /\ q * w < Word /\ m * w < Word
      BY <1>1, <1>7, <1>8
    <3> QED BY ONLY <3>1, <1>1, Fits
  <2>2. (q * w + part) % Word = q * w + part
    BY <1>1, <1>7, <1>9, <1>11, Fits
  <2>3. (q * w) \div w = q
    BY <1>3, <1>4, <1>7, Quotient
  <2>4. ~(q * w + part < q * w)
    BY <1>7, <1>9
  <2> QED BY <2>1, <2>2, <2>3, <2>4 DEF Gained
<1>13. Refill(b, b.last + w, rate, depth).tokens
         = Lesser(depth, b.tokens + Lesser(q * w + part, depth))
  BY <1>3, <1>4, <1>6, <1>12 DEF Refill, Bucket
<1>14. need <= Lesser(depth, b.tokens + Lesser(q * w + part, depth))
  <2> DEFINE g == q * w + part
  <2>1. g \in Nat /\ g >= need - b.tokens
    BY <1>7, <1>9, <1>10
  <2> HIDE DEF g
  <2>2. need <= Lesser(depth, b.tokens + Lesser(g, depth))
    BY <2>1, <1>1 DEF Lesser
  <2> QED BY <2>2 DEF g
<1> QED BY <1>5, <1>13, <1>14

\* What a request asks for lies within the deepest bucket.
LEMMA RequestFits ==
    ASSUME NEW r \in Request
    PROVE  /\ r.group \in Group /\ r.rate \in Rates
           /\ Need(r) \in Nat /\ Depth(r) \in Nat
           /\ Need(r) <= Depth(r) /\ Depth(r) <= TopDepth
<1>1. r.group \in Group /\ r.rate \in Rates /\ r.bytes \in Sizes /\ r.burst \in Bursts
  BY DEF Request
<1>2. /\ r.bytes \in Nat /\ r.bytes <= TopDepth /\ r.burst \in Nat /\ r.burst <= TopDepth
      /\ TopDepth \in Nat /\ 1 <= TopDepth
  <2>1. Sizes \subseteq 0..TopDepth /\ Bursts \subseteq 0..TopDepth /\ TopDepth \in Nat
    BY AdmissionAssumption
  <2>2. 0 < TopDepth
    BY AdmissionAssumption
  <2>3. r.bytes \in 0..TopDepth /\ r.burst \in 0..TopDepth
    BY <1>1, <2>1
  <2> QED BY <2>1, <2>2, <2>3
<1>3. Need(r) \in Nat /\ Need(r) <= TopDepth
  BY <1>2 DEF Need, Greater
<1>4. Depth(r) \in Nat /\ Need(r) <= Depth(r) /\ Depth(r) <= TopDepth
  BY <1>2, <1>3 DEF Depth, Greater
<1> QED BY <1>1, <1>3, <1>4

\* A request at a time that is in order finds its bucket refilled within bounds,
\* whether it was live or is created.
LEMMA RefilledBucket ==
    ASSUME TypeOK, NEW r \in Request, NEW t \in 0..now, InOrder(buckets[r.group], t)
    PROVE  /\ Refilled(r, t) \in Bucket
           /\ Refilled(r, t).live
           /\ Refilled(r, t).last = t
           /\ Refilled(r, t).tokens <= TopDepth
<1> DEFINE b == buckets[r.group]
<1>1. b \in Bucket /\ t \in Nat
  BY RequestFits DEF TypeOK
<1>2. CASE b.live
  <2>1. b.last <= t
    BY <1>1, <1>2 DEF InOrder, Bucket
  <2>2. Depth(r) \in Nat /\ Depth(r) <= TopDepth /\ r.rate \in Rates /\ TopDepth \in Nat
    BY RequestFits, AdmissionAssumption
  <2> HIDE DEF b
  <2>3. LET c == Refill(b, t, r.rate, Depth(r))
        IN c \in Bucket /\ c.live /\ c.last = t /\ c.tokens <= Depth(r)
    BY <1>1, <1>2, <2>1, <2>2, RefillIsEarned
  <2>4. Refilled(r, t) = Refill(b, t, r.rate, Depth(r))
    BY DEF Refilled, b
  <2> QED BY <2>2, <2>3, <2>4 DEF Bucket
<1>3. CASE ~b.live
  <2>1. Refilled(r, t) = [live |-> TRUE, tokens |-> Depth(r), last |-> t]
    BY <1>3 DEF Refilled, Refill
  <2> QED BY <2>1, <1>1, RequestFits DEF Bucket
<1> QED BY <1>2, <1>3

-----------------------------------------------------------------------------
(* Type correctness and the bound of the table.                            *)

\* One more bucket is within the capacity when there is room.
LEMMA TableStaysBounded ==
    ASSUME TypeOK, NEW g \in Group, buckets[g].live \/ HasRoom
    PROVE  Cardinality(Live \cup {g}) <= Capacity
<1>1. IsFiniteSet(Live) /\ Cardinality(Live) \in Nat
  BY AdmissionAssumption, FS_Subset, FS_CardinalityType DEF Live
<1>2. CASE g \in Live
  <2>1. Live \cup {g} = Live
    BY <1>2
  <2> QED BY <2>1 DEF TypeOK
<1>3. CASE g \notin Live
  <2>1. Cardinality(Live) < Capacity
    BY <1>3 DEF Live, HasRoom
  <2>2. Cardinality(Live \cup {g}) = Cardinality(Live) + 1
    BY <1>1, <1>3, FS_AddElement
  <2> QED BY <2>1, <2>2, <1>1, AdmissionAssumption
<1> QED BY <1>2, <1>3

\* A smaller set of buckets is within the capacity.
LEMMA TableShrinks ==
    ASSUME TypeOK, NEW S \in SUBSET Live
    PROVE  Cardinality(S) <= Capacity
<1>1. IsFiniteSet(Live)
  BY AdmissionAssumption, FS_Subset DEF Live
<1>2. Cardinality(S) <= Cardinality(Live) /\ IsFiniteSet(S)
  BY <1>1, FS_Subset
<1>3. Cardinality(S) \in Nat /\ Cardinality(Live) \in Nat
  BY <1>1, <1>2, FS_CardinalityType
<1> QED BY <1>2, <1>3, AdmissionAssumption DEF TypeOK

\* A bucket stored by a request leaves the state type correct.
LEMMA StoreKeepsType ==
    ASSUME TypeOK, NEW w \in Worker, NEW g \in Group, NEW b \in Bucket,
           buckets[g].live \/ HasRoom,
           b.tokens <= TopDepth, b.last <= now, b.live,
           buckets' = [buckets EXCEPT ![g] = b],
           held' = [held EXCEPT ![w] = None],
           account' \in [Group -> Account],
           now' = now
    PROVE  TypeOK'
<1>1. held' \in [Worker -> 0..now' \cup {None}]
  BY DEF TypeOK
<1>2. buckets' \in [Group -> Bucket]
  BY DEF TypeOK
<1>3. \A h \in Group : buckets'[h].tokens <= TopDepth /\ buckets'[h].last <= now'
  BY DEF TypeOK
<1>4. Live' = Live \cup {g}
  BY DEF Live, TypeOK
<1>5. Cardinality(Live') <= Capacity
  BY <1>4, TableStaysBounded
<1> QED BY <1>1, <1>2, <1>3, <1>5 DEF TypeOK

\* Init establishes the type invariant.
LEMMA InitType == Init => TypeOK
<1> SUFFICES ASSUME Init PROVE TypeOK
  OBVIOUS
<1>1. Live = {}
  BY DEF Init, Live, NoBucket
<1>2. Cardinality(Live) <= Capacity
  BY <1>1, FS_EmptySet, AdmissionAssumption
<1>3. buckets \in [Group -> Bucket]
  BY DEF Init, Bucket, NoBucket
<1>4. \A g \in Group : buckets[g].tokens <= TopDepth /\ buckets[g].last <= now
  BY AdmissionAssumption DEF Init, NoBucket
<1>5. account \in [Group -> Account]
  BY DEF Init, Account, NoAccount
<1> QED BY <1>2, <1>3, <1>4, <1>5 DEF Init, TypeOK

\* Every step preserves the type invariant.
LEMMA NextType == TypeOK /\ [Next]_vars => TypeOK'
<1> SUFFICES ASSUME TypeOK, [Next]_vars PROVE TypeOK'
  OBVIOUS
<1>1. ASSUME NEW w \in Worker, Arrive(w) PROVE TypeOK'
  <2>1. held' \in [Worker -> 0..now' \cup {None}]
    BY <1>1 DEF Arrive, TypeOK
  <2>2. Live' = Live
    BY <1>1 DEF Arrive, Live
  <2> QED BY <1>1, <2>1, <2>2 DEF Arrive, TypeOK
<1>2. ASSUME NEW w \in Worker, Pass(w) PROVE TypeOK'
  <2>1. held' \in [Worker -> 0..now' \cup {None}]
    BY <1>2 DEF Pass, TypeOK
  <2>2. Live' = Live
    BY <1>2 DEF Pass, Live
  <2> QED BY <1>2, <2>1, <2>2 DEF Pass, TypeOK
<1>3. ASSUME NEW w \in Worker, NEW r \in Request, Release(w, r) PROVE TypeOK'
  <2> DEFINE b == Refilled(r, held[w])
             c == [b EXCEPT !.tokens = @ - Need(r)]
  <2>1. held[w] \in 0..now
    BY <1>3 DEF Release, Reaches, TypeOK
  <2>2. b \in Bucket /\ b.live /\ b.last = held[w] /\ b.tokens <= TopDepth
    BY <1>3, <2>1, RefilledBucket DEF Release, Reaches
  <2>3. Need(r) \in Nat /\ Need(r) <= b.tokens /\ r.group \in Group
    BY <1>3, RequestFits DEF Release, WouldRelease
  <2> HIDE DEF b
  <2>4. c \in Bucket /\ c.tokens <= TopDepth /\ c.last <= now /\ c.live
    BY <2>1, <2>2, <2>3, AdmissionAssumption DEF Bucket
  <2> USE DEF b
  <2>5. account' \in [Group -> Account]
    <3>1. account[r.group].released \in Nat /\ account[r.group] \in Account /\ held[w] \in Nat
      BY <2>1, <2>3 DEF TypeOK, Account
    <3>2. [account[r.group] EXCEPT !.released = @ + Need(r)] \in Account
      BY <3>1, <2>3 DEF Account
    <3>3. [released |-> Need(r), since |-> held[w]] \in Account
      BY <3>1, <2>3 DEF Account
    <3> QED BY <1>3, <3>2, <3>3, <2>3 DEF Release, TypeOK
  <2>6. /\ buckets[r.group].live \/ HasRoom
        /\ buckets' = [buckets EXCEPT ![r.group] = c]
        /\ held' = [held EXCEPT ![w] = None]
        /\ now' = now
    BY <1>3 DEF Release, Reaches
  <2> HIDE DEF c
  <2> QED BY <2>3, <2>4, <2>5, <2>6, StoreKeepsType
<1>4. ASSUME NEW w \in Worker, NEW r \in Request, RateLimited(w, r) PROVE TypeOK'
  <2> DEFINE b == Refilled(r, held[w])
  <2>1. held[w] \in 0..now
    BY <1>4 DEF RateLimited, Reaches, TypeOK
  <2>2. b \in Bucket /\ b.live /\ b.last <= now /\ b.tokens <= TopDepth
    BY <1>4, <2>1, RefilledBucket DEF RateLimited, Reaches
  <2>3. /\ buckets[r.group].live \/ HasRoom
        /\ buckets' = [buckets EXCEPT ![r.group] = b]
        /\ held' = [held EXCEPT ![w] = None]
        /\ now' = now /\ account' = account
    BY <1>4 DEF RateLimited, Reaches
  <2>4. account' \in [Group -> Account] /\ r.group \in Group
    BY <2>3, RequestFits DEF TypeOK
  <2> HIDE DEF b
  <2> QED BY <2>2, <2>3, <2>4, StoreKeepsType
<1>5. ASSUME NEW g \in Group, Forget(g) PROVE TypeOK'
  <2>1. buckets' \in [Group -> Bucket]
    BY <1>5 DEF Forget, TypeOK, Bucket, NoBucket
  <2>2. \A h \in Group : buckets'[h].tokens <= TopDepth /\ buckets'[h].last <= now'
    BY <1>5, AdmissionAssumption DEF Forget, TypeOK, NoBucket
  <2>3. Live' \in SUBSET Live
    BY <1>5 DEF Forget, Live, TypeOK, NoBucket
  <2>4. account' \in [Group -> Account]
    BY <1>5 DEF Forget, TypeOK, Account, NoAccount
  <2> QED BY <1>5, <2>1, <2>2, <2>3, <2>4, TableShrinks DEF Forget, TypeOK
<1>6. ASSUME NEW g \in Group, Observe(g) PROVE TypeOK'
  <2>1. account' \in [Group -> Account]
    BY <1>6 DEF Observe, TypeOK, Account, Bucket
  <2>2. Live' = Live
    BY <1>6 DEF Observe, Live
  <2> QED BY <1>6, <2>1, <2>2 DEF Observe, TypeOK
<1>7. CASE Clear
  <2>1. buckets' \in [Group -> Bucket]
    BY <1>7 DEF Clear, Bucket, NoBucket
  <2>2. \A h \in Group : buckets'[h].tokens <= TopDepth /\ buckets'[h].last <= now'
    BY <1>7, AdmissionAssumption DEF Clear, TypeOK, NoBucket
  <2>3. Live' \in SUBSET Live
    BY <1>7 DEF Clear, Live, NoBucket
  <2>4. account' \in [Group -> Account]
    BY <1>7 DEF Clear, Account, NoAccount
  <2>5. held' \in [Worker -> 0..now' \cup {None}]
    BY <1>7 DEF Clear
  <2> QED BY <1>7, <2>1, <2>2, <2>3, <2>4, <2>5, TableShrinks DEF Clear, TypeOK
<1>8. CASE Tick
  <2>1. held' \in [Worker -> 0..now' \cup {None}]
    <3>1. 0..now \cup {None} \subseteq 0..now' \cup {None}
      BY <1>8 DEF Tick, TypeOK
    <3> QED BY <1>8, <3>1 DEF Tick, TypeOK
  <2>2. \A h \in Group : buckets'[h].tokens <= TopDepth /\ buckets'[h].last <= now'
    BY <1>8 DEF Tick, TypeOK, Bucket
  <2>3. Live' = Live
    BY <1>8 DEF Tick, Live
  <2> QED BY <1>8, <2>1, <2>2, <2>3 DEF Tick, TypeOK
<1>9. CASE UNCHANGED vars
  BY <1>9 DEF vars, TypeOK, Live
<1> QED BY <1>1, <1>2, <1>3, <1>4, <1>5, <1>6, <1>7, <1>8, <1>9 DEF Next

\* The admission state is type correct, its table within the capacity, its
\* buckets within the deepest and not ahead of the clock (AdmissionController).
THEOREM AdmissionTypeOK == Spec => []TypeOK
  BY InitType, NextType, PTL DEF Spec

-----------------------------------------------------------------------------
(* Pacing.  What was released is not inductive by itself: a bucket that is *)
(* full could release too much in the next step.  Counting the tokens that *)
(* are left together with what was released is.                            *)

\* What a bucket has released since an instant, with what it still holds, is at
\* most one full bucket and what the highest rate yields since.
Balanced ==
    \A g \in Live :
        /\ account[g].since <= buckets[g].last
        /\ Scale * account[g].released + Scale * buckets[g].tokens
             <= Scale * TopDepth + TopRate * (buckets[g].last - account[g].since)

\* The balance of one account and one bucket.
InBalance(a, b) ==
    /\ a.since <= b.last
    /\ Scale * a.released + Scale * b.tokens
         <= Scale * TopDepth + TopRate * (b.last - a.since)

\* A fresh count starts in balance.
LEMMA FreshBalance ==
    ASSUME NEW b \in Bucket, b.tokens <= TopDepth, NEW n \in Nat, n + b.tokens <= TopDepth
    PROVE  InBalance([released |-> n, since |-> b.last], b)
<1>1. b.tokens \in Nat /\ b.last \in Nat /\ Scale \in Nat /\ TopDepth \in Nat /\ TopRate \in Nat
  BY AdmissionAssumption DEF Bucket
<1>2. Scale * (n + b.tokens) <= Scale * TopDepth
  BY <1>1, Monotone
<1>3. Scale * (n + b.tokens) = Scale * n + Scale * b.tokens
  BY <1>1
<1>4. TopRate * (b.last - b.last) = 0
  BY <1>1
<1>5. Scale * n \in Nat /\ Scale * b.tokens \in Nat /\ Scale * TopDepth \in Nat
  BY <1>1
<1> QED BY <1>1, <1>2, <1>3, <1>4, <1>5 DEF InBalance

\* A refill keeps the balance: what it adds is covered by the time that passed.
LEMMA RefillBalance ==
    ASSUME NEW a \in Account, NEW b \in Bucket, InBalance(a, b), b.live,
           NEW c \in Bucket, b.last <= c.last,
           Scale * c.tokens <= Scale * b.tokens + TopRate * (c.last - b.last)
    PROVE  InBalance(a, c)
<1>1. /\ a.since \in Nat /\ a.released \in Nat /\ b.tokens \in Nat /\ b.last \in Nat
      /\ c.tokens \in Nat /\ c.last \in Nat /\ Scale \in Nat /\ TopDepth \in Nat /\ TopRate \in Nat
  BY AdmissionAssumption DEF Bucket, Account
<1>2. a.since <= b.last /\ a.since <= c.last
  BY <1>1 DEF InBalance
<1>3. TopRate * (b.last - a.since) + TopRate * (c.last - b.last) = TopRate * (c.last - a.since)
  BY <1>1
<1>4. /\ Scale * a.released \in Nat /\ Scale * b.tokens \in Nat /\ Scale * c.tokens \in Nat
      /\ Scale * TopDepth \in Nat /\ TopRate * (b.last - a.since) \in Nat
      /\ TopRate * (c.last - b.last) \in Nat /\ TopRate * (c.last - a.since) \in Nat
  BY <1>1, <1>2
<1>5. Scale * a.released + Scale * b.tokens <= Scale * TopDepth + TopRate * (b.last - a.since)
  BY DEF InBalance
<1>6. Scale * a.released + Scale * c.tokens <= Scale * TopDepth + TopRate * (c.last - a.since)
  BY <1>3, <1>4, <1>5
<1> QED BY <1>2, <1>6 DEF InBalance

\* Taking tokens and counting them keeps the balance.
LEMMA ReleaseBalance ==
    ASSUME NEW a \in Account, NEW b \in Bucket, InBalance(a, b),
           NEW n \in Nat, n <= b.tokens
    PROVE  InBalance([a EXCEPT !.released = @ + n], [b EXCEPT !.tokens = @ - n])
<1>1. /\ a.since \in Nat /\ a.released \in Nat /\ b.tokens \in Nat /\ b.last \in Nat
      /\ b.tokens - n \in Nat /\ Scale \in Nat
  BY AdmissionAssumption DEF Bucket, Account
<1>2. Scale * (a.released + n) + Scale * (b.tokens - n) = Scale * a.released + Scale * b.tokens
  BY <1>1
<1>3. /\ [a EXCEPT !.released = @ + n].released = a.released + n
      /\ [a EXCEPT !.released = @ + n].since = a.since
      /\ [b EXCEPT !.tokens = @ - n].tokens = b.tokens - n
      /\ [b EXCEPT !.tokens = @ - n].last = b.last
  BY DEF Account, Bucket
<1> QED BY <1>2, <1>3 DEF InBalance

\* Every step keeps every live bucket in balance with its account.
LEMMA NextBalanced == TypeOK /\ Balanced /\ [Next]_vars => Balanced'
<1> SUFFICES ASSUME TypeOK, Balanced, [Next]_vars,
                    NEW g \in Group, buckets'[g].live
             PROVE  InBalance(account'[g], buckets'[g])
  BY DEF Balanced, InBalance, Live
<1> DEFINE a == account[g]
           b == buckets[g]
<1>1. a \in Account /\ b \in Bucket /\ b.tokens <= TopDepth
  BY DEF TypeOK
<1>2. b.live => InBalance(a, b)
  BY DEF Balanced, InBalance, Live
<1>3. CASE account' = account /\ buckets' = buckets
  BY <1>2, <1>3
<1>4. ASSUME NEW w \in Worker, NEW r \in Request, Release(w, r)
      PROVE  InBalance(account'[g], buckets'[g])
  <2>1. CASE g # r.group
    <3>1. buckets'[g] = b /\ account'[g] = a
      BY <1>4, <2>1 DEF Release, TypeOK
    <3> QED BY <3>1, <1>2
  <2>2. CASE g = r.group
    <3> DEFINE t == held[w]
               c == Refilled(r, t)
    <3>1. t \in 0..now /\ InOrder(buckets[r.group], t)
      BY <1>4 DEF Release, Reaches, TypeOK
    <3>2. c \in Bucket /\ c.live /\ c.last = t /\ c.tokens <= TopDepth
      BY <3>1, RefilledBucket
    <3>3. Need(r) \in Nat /\ Need(r) <= c.tokens
      BY <1>4, RequestFits DEF Release, WouldRelease
    <3>4. buckets'[g] = [c EXCEPT !.tokens = @ - Need(r)]
      BY <1>4, <2>2 DEF Release, TypeOK
    <3>5. CASE b.live
      <4>1. account'[g] = [a EXCEPT !.released = @ + Need(r)]
        BY <1>4, <2>2, <3>5 DEF Release, TypeOK
      <4>2. b.last <= t /\ t \in Nat
        BY <2>2, <3>1, <3>5, <1>1 DEF InOrder, Bucket, TypeOK
      <4>3. Scale * c.tokens <= Scale * b.tokens + TopRate * (t - b.last)
        <5>1. r.rate \in Rates /\ Depth(r) \in Nat /\ Depth(r) <= TopDepth
          BY RequestFits
        <5>2. c = Refill(b, t, r.rate, Depth(r))
          BY <2>2 DEF Refilled
        <5> HIDE DEF b, c, t
        <5> QED BY <5>1, <5>2, <4>2, <3>5, <1>1, RefillIsEarned
      <4> HIDE DEF a, b, c, t
      <4>4. InBalance(a, c)
        BY <1>1, <1>2, <3>2, <3>5, <4>2, <4>3, RefillBalance
      <4> QED BY <1>1, <3>2, <3>3, <3>4, <4>1, <4>4, ReleaseBalance
    <3>6. CASE ~b.live
      <4>1. account'[g] = [released |-> Need(r), since |-> t]
        BY <1>4, <2>2, <3>6 DEF Release, TypeOK
      <4> DEFINE d == [c EXCEPT !.tokens = @ - Need(r)]
      <4> HIDE DEF a, b, c, t
      <4>2. d \in Bucket /\ d.tokens = c.tokens - Need(r) /\ d.last = t
        BY <3>2, <3>3 DEF Bucket
      <4>3. d.tokens <= TopDepth /\ Need(r) + d.tokens <= TopDepth
        BY <3>2, <3>3, <4>2, AdmissionAssumption DEF Bucket
      <4> HIDE DEF d
      <4>4. InBalance([released |-> Need(r), since |-> d.last], d)
        BY <3>3, <4>2, <4>3, FreshBalance
      <4> QED BY <3>4, <4>1, <4>2, <4>4 DEF d
    <3> QED BY <3>5, <3>6
  <2> QED BY <2>1, <2>2
<1>5. ASSUME NEW w \in Worker, NEW r \in Request, RateLimited(w, r)
      PROVE  InBalance(account'[g], buckets'[g])
  <2>1. account'[g] = a
    BY <1>5 DEF RateLimited
  <2>2. CASE g # r.group
    <3>1. buckets'[g] = b
      BY <1>5, <2>2 DEF RateLimited, TypeOK
    <3> QED BY <3>1, <2>1, <1>2
  <2>3. CASE g = r.group
    <3> DEFINE t == held[w]
               c == Refilled(r, t)
    <3>1. t \in 0..now /\ InOrder(buckets[r.group], t)
      BY <1>5 DEF RateLimited, Reaches, TypeOK
    <3>2. c \in Bucket /\ c.live /\ c.last = t
      BY <3>1, RefilledBucket
    <3>3. buckets'[g] = c
      BY <1>5, <2>3 DEF RateLimited, TypeOK
    <3>4. b.live
      <4>1. SUFFICES ASSUME ~b.live PROVE FALSE
        OBVIOUS
      <4>2. c.tokens = Depth(r)
        BY <4>1, <2>3 DEF Refilled, Refill
      <4> QED BY <4>2, <1>5, RequestFits DEF RateLimited, WouldRelease
    <3>5. b.last <= t /\ t \in Nat
      BY <2>3, <3>1, <3>4, <1>1 DEF InOrder, Bucket, TypeOK
    <3>6. Scale * c.tokens <= Scale * b.tokens + TopRate * (t - b.last)
      <4>1. r.rate \in Rates /\ Depth(r) \in Nat /\ Depth(r) <= TopDepth
        BY RequestFits
      <4>2. c = Refill(b, t, r.rate, Depth(r))
        BY <2>3 DEF Refilled
      <4> HIDE DEF b, c, t
      <4> QED BY <4>1, <4>2, <3>4, <3>5, <1>1, RefillIsEarned
    <3> HIDE DEF a, b, c, t
    <3> QED BY <1>1, <1>2, <2>1, <3>2, <3>3, <3>4, <3>5, <3>6, RefillBalance
  <2> QED BY <2>2, <2>3
<1>6. ASSUME NEW h \in Group, Observe(h) PROVE InBalance(account'[g], buckets'[g])
  <2>1. buckets'[g] = b
    BY <1>6 DEF Observe
  <2>2. CASE g = h
    <3>1. account'[g] = [released |-> 0, since |-> b.last]
      BY <1>6, <2>2 DEF Observe, TypeOK
    <3>2. 0 + b.tokens <= TopDepth
      BY <1>1 DEF Bucket
    <3> HIDE DEF b
    <3> QED BY <2>1, <3>1, <3>2, <1>1, FreshBalance
  <2>3. CASE g # h
    <3>1. account'[g] = a
      BY <1>6, <2>3 DEF Observe, TypeOK
    <3> QED BY <2>1, <3>1, <1>2
  <2> QED BY <2>2, <2>3
<1>7. ASSUME NEW h \in Group, Forget(h) PROVE InBalance(account'[g], buckets'[g])
  <2>1. g # h
    BY <1>7 DEF Forget, TypeOK, NoBucket
  <2>2. buckets'[g] = b /\ account'[g] = a
    BY <1>7, <2>1 DEF Forget, TypeOK
  <2> QED BY <2>2, <1>2
<1>8. CASE Clear
  BY <1>8 DEF Clear, NoBucket
<1>9. CASE Tick \/ \E w \in Worker : Arrive(w) \/ Pass(w)
  BY <1>3, <1>9 DEF Tick, Arrive, Pass
<1>10. CASE UNCHANGED vars
  BY <1>3, <1>10 DEF vars
<1> QED BY <1>4, <1>5, <1>6, <1>7, <1>8, <1>9, <1>10 DEF Next

\* The balance implies the bound on what was released.
LEMMA BalancedImpliesRate == TypeOK /\ Balanced => ReleasesWithinRate
<1> SUFFICES ASSUME TypeOK, Balanced, NEW g \in Live
             PROVE  /\ account[g].since <= buckets[g].last
                    /\ Scale * account[g].released
                         <= Scale * TopDepth + TopRate * (buckets[g].last - account[g].since)
  BY DEF ReleasesWithinRate
<1>1. /\ account[g].since \in Nat /\ account[g].released \in Nat
      /\ buckets[g].tokens \in Nat /\ buckets[g].last \in Nat
      /\ Scale \in Nat /\ TopDepth \in Nat /\ TopRate \in Nat
  BY AdmissionAssumption DEF TypeOK, Account, Bucket, Live
<1>2. account[g].since <= buckets[g].last
  BY DEF Balanced
<1>3. Scale * account[g].released \in Nat /\ Scale * buckets[g].tokens \in Nat
      /\ Scale * TopDepth \in Nat /\ TopRate * (buckets[g].last - account[g].since) \in Nat
  BY <1>1, <1>2
<1>4. Scale * account[g].released + Scale * buckets[g].tokens
        <= Scale * TopDepth + TopRate * (buckets[g].last - account[g].since)
  BY DEF Balanced
<1> QED BY <1>2, <1>3, <1>4

\* Pacing holds over every interval, for all rates, bursts, volumes and words,
\* and for requests whose times arrive out of order (admit, refill, try_consume).
THEOREM PacingHolds == Spec => []ReleasesWithinRate
<1>1. Init => Balanced
  BY DEF Init, Balanced, Live, NoBucket
<1> QED BY <1>1, InitType, NextType, NextBalanced, BalancedImpliesRate, PTL DEF Spec

-----------------------------------------------------------------------------
(* The wait.                                                               *)

\* In every state, the wait is enough.
LEMMA WaitIsEnoughHere == TypeOK => WaitIsEnough
<1> SUFFICES ASSUME TypeOK, NEW r \in Request, r.group \in Live,
                    Need(r) > Refilled(r, now).tokens,
                    (Need(r) - Refilled(r, now).tokens) * Scale + r.rate < Word
             PROVE  LET b == Refilled(r, now)
                    IN Need(r) <= Refill(b, now + Delay(b.tokens, Need(r), r.rate),
                                         r.rate, Depth(r)).tokens
  BY DEF WaitIsEnough
<1> DEFINE b == Refilled(r, now)
<1>1. now \in 0..now /\ InOrder(buckets[r.group], now)
  BY DEF TypeOK, InOrder, Live
<1>2. b \in Bucket /\ b.live /\ b.last = now
  BY <1>1, RefilledBucket
<1>3. Need(r) \in Nat /\ Depth(r) \in Nat /\ Need(r) <= Depth(r) /\ r.rate \in Rates
  BY RequestFits
<1> HIDE DEF b
<1>4. Need(r) <= Refill(b, b.last + Delay(b.tokens, Need(r), r.rate), r.rate, Depth(r)).tokens
  BY <1>2, <1>3, WaitRefills DEF b
<1> QED BY <1>2, <1>4 DEF b

\* A rate limited request that comes back when its wait is over, before any other
\* of its flow group, is released (delay_until_available_ms, refill).
THEOREM WaitHolds == Spec => []WaitIsEnough
  BY AdmissionTypeOK, WaitIsEnoughHere, PTL
=============================================================================
