------------------------------ MODULE Admission ------------------------------
(***************************************************************************)
(* AdmissionController (src/src/admission.cpp) and TokenBucket             *)
(* (src/src/traffic.cpp): a bounded table of token buckets, one for each   *)
(* flow group whose decision is paced.  A connection thread reads the      *)
(* clock when its frame arrives and reaches the controller only later, in  *)
(* its turn at the service's mutex, so the times a bucket sees may be out  *)
(* of order.  Time is in milliseconds and rates are per second: Scale is   *)
(* the 1000 between them.  Arithmetic is on words of the machine.          *)
(* Decisions that grant nothing, are released immediately, have no rate    *)
(* ceiling or a rate of zero leave before the table is looked at.          *)
(***************************************************************************)
EXTENDS Integers, FiniteSets

CONSTANTS
    Group,       \* flow groups
    Worker,      \* connection threads
    Rates,       \* admitted rates, neither zero nor unlimited
    Bursts,      \* burst ceilings of the traffic classes
    Sizes,       \* volumes of a flow group, total_logical_bytes
    TopRate,     \* the highest rate
    TopDepth,    \* the deepest bucket
    Scale,       \* milliseconds in a second
    Word,        \* 2^64
    Capacity,    \* limits::kTokenBucketsMax (4096 in the code)
    None,        \* no request
    MaxTime      \* bound: clock ticks explored

ASSUME AdmissionAssumption ==
    /\ Scale \in Nat \ {0}
    /\ Word \in Nat /\ TopDepth \in Nat /\ TopRate \in Nat
    /\ 0 < TopDepth /\ TopDepth < Word
    /\ Rates \subseteq 1..TopRate
    /\ Bursts \subseteq 0..TopDepth /\ Sizes \subseteq 0..TopDepth
    /\ Capacity \in Nat /\ IsFiniteSet(Group)
    /\ None \notin Nat
    /\ MaxTime \in Nat

VARIABLES
    now,       \* monotonic clock
    held,      \* [Worker -> time its request arrived, or None]
    buckets,   \* [Group -> bucket]
    account    \* ghost: [Group -> bytes released since an instant of the bucket]

vars == <<now, held, buckets, account>>

\* What a paced decision asks for.
Request == [group : Group, bytes : Sizes, rate : Rates, burst : Bursts]

\* TokenBucketState.  The rate and the burst it also stores are those of the
\* last request and are read back only in the call that stored them.
Bucket == [live : BOOLEAN, tokens : Nat, last : Nat]
NoBucket == [live |-> FALSE, tokens |-> 0, last |-> 0]

Account == [released : Nat, since : Nat]
NoAccount == [released |-> 0, since |-> 0]

Live == {g \in Group : buckets[g].live}

Lesser(a, b) == IF a <= b THEN a ELSE b
Greater(a, b) == IF a >= b THEN a ELSE b

-----------------------------------------------------------------------------
(* TokenBucket.                                                            *)

\* What a rate yields in so many milliseconds, in two halves so that legal rates
\* do not overflow; where a half overflows all the same, a full bucket.
Gained(rate, elapsed, depth) ==
    LET whole == ((rate \div Scale) * elapsed) % Word
        part == (((rate % Scale) * elapsed) % Word) \div Scale
        sum == (whole + part) % Word
    IN IF whole \div elapsed # rate \div Scale \/ sum < whole THEN depth ELSE sum

Elapsed(b, t) == (t - b.last) % Word

RefillWithoutTime(b, t, rate, depth) ==
    LET e == Elapsed(b, t)
        gained == IF e = 0 THEN 0 ELSE Gained(rate, e, depth)
    IN IF ~b.live THEN [live |-> TRUE, tokens |-> depth, last |-> t]
       ELSE [b EXCEPT !.tokens = Lesser(depth, @ + Lesser(gained, depth))]

\* refill, for a time that is not before the last one.
Refill(b, t, rate, depth) ==
    LET e == Elapsed(b, t)
        gained == IF e = 0 THEN 0 ELSE Gained(rate, e, depth)
    IN IF ~b.live THEN [live |-> TRUE, tokens |-> depth, last |-> t]
       ELSE [b EXCEPT !.tokens = Lesser(depth, @ + Lesser(gained, depth)), !.last = t]

DelayRoundedDown(tokens, bytes, rate) ==
    Greater(1, (((bytes - tokens) * Scale) % Word) \div rate)

\* delay_until_available_ms, for more bytes than there are tokens.
Delay(tokens, bytes, rate) ==
    Greater(1, (((bytes - tokens) * Scale + rate - 1) % Word) \div rate)

-----------------------------------------------------------------------------
(* AdmissionController.                                                    *)

\* The tokens a request takes: nothing is released for free.
Need(r) == Greater(1, r.bytes)

\* The depth of the bucket is the burst ceiling, but at least one request.
Depth(r) == Greater(r.burst, Need(r))

\* The clock of a request has not moved back behind the bucket's.
InOrder(b, t) == b.live => t >= b.last

HasRoomForOneMore == Cardinality(Live) <= Capacity

HasRoom == Cardinality(Live) < Capacity

Refilled(r, t) == Refill(buckets[r.group], t, r.rate, Depth(r))

\* What admit would answer at time t for a bucket that exists.
WouldRelease(r, t) == Need(r) <= Refilled(r, t).tokens

-----------------------------------------------------------------------------
Init ==
    /\ now = 0
    /\ held = [w \in Worker |-> None]
    /\ buckets = [g \in Group |-> NoBucket]
    /\ account = [g \in Group |-> NoAccount]

\* on_frame reads the clock.
Arrive(w) ==
    /\ held[w] = None
    /\ held' = [held EXCEPT ![w] = now]
    /\ UNCHANGED <<now, buckets, account>>

\* The table and the clock let request r of worker w reach its bucket.
Reaches(w, r) ==
    /\ held[w] # None
    /\ buckets[r.group].live \/ HasRoom
    /\ InOrder(buckets[r.group], held[w])

\* admit grants; a bucket that does not exist yet is created full.
Release(w, r) ==
    LET b == Refilled(r, held[w])
        a == account[r.group]
    IN
    /\ Reaches(w, r)
    /\ WouldRelease(r, held[w])
    /\ buckets' = [buckets EXCEPT ![r.group] = [b EXCEPT !.tokens = @ - Need(r)]]
    /\ account' = [account EXCEPT ![r.group] =
                     IF buckets[r.group].live THEN [a EXCEPT !.released = @ + Need(r)]
                     ELSE [released |-> Need(r), since |-> held[w]]]
    /\ held' = [held EXCEPT ![w] = None]
    /\ UNCHANGED now

\* admit answers rate limited; the refill stays.
RateLimited(w, r) ==
    /\ Reaches(w, r)
    /\ ~WouldRelease(r, held[w])
    /\ buckets' = [buckets EXCEPT ![r.group] = Refilled(r, held[w])]
    /\ held' = [held EXCEPT ![w] = None]
    /\ UNCHANGED <<now, account>>

\* The request ends without touching a bucket: the clock moved back, the table is
\* full, or admission does not apply to its decision.
Pass(w) ==
    /\ held[w] # None
    /\ held' = [held EXCEPT ![w] = None]
    /\ UNCHANGED <<now, buckets, account>>

\* forget, which no part of the coordinator calls.
Forget(g) ==
    /\ buckets[g].live
    /\ buckets' = [buckets EXCEPT ![g] = NoBucket]
    /\ account' = [account EXCEPT ![g] = NoAccount]
    /\ UNCHANGED <<now, held>>

\* clear, by CoordinatorService::stop.  Requests still on their way are refused
\* then, and their threads end before the service starts again.
Clear ==
    /\ buckets' = [g \in Group |-> NoBucket]
    /\ account' = [g \in Group |-> NoAccount]
    /\ held' = [w \in Worker |-> None]
    /\ UNCHANGED now

Tick ==
    /\ now < MaxTime
    /\ now' = now + 1
    /\ UNCHANGED <<held, buckets, account>>

\* The ghost begins to count afresh, so that it has counted over any interval
\* that begins at an instant of the bucket.
Observe(g) ==
    /\ buckets[g].live
    /\ account' = [account EXCEPT ![g] = [released |-> 0, since |-> buckets[g].last]]
    /\ UNCHANGED <<now, held, buckets>>

Next ==
    \/ \E w \in Worker : Arrive(w) \/ Pass(w)
    \/ \E w \in Worker, r \in Request : Release(w, r) \/ RateLimited(w, r)
    \/ \E g \in Group : Forget(g) \/ Observe(g)
    \/ Clear
    \/ Tick

Spec == Init /\ [][Next]_vars

-----------------------------------------------------------------------------
(* Properties.                                                             *)

\* Type correctness; the table stays within its capacity, no bucket is deeper
\* than the deepest, and none is ahead of the clock.
TypeOK ==
    /\ now \in Nat
    /\ held \in [Worker -> 0..now \cup {None}]
    /\ buckets \in [Group -> Bucket]
    /\ \A g \in Group : buckets[g].tokens <= TopDepth /\ buckets[g].last <= now
    /\ Cardinality(Live) <= Capacity
    /\ account \in [Group -> Account]

\* Pacing holds over every interval: from any instant of a bucket on, what it
\* has released is at most one full bucket and what the highest rate yields in
\* the time since, whatever times requests bring, however rates, bursts and
\* volumes change between them, and wherever the arithmetic saturates
\* (TokenBucket::refill, try_consume, admit).
ReleasesWithinRate ==
    \A g \in Live :
        /\ account[g].since <= buckets[g].last
        /\ Scale * account[g].released
             <= Scale * TopDepth + TopRate * (buckets[g].last - account[g].since)

\* The wait a rate limited request is told is enough: the same request, made
\* when the wait is over and before any other of its flow group, is released
\* (delay_until_available_ms and refill round in opposite directions).  Claimed
\* where the deficit times Scale fits a word.
WaitIsEnough ==
    \A r \in Request :
        LET b == Refilled(r, now)
            w == Delay(b.tokens, Need(r), r.rate)
        IN /\ r.group \in Live
           /\ Need(r) > b.tokens
           /\ (Need(r) - b.tokens) * Scale + r.rate < Word
           => Need(r) <= Refill(b, now + w, r.rate, Depth(r)).tokens
=============================================================================
