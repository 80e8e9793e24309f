------------------------------- MODULE History -------------------------------
(***************************************************************************)
(* DecisionHistory (src/src/history.cpp): a ring of the latest decisions   *)
(* with an ordinal each, an index from correlation values to ordinals, and *)
(* the queries behind inspect and explain.  Writers hold the service's     *)
(* mutex, so there is one at a time; they take the history's own mutex     *)
(* once to record a decision and once more to bind its correlation.        *)
(* Readers take only the history's mutex and may come between the two.     *)
(***************************************************************************)
EXTENDS Identity, Integers, Sequences, FiniteSets

CONSTANTS
    Correlation,     \* correlation values of requests, not 0
    Capacities,      \* decision_history_capacity values; 0 stands for 1
    MaxDecisions     \* bound: decisions explored between two stops

ASSUME HistoryAssumption ==
    /\ Capacities \subseteq Nat /\ Capacities # {}
    /\ 0 \notin Correlation /\ None \notin Correlation
    /\ MaxDecisions \in Nat

VARIABLES
    capacity,    \* capacity_
    records,     \* records_, oldest first: [ordinal, decision]
    first,       \* first_ordinal_
    next,        \* next_ordinal_
    index,       \* correlations_: set of <<correlation, ordinal>>
    pending,     \* [corr, ordinal] between record and bind_correlation, or None
    log,         \* ghost: every decision since the last clear
    bound        \* ghost: [Correlation -> ordinal it was last bound to, 0 if none]

history == <<capacity, records, first, next, index, pending, log, bound>>

Greater(a, b) == IF a >= b THEN a ELSE b
Lesser(a, b) == IF a <= b THEN a ELSE b

Entry(o, d) == [ordinal |-> o, decision |-> d]

\* The n newest of a sequence.
Newest(s, n) == SubSeq(s, Len(s) - n + 1, Len(s))

-----------------------------------------------------------------------------
(* Queries, each one critical section.                                     *)

Found(e) == [status |-> "ok", entry |-> e]
NotFound(status) == [status |-> status, entry |-> None]

\* get; also the last steps of find_correlation.
AtOffByOne(o) == Found(records[Lesser(Len(records), o - first + 2)])

At(o) == Found(records[o - first + 1])

Get(o) ==
    IF records = <<>> THEN NotFound("empty")
    ELSE IF o >= next THEN NotFound("future")
    ELSE IF o < first THEN NotFound("evicted")
    ELSE At(o)

PageSkipping(offset, limit) ==
    IF records = <<>> \/ offset >= next THEN <<>>
    ELSE LET start == Greater(offset, first) - first + 1
         IN  Newest(SubSeq(records, start, Len(records)),
                    Lesser(limit, Len(records) - start + 1))

\* page: from the offset, or from the oldest retained, at most limit entries.
Page(offset, limit) ==
    IF records = <<>> \/ offset >= next THEN <<>>
    ELSE LET start == Greater(offset, first) - first + 1
         IN  SubSeq(records, start, Lesser(Len(records), start + limit - 1))

\* latest, newest first.
Latest(limit) ==
    [k \in 1 .. Lesser(limit, Len(records)) |-> records[Len(records) - k + 1]]

\* The newest retained decision that matches; find_instance and find_attempt
\* walk the ring from its end.
FindNewest(Match(_)) ==
    LET hits == {k \in DOMAIN records : Match(records[k].decision)}
    IN  IF records = <<>> THEN NotFound("empty")
        ELSE IF hits = {} THEN NotFound("evicted")
        ELSE Found(records[CHOOSE k \in hits : \A j \in hits : j <= k])

FindInstance(instance) ==
    LET Same(d) == d.instance = instance IN FindNewest(Same)

\* An unset attempt matches every attempt; the generation is not looked at.
FindAttempt(id, attempt) ==
    LET Same(d) == d.instance.id = id /\ attempt \in {None, d.instance.attempt}
    IN  FindNewest(Same)

FindCorrelation(c) ==
    LET hits == {x \in index : x[1] = c}
    IN  IF hits = {} THEN NotFound("evicted")
        ELSE LET o == (CHOOSE x \in hits : TRUE)[2]
             IN  IF o >= next THEN NotFound("future")
                 ELSE IF o < first THEN NotFound("evicted")
                 ELSE At(o)

-----------------------------------------------------------------------------
(* Updates.                                                                *)

\* What is retained of r with room for n.
Kept(r, n) == Newest(r, Lesser(Len(r), n))

\* first_ordinal_ moves by what is dropped of r with room for n.
FirstAfter(r, n) == first + Len(r) - Len(Kept(r, n))

\* record, returning the ordinal it gave; then bind_correlation is due when the
\* request came with a session and a correlation.
Record(d, corr) ==
    LET r == Append(records, Entry(next, d))
    IN  /\ pending = None
        /\ records' = Kept(r, capacity)
        /\ first' = FirstAfter(r, capacity)
        /\ next' = next + 1
        /\ log' = Append(log, d)
        /\ pending' = IF corr = None THEN None ELSE [corr |-> corr, ordinal |-> next]
        /\ UNCHANGED <<capacity, index, bound>>

ReboundIfNew(corr, ordinal) ==
    LET left == IF Cardinality(index) >= capacity THEN {} ELSE index
    IN  IF \E x \in left : x[1] = corr THEN left ELSE left \cup {<<corr, ordinal>>}

\* The index after bind_correlation: emptied when it is full, also when the
\* correlation is there already.
Rebound(corr, ordinal) ==
    {x \in IF Cardinality(index) >= capacity THEN {} ELSE index : x[1] # corr}
      \cup {<<corr, ordinal>>}

BindCorrelation ==
    /\ pending # None
    /\ index' = Rebound(pending.corr, pending.ordinal)
    /\ bound' = [bound EXCEPT ![pending.corr] = pending.ordinal]
    /\ pending' = None
    /\ UNCHANGED <<capacity, records, first, next, log>>

\* set_capacity, by the constructor and by set_config under the service's mutex.
SetCapacity(n) ==
    LET room == Greater(1, n)
    IN  /\ pending = None
        /\ capacity' = room
        /\ records' = Kept(records, room)
        /\ first' = FirstAfter(records, room)
        /\ UNCHANGED <<next, index, pending, log, bound>>

\* clear, by CoordinatorService::stop under the service's mutex.
Clear ==
    /\ pending = None
    /\ records' = <<>> /\ index' = {}
    /\ first' = 1 /\ next' = 1
    /\ log' = <<>> /\ bound' = [c \in Correlation |-> 0]
    /\ UNCHANGED <<capacity, pending>>

-----------------------------------------------------------------------------
HistoryInit ==
    /\ capacity \in {Greater(1, n) : n \in Capacities}
    /\ records = <<>> /\ first = 1 /\ next = 1
    /\ index = {} /\ pending = None
    /\ log = <<>> /\ bound = [c \in Correlation |-> 0]
=============================================================================
