----------------------------- MODULE Inspection -----------------------------
(***************************************************************************)
(* The decision history as clients see it: requests are decided and        *)
(* recorded, the capacity is changed, the service stops, and clients       *)
(* inspect pages, explain attempts and look correlations up meanwhile.     *)
(***************************************************************************)
EXTENDS History

CONSTANTS
    Decision,        \* decisions the service may reach
    PageLimit        \* entries a client asks for

ASSUME InspectionAssumption == PageLimit \in Nat \ {0}

VARIABLES
    cursor,      \* ordinal a paging client asks for next
    seen,        \* what that client was shown: set of entries
    skipped      \* ghost: ordinals evicted before that client asked for them

reader == <<cursor, seen, skipped>>
vars == <<history, reader>>

Init ==
    /\ HistoryInit
    /\ cursor = 1 /\ seen = {} /\ skipped = {}

\* A client that inspects page after page (inspect_decisions), asking each time
\* for what follows the last entry it was shown.
ReadPage ==
    LET page == Page(cursor, PageLimit)
    IN  /\ page # <<>>
        /\ seen' = seen \cup {page[k] : k \in DOMAIN page}
        /\ cursor' = page[Len(page)].ordinal + 1
        /\ skipped' = skipped \cup (cursor .. first - 1)
        /\ UNCHANGED history

\* A stop ends the client's connection; a new one pages from the start.
Stop ==
    /\ log # <<>>
    /\ Clear
    /\ cursor' = 1 /\ seen' = {} /\ skipped' = {}

Next ==
    \/ /\ Len(log) < MaxDecisions
       /\ \E d \in Decision, c \in Correlation \cup {None} : Record(d, c)
       /\ UNCHANGED reader
    \/ BindCorrelation /\ UNCHANGED reader
    \/ \E n \in Capacities : SetCapacity(n) /\ UNCHANGED reader
    \/ ReadPage
    \/ Stop

Spec == Init /\ [][Next]_vars

-----------------------------------------------------------------------------
(* Properties.                                                             *)

\* Type correctness; the ring is within its capacity and its ordinals are those
\* between the two counters.
HistoryTypeOK ==
    /\ capacity \in Nat \ {0}
    /\ Len(records) <= capacity
    /\ first \in Nat \ {0} /\ next = first + Len(records)
    /\ index \subseteq Correlation \X (1 .. next - 1)
    /\ pending = None \/ pending \in [corr : Correlation, ordinal : 1 .. next - 1]
    /\ cursor \in 1 .. next

\* The log that a ring of any size stands for: what every query would answer if
\* nothing but the oldest decisions were ever dropped.
Retained == {o \in 1 .. Len(log) : o > Len(log) - Len(records)}
NewestSuch(Match(_)) ==
    LET hits == {o \in Retained : Match(log[o])}
    IN  IF log = <<>> THEN NotFound("empty")
        ELSE IF hits = {} THEN NotFound("evicted")
        ELSE LET o == CHOOSE x \in hits : \A y \in hits : y <= x
             IN  Found(Entry(o, log[o]))

\* Queries answer from the log of decisions, through growth, eviction and
\* changes of capacity in both directions: an ordinal names the same decision
\* as long as it is retained, one that was dropped is told from one not given
\* out yet, and explain finds the newest decision about an attempt (get, latest,
\* find_instance, find_attempt).
AnswersFromTheLog ==
    /\ \A o \in 0 .. MaxDecisions + 1 :
         Get(o) = IF log = <<>> THEN NotFound("empty")
                  ELSE IF o > Len(log) THEN NotFound("future")
                  ELSE IF o \in Retained THEN Found(Entry(o, log[o]))
                  ELSE NotFound("evicted")
    /\ \A n \in 1 .. MaxDecisions :
         Latest(n) = [k \in 1 .. Lesser(n, Cardinality(Retained)) |->
                        Entry(Len(log) - k + 1, log[Len(log) - k + 1])]
    /\ \A d \in Decision :
         LET SameInstance(x) == x.instance = d.instance
             SameAttempt(x) == x.instance.id = d.instance.id
                               /\ x.instance.attempt = d.instance.attempt
             SameId(x) == x.instance.id = d.instance.id
         IN  /\ FindInstance(d.instance) = NewestSuch(SameInstance)
             /\ d.instance.attempt # None =>
                  FindAttempt(d.instance.id, d.instance.attempt) = NewestSuch(SameAttempt)
             /\ FindAttempt(d.instance.id, None) = NewestSuch(SameId)

\* A correlation never leads to a decision it was not last bound to: asked
\* between a record and its binding, after evictions, after the index was
\* emptied, and after a stop gave the ordinals out anew, the answer is that
\* decision or that it is gone (bind_correlation, find_correlation, clear).
CorrelationNeverMisleads ==
    \A c \in Correlation :
        LET f == FindCorrelation(c)
        IN  /\ f.status \in {"ok", "evicted"}
            /\ f.status = "ok" => /\ bound[c] # 0
                                  /\ f.entry = Entry(bound[c], log[bound[c]])

\* A client that pages through the history while decisions are recorded,
\* evicted and the ring is resized sees every decision once, in order: it
\* misses only what was dropped before it asked (page).
PagingMissesNothing ==
    /\ seen \subseteq {Entry(o, log[o]) : o \in 1 .. Len(log)}
    /\ 1 .. cursor - 1 = {e.ordinal : e \in seen} \cup skipped
    /\ skipped \cap {e.ordinal : e \in seen} = {}
=============================================================================
