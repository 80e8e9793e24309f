--------------------------- MODULE InspectionProofs ---------------------------
(***************************************************************************)
(* Proofs about History and Inspection for every set of decisions,         *)
(* correlations and capacities, every page limit and every bound.          *)
(***************************************************************************)
EXTENDS Inspection, SequenceTheorems, FiniteSetTheorems, WellFoundedInduction, TLAPS

LogEntry == [ordinal : Nat, decision : Decision]

\* r holds what lg logged from ordinal f on: entry k carries ordinal f + k - 1 and
\* the decision logged under it.
PartOf(r, lg, f) == \A k \in 1 .. Len(r) : r[k] = Entry(f + k - 1, lg[f + k - 1])

\* The ring is the newest part of the log, and empty only when the log is.
RingOfTheLog ==
    /\ capacity \in Nat \ {0}
    /\ log \in Seq(Decision) /\ records \in Seq(LogEntry)
    /\ first \in Nat \ {0} /\ next = first + Len(records) /\ Len(log) = next - 1
    /\ Len(records) <= capacity
    /\ next > 1 => Len(records) >= 1
    /\ PartOf(records, log, first)

\* The index holds only what a correlation was last bound to, among the ordinals
\* given out.
IndexOfTheBindings ==
    /\ bound \in [Correlation -> Nat]
    /\ index \subseteq Correlation \X Nat
    /\ \A c \in Correlation, o \in Nat :
          <<c, o>> \in index => bound[c] = o /\ o >= 1 /\ o < next
    /\ pending = None \/ /\ pending \in [corr : Correlation, ordinal : Nat]
                         /\ pending.ordinal >= 1 /\ pending.ordinal < next

\* The paging client's cursor never runs ahead of the ordinals, and what it was
\* shown and what it missed split the ordinals behind the cursor.
ReaderBehindTheLog ==
    /\ cursor \in Nat /\ cursor >= 1 /\ cursor <= next
    /\ PagingMissesNothing

\* The inductive invariant behind the theorems.
IInv == RingOfTheLog /\ IndexOfTheBindings /\ ReaderBehindTheLog

-----------------------------------------------------------------------------
(* What the operators of the ring give.                                    *)

\* Dropping all but the n newest entries of a sequence keeps its tail.
LEMMA KeptIsTheTail ==
    ASSUME NEW S, NEW r \in Seq(S), NEW n \in Nat \ {0}
    PROVE  /\ Kept(r, n) \in Seq(S)
           /\ Len(Kept(r, n)) = Lesser(Len(r), n)
           /\ \A k \in 1 .. Len(Kept(r, n)) :
                 Kept(r, n)[k] = r[Len(r) - Len(Kept(r, n)) + k]
  <1> DEFINE m == Lesser(Len(r), n)
             lo == Len(r) - m + 1
  <1>1. Len(r) \in Nat /\ \A i \in 1 .. Len(r) : r[i] \in S
    OBVIOUS
  <1>2. m \in Nat /\ m <= Len(r) /\ m <= n
    BY <1>1 DEF Lesser
  <1>3. lo \in Int /\ lo >= 1 /\ Len(r) - lo + 1 = m
    BY <1>1, <1>2
  <1>4. Kept(r, n) = SubSeq(r, lo, Len(r))
    BY DEF Kept, Newest
  <1> HIDE DEF m, lo
  <1>5. \A i \in lo .. Len(r) : r[i] \in S
    BY <1>1, <1>3
  <1>6. /\ SubSeq(r, lo, Len(r)) \in Seq(S)
        /\ Len(SubSeq(r, lo, Len(r))) = IF lo <= Len(r) THEN Len(r) - lo + 1 ELSE 0
        /\ \A i \in 1 .. Len(r) - lo + 1 : SubSeq(r, lo, Len(r))[i] = r[lo + i - 1]
    BY <1>1, <1>3, <1>5, SubSeqProperties
  <1>7. Len(Kept(r, n)) = m
    BY <1>1, <1>2, <1>3, <1>4, <1>6
  <1>8. \A k \in 1 .. m : Kept(r, n)[k] = r[Len(r) - m + k]
    <2> SUFFICES ASSUME NEW k \in 1 .. m PROVE Kept(r, n)[k] = r[Len(r) - m + k]
      OBVIOUS
    <2>1. lo + k - 1 = Len(r) - m + k
      BY <1>1, <1>2, <1>3
    <2>2. QED
      BY <1>3, <1>4, <1>6, <2>1
  <1>9. QED
    BY <1>4, <1>6, <1>7, <1>8 DEF m

\* Dropping the oldest entries of a ring of the log, and moving the first
\* ordinal by their number, leaves a ring of the same log (record, set_capacity).
LEMMA KeptRing ==
    ASSUME NEW r \in Seq(LogEntry), NEW lg, NEW f \in Nat \ {0}, NEW n \in Nat \ {0},
           PartOf(r, lg, f), NEW g, g = f + Len(r) - Len(Kept(r, n))
    PROVE  /\ Kept(r, n) \in Seq(LogEntry)
           /\ g \in Nat \ {0} /\ g + Len(Kept(r, n)) = f + Len(r)
           /\ Len(Kept(r, n)) <= n
           /\ Len(r) >= 1 => Len(Kept(r, n)) >= 1
           /\ PartOf(Kept(r, n), lg, g)
  <1> DEFINE q == Kept(r, n)
  <1>1. /\ q \in Seq(LogEntry) /\ Len(q) = Lesser(Len(r), n)
        /\ \A k \in 1 .. Len(q) : q[k] = r[Len(r) - Len(q) + k]
    BY KeptIsTheTail
  <1> HIDE DEF q
  <1>2. Len(r) \in Nat /\ Len(q) \in Nat
    BY <1>1
  <1>3. Len(q) <= Len(r) /\ Len(q) <= n /\ (Len(r) >= 1 => Len(q) >= 1)
    BY <1>1, <1>2 DEF Lesser
  <1>4. g = f + Len(r) - Len(q)
    BY DEF q
  <1>5. g \in Nat \ {0} /\ g + Len(q) = f + Len(r)
    BY <1>2, <1>3, <1>4
  <1>6. ASSUME NEW k \in 1 .. Len(q)
        PROVE  q[k] = Entry(g + k - 1, lg[g + k - 1])
    <2>1. Len(r) - Len(q) + k \in 1 .. Len(r)
      BY <1>2, <1>3
    <2>2. f + (Len(r) - Len(q) + k) - 1 = g + k - 1
      BY <1>2, <1>4
    <2>3. q[k] = r[Len(r) - Len(q) + k]
      BY <1>1
    <2>4. r[Len(r) - Len(q) + k] = Entry(f + (Len(r) - Len(q) + k) - 1, lg[f + (Len(r) - Len(q) + k) - 1])
      BY <2>1 DEF PartOf
    <2>5. QED
      BY <2>2, <2>3, <2>4
  <1>7. QED
    BY <1>1, <1>3, <1>5, <1>6 DEF q, PartOf

-----------------------------------------------------------------------------
(* Every step preserves the ring.                                          *)

\* Recording a decision appends to log and ring and may drop the oldest entry.
LEMMA RecordKeepsRing ==
    ASSUME RingOfTheLog, NEW d \in Decision, NEW c, Record(d, c)
    PROVE  /\ RingOfTheLog'
           /\ next' = next + 1
           /\ \A o \in 1 .. Len(log) : log'[o] = log[o]
           /\ Len(log') = Len(log) + 1
  <1> DEFINE r == Append(records, Entry(next, d))
  <1>1. /\ records' = Kept(r, capacity) /\ first' = first + Len(r) - Len(Kept(r, capacity))
        /\ next' = next + 1 /\ log' = Append(log, d) /\ capacity' = capacity
    BY DEF Record, FirstAfter
  <1>2. /\ capacity \in Nat \ {0} /\ log \in Seq(Decision) /\ records \in Seq(LogEntry)
        /\ first \in Nat \ {0} /\ next = first + Len(records) /\ Len(log) = next - 1
    BY DEF RingOfTheLog
  <1>3. next \in Nat /\ Entry(next, d) \in LogEntry /\ Len(records) \in Nat
    BY <1>2 DEF Entry, LogEntry
  <1>4. /\ log' \in Seq(Decision) /\ Len(log') = Len(log) + 1
        /\ \A o \in 1 .. Len(log) : log'[o] = log[o]
        /\ log'[Len(log) + 1] = d
    BY <1>1, <1>2
  <1>5. /\ r \in Seq(LogEntry) /\ Len(r) = Len(records) + 1
        /\ \A k \in 1 .. Len(records) : r[k] = records[k]
        /\ r[Len(records) + 1] = Entry(next, d)
    BY <1>2, <1>3
  <1> HIDE DEF r
  <1>6. PartOf(r, log', first)
    <2> SUFFICES ASSUME NEW k \in 1 .. Len(r)
                 PROVE  r[k] = Entry(first + k - 1, log'[first + k - 1])
      BY DEF PartOf
    <2>1. CASE k \in 1 .. Len(records)
      <3>1. first + k - 1 \in 1 .. Len(log)
        BY <1>2, <1>3, <2>1
      <3>2. r[k] = Entry(first + k - 1, log[first + k - 1])
        BY <1>5, <2>1 DEF RingOfTheLog, PartOf
      <3>3. QED
        BY <1>4, <3>1, <3>2
    <2>2. CASE k = Len(records) + 1
      <3>1. first + k - 1 = next /\ next = Len(log) + 1
        BY <1>2, <1>3, <2>2
      <3>2. QED
        BY <1>4, <1>5, <2>2, <3>1
    <2>3. QED
      BY <1>3, <1>5, <2>1, <2>2
  <1>7. /\ records' \in Seq(LogEntry)
        /\ first' \in Nat \ {0} /\ first' + Len(records') = first + Len(r)
        /\ Len(records') <= capacity
        /\ Len(r) >= 1 => Len(records') >= 1
        /\ PartOf(records', log', first')
    <2>1. r \in Seq(LogEntry) /\ first \in Nat \ {0} /\ capacity \in Nat \ {0}
      BY <1>2, <1>5
    <2>2. first' = first + Len(r) - Len(Kept(r, capacity)) /\ records' = Kept(r, capacity)
      BY <1>1
    <2>3. QED
      BY <2>1, <2>2, <1>6, KeptRing
  <1>8. /\ next' = first' + Len(records') /\ Len(log') = next' - 1 /\ Len(records') >= 1
    <2>1. next' = first + (Len(records) + 1) /\ Len(log') = next' - 1
      BY <1>1, <1>2, <1>3, <1>4
    <2>2. Len(r) = Len(records) + 1 /\ Len(r) >= 1
      BY <1>3, <1>5
    <2>3. QED
      BY <2>1, <2>2, <1>7
  <1>9. RingOfTheLog'
    BY <1>1, <1>2, <1>4, <1>7, <1>8 DEF RingOfTheLog, PartOf
  <1>10. QED
    BY <1>1, <1>4, <1>9

\* A change of capacity drops what no longer fits and nothing when it grows.
LEMMA SetCapacityKeepsRing ==
    ASSUME RingOfTheLog, NEW n \in Nat, SetCapacity(n)
    PROVE  RingOfTheLog'
  <1>1. /\ capacity' = Greater(1, n) /\ records' = Kept(records, Greater(1, n))
        /\ first' = first + Len(records) - Len(Kept(records, Greater(1, n)))
        /\ next' = next /\ log' = log
    BY DEF SetCapacity, FirstAfter
  <1>2. Greater(1, n) \in Nat \ {0}
    BY DEF Greater
  <1>3. /\ records \in Seq(LogEntry) /\ log \in Seq(Decision) /\ first \in Nat \ {0}
        /\ next = first + Len(records) /\ Len(log) = next - 1
        /\ PartOf(records, log, first)
        /\ next > 1 => Len(records) >= 1
    BY DEF RingOfTheLog
  <1>4. /\ records' \in Seq(LogEntry)
        /\ first' \in Nat \ {0} /\ first' + Len(records') = first + Len(records)
        /\ Len(records') <= Greater(1, n)
        /\ Len(records) >= 1 => Len(records') >= 1
        /\ PartOf(records', log, first')
    BY <1>1, <1>2, <1>3, KeptRing
  <1>5. QED
    BY <1>1, <1>2, <1>3, <1>4 DEF RingOfTheLog, PartOf

\* A page is a part of the log that starts at the cursor, or at the oldest
\* decision retained when the cursor's is gone (DecisionHistory::page).
LEMMA PageOfTheLog ==
    ASSUME RingOfTheLog, NEW c \in Nat, c >= 1, Page(c, PageLimit) # <<>>
    PROVE  LET page == Page(c, PageLimit)
               lo == Greater(c, first)
           IN  /\ page \in Seq(LogEntry) /\ Len(page) >= 1
               /\ lo + Len(page) <= next
               /\ PartOf(page, log, lo)
  <1> DEFINE lo == Greater(c, first)
             start == lo - first + 1
             stop == Lesser(Len(records), start + PageLimit - 1)
  <1>1. /\ records \in Seq(LogEntry) /\ first \in Nat \ {0} /\ Len(records) \in Nat
        /\ next = first + Len(records)
    BY DEF RingOfTheLog
  <1>2. c < next /\ Page(c, PageLimit) = SubSeq(records, start, stop)
    <2>1. ~(records = <<>> \/ c >= next)
      BY DEF Page
    <2>2. Page(c, PageLimit) = SubSeq(records, start, stop)
      BY <2>1 DEF Page
    <2>3. QED
      BY <1>1, <2>1, <2>2
  <1>3. PageLimit \in Nat \ {0}
    BY InspectionAssumption
  <1>4. lo \in Nat /\ lo >= c /\ lo >= first /\ (lo = c \/ lo = first)
    BY <1>1 DEF Greater
  <1>5. start \in Nat /\ start >= 1 /\ start <= Len(records) + 1
    BY <1>1, <1>2, <1>4
  <1>6. stop \in Int /\ stop <= Len(records) /\ stop <= start + PageLimit - 1
    BY <1>1, <1>3, <1>5 DEF Lesser
  <1> DEFINE page == SubSeq(records, start, stop)
  <1>7. \A i \in start .. stop : records[i] \in LogEntry
    BY <1>1, <1>5, <1>6
  <1> HIDE DEF lo, stop, start
  <1>8. /\ page \in Seq(LogEntry)
        /\ Len(page) = IF start <= stop THEN stop - start + 1 ELSE 0
        /\ \A i \in 1 .. stop - start + 1 : page[i] = records[start + i - 1]
    BY <1>5, <1>6, <1>7, SubSeqProperties
  <1> HIDE DEF page
  <1>9. page # <<>>
    BY <1>2 DEF page
  <1>10. Len(page) >= 1
    BY <1>8, <1>9
  <1>11. start <= stop /\ Len(page) = stop - start + 1
    BY <1>5, <1>6, <1>8, <1>10
  <1>12. lo + Len(page) <= next
    BY <1>1, <1>4, <1>5, <1>6, <1>11 DEF start
  <1>13. PartOf(page, log, lo)
    <2> SUFFICES ASSUME NEW k \in 1 .. Len(page)
                 PROVE  page[k] = Entry(lo + k - 1, log[lo + k - 1])
      BY DEF PartOf
    <2>1. page[k] = records[start + k - 1]
      BY <1>8, <1>11
    <2>2. start + k - 1 \in 1 .. Len(records)
      BY <1>1, <1>5, <1>6, <1>11
    <2>3. records[start + k - 1] = Entry(first + (start + k - 1) - 1, log[first + (start + k - 1) - 1])
      BY <2>2 DEF RingOfTheLog, PartOf
    <2>4. first + (start + k - 1) - 1 = lo + k - 1
      BY <1>1, <1>4 DEF start
    <2>5. QED
      BY <2>1, <2>3, <2>4
  <1>14. QED
    BY <1>2, <1>8, <1>10, <1>12, <1>13 DEF page, lo, start, stop

\* Reading a page moves the cursor over the entries shown and over those that
\* were dropped before it asked, and over nothing else.
LEMMA ReadPageKeepsReader ==
    ASSUME RingOfTheLog, ReaderBehindTheLog, ReadPage
    PROVE  ReaderBehindTheLog'
  <1> DEFINE page == Page(cursor, PageLimit)
             lo == Greater(cursor, first)
             shown == {page[k] : k \in DOMAIN page}
             top == lo + Len(page) - 1
  <1>1. /\ page # <<>> /\ seen' = seen \cup shown /\ cursor' = page[Len(page)].ordinal + 1
        /\ skipped' = skipped \cup (cursor .. first - 1)
        /\ log' = log /\ next' = next
    BY DEF ReadPage, history
  <1>2. cursor \in Nat /\ cursor >= 1 /\ cursor <= next /\ PagingMissesNothing
    BY DEF ReaderBehindTheLog
  <1>3. /\ page \in Seq(LogEntry) /\ Len(page) >= 1 /\ lo + Len(page) <= next
        /\ PartOf(page, log, lo)
    BY <1>1, <1>2, PageOfTheLog
  <1>4. first \in Nat \ {0} /\ next \in Nat /\ Len(log) = next - 1
    BY DEF RingOfTheLog
  <1>5. /\ lo \in Nat /\ lo >= cursor /\ lo >= first
        /\ lo > cursor => lo = first
    BY <1>2, <1>4 DEF Greater
  <1> HIDE DEF page, lo
  <1>6. top \in Nat /\ top >= lo /\ top < next /\ Len(page) = top - lo + 1 /\ DOMAIN page = 1 .. Len(page)
    BY <1>3, <1>4, <1>5
  <1> HIDE DEF top
  <1>7. \A k \in 1 .. Len(page) : page[k] = Entry(lo + k - 1, log[lo + k - 1])
    BY <1>3 DEF PartOf
  <1>8. \A e : e \in shown <=> \E o \in lo .. top : e = Entry(o, log[o])
    <2>1. ASSUME NEW e \in shown PROVE \E o \in lo .. top : e = Entry(o, log[o])
      <3>1. PICK k \in 1 .. Len(page) : e = page[k]
        BY <1>6
      <3>2. lo + k - 1 \in lo .. top
        BY <1>5, <1>6
      <3>3. QED
        BY <1>7, <3>1, <3>2
    <2>2. ASSUME NEW o \in lo .. top PROVE Entry(o, log[o]) \in shown
      <3>1. o - lo + 1 \in 1 .. Len(page) /\ lo + (o - lo + 1) - 1 = o
        BY <1>5, <1>6
      <3>2. page[o - lo + 1] = Entry(o, log[o])
        BY <1>7, <3>1
      <3>3. QED
        BY <1>6, <3>1, <3>2
    <2>3. QED
      BY <2>1, <2>2
  <1>9. \A o : Entry(o, log[o]).ordinal = o
    BY DEF Entry
  <1>10. cursor' = top + 1
    <2>1. Len(page) \in 1 .. Len(page) /\ lo + Len(page) - 1 = top
      BY <1>3, <1>5, <1>6
    <2>2. page[Len(page)] = Entry(top, log[top])
      BY <1>7, <2>1
    <2>3. QED
      BY <1>1, <1>9, <2>2
  <1> HIDE DEF shown
  <1>11. \A n : n \in {e.ordinal : e \in shown} <=> n \in lo .. top
    BY <1>8, <1>9
  <1>12. seen' \subseteq {Entry(o, log'[o]) : o \in 1 .. Len(log')}
    <2>1. lo .. top \subseteq 1 .. Len(log)
      BY <1>2, <1>4, <1>5, <1>6
    <2>2. QED
      BY <1>1, <1>2, <1>8, <2>1 DEF PagingMissesNothing
  <1>13. {e.ordinal : e \in seen'} = {e.ordinal : e \in seen} \cup (lo .. top)
    BY <1>1, <1>11
  <1>14. 1 .. cursor' - 1 = {e.ordinal : e \in seen'} \cup skipped'
    <2>1. 1 .. cursor - 1 = {e.ordinal : e \in seen} \cup skipped
      BY <1>2 DEF PagingMissesNothing
    <2>2. 1 .. top = (1 .. cursor - 1) \cup (cursor .. first - 1) \cup (lo .. top)
      BY <1>2, <1>4, <1>5, <1>6
    <2>3. cursor' - 1 = top
      BY <1>6, <1>10
    <2>4. QED
      BY <1>1, <1>13, <2>1, <2>2, <2>3
  <1>15. skipped' \cap {e.ordinal : e \in seen'} = {}
    <2>1. skipped \cap {e.ordinal : e \in seen} = {}
      BY <1>2 DEF PagingMissesNothing
    <2>2. 1 .. cursor - 1 = {e.ordinal : e \in seen} \cup skipped
      BY <1>2 DEF PagingMissesNothing
    <2>3. (1 .. cursor - 1) \cap (lo .. top) = {} /\ (cursor .. first - 1) \cap (lo .. top) = {}
      BY <1>2, <1>4, <1>5, <1>6
    <2>4. (cursor .. first - 1) \cap (1 .. cursor - 1) = {}
      BY <1>2, <1>4
    <2>5. QED
      BY <1>1, <1>13, <2>1, <2>2, <2>3, <2>4
  <1>16. cursor' \in Nat /\ cursor' >= 1 /\ cursor' <= next'
    BY <1>1, <1>4, <1>6, <1>10
  <1>17. QED
    BY <1>12, <1>14, <1>15, <1>16 DEF ReaderBehindTheLog, PagingMissesNothing

\* A longer log with the same beginning leaves the client's account right.
LEMMA ReaderUntouched ==
    ASSUME ReaderBehindTheLog, UNCHANGED reader, next \in Nat, next' \in Nat, next' >= next,
           Len(log) \in Nat, Len(log') \in Nat, Len(log') >= Len(log),
           \A o \in 1 .. Len(log) : log'[o] = log[o]
    PROVE  ReaderBehindTheLog'
  <1>1. cursor' = cursor /\ seen' = seen /\ skipped' = skipped
    BY DEF reader
  <1>2. seen' \subseteq {Entry(o, log'[o]) : o \in 1 .. Len(log')}
    <2>1. seen \subseteq {Entry(o, log[o]) : o \in 1 .. Len(log)}
      BY DEF ReaderBehindTheLog, PagingMissesNothing
    <2>2. \A o \in 1 .. Len(log) : o \in 1 .. Len(log') /\ log'[o] = log[o]
      OBVIOUS
    <2>3. QED
      BY <1>1, <2>1, <2>2
  <1>3. QED
    BY <1>1, <1>2 DEF ReaderBehindTheLog, PagingMissesNothing

\* Binding a correlation: emptied or not, the index gets the new ordinal and
\* loses the correlation's old one.
LEMMA BindKeepsIndex ==
    ASSUME IndexOfTheBindings, BindCorrelation
    PROVE  IndexOfTheBindings'
  <1>1. /\ pending \in [corr : Correlation, ordinal : Nat]
        /\ pending.ordinal >= 1 /\ pending.ordinal < next
    BY DEF BindCorrelation, IndexOfTheBindings
  <1>2. /\ index' = Rebound(pending.corr, pending.ordinal)
        /\ bound' = [bound EXCEPT ![pending.corr] = pending.ordinal]
        /\ pending' = None /\ next' = next
    BY DEF BindCorrelation
  <1>3. PICK left : left \subseteq index
                    /\ index' = {x \in left : x[1] # pending.corr}
                                  \cup {<<pending.corr, pending.ordinal>>}
    BY <1>2 DEF Rebound
  <1>4. bound \in [Correlation -> Nat] /\ index \subseteq Correlation \X Nat
    BY DEF IndexOfTheBindings
  <1>5. \A c \in Correlation, o \in Nat :
           <<c, o>> \in index' => \/ c = pending.corr /\ o = pending.ordinal
                                  \/ <<c, o>> \in index /\ c # pending.corr
    BY <1>3
  <1>6. \A c \in Correlation, o \in Nat :
           <<c, o>> \in index' => bound'[c] = o /\ o >= 1 /\ o < next'
    BY <1>1, <1>2, <1>4, <1>5 DEF IndexOfTheBindings
  <1>7. bound' \in [Correlation -> Nat] /\ index' \subseteq Correlation \X Nat
    BY <1>1, <1>2, <1>3, <1>4
  <1>8. QED
    BY <1>2, <1>6, <1>7 DEF IndexOfTheBindings

\* The invariant holds of an empty history.
LEMMA InitInv == Init => IInv
  <1> SUFFICES ASSUME Init PROVE IInv
    OBVIOUS
  <1>1. /\ capacity \in {Greater(1, n) : n \in Capacities}
        /\ records = <<>> /\ first = 1 /\ next = 1 /\ index = {} /\ pending = None
        /\ log = <<>> /\ bound = [c \in Correlation |-> 0]
        /\ cursor = 1 /\ seen = {} /\ skipped = {}
    BY DEF Init, HistoryInit
  <1>2. capacity \in Nat \ {0}
    BY <1>1, HistoryAssumption DEF Greater
  <1>3. RingOfTheLog
    BY <1>1, <1>2 DEF RingOfTheLog, PartOf
  <1>4. IndexOfTheBindings
    BY <1>1 DEF IndexOfTheBindings
  <1>5. ReaderBehindTheLog
    BY <1>1 DEF ReaderBehindTheLog, PagingMissesNothing
  <1>6. QED
    BY <1>3, <1>4, <1>5 DEF IInv

\* Every step preserves the invariant, action by action.
LEMMA NextInv == IInv /\ [Next]_vars => IInv'
  <1> SUFFICES ASSUME IInv, [Next]_vars PROVE IInv'
    OBVIOUS
  <1>1. RingOfTheLog /\ IndexOfTheBindings /\ ReaderBehindTheLog
    BY DEF IInv
  <1>2. next \in Nat /\ next >= 1 /\ Len(log) \in Nat /\ Len(log) = next - 1
    BY <1>1 DEF RingOfTheLog
  <1>3. ASSUME NEW d \in Decision, NEW c \in Correlation \cup {None}, Record(d, c),
               UNCHANGED reader
        PROVE  IInv'
    <2>1. /\ RingOfTheLog' /\ next' = next + 1 /\ Len(log') = Len(log) + 1
          /\ \A o \in 1 .. Len(log) : log'[o] = log[o]
      BY <1>1, <1>3, RecordKeepsRing
    <2>2. ReaderBehindTheLog'
      BY <1>1, <1>2, <1>3, <2>1, ReaderUntouched
    <2>3. /\ pending' = None \/ (pending' = [corr |-> c, ordinal |-> next] /\ c \in Correlation)
          /\ index' = index /\ bound' = bound
      BY <1>3 DEF Record
    <2>4. pending' = None \/ /\ pending' \in [corr : Correlation, ordinal : Nat]
                             /\ pending'.ordinal >= 1 /\ pending'.ordinal < next'
      <3>1. CASE pending' = [corr |-> c, ordinal |-> next] /\ c \in Correlation
        <4>1. pending' \in [corr : Correlation, ordinal : Nat] /\ pending'.ordinal = next
          BY <1>2, <3>1
        <4>2. QED
          BY <1>2, <2>1, <4>1
      <3>2. QED
        BY <2>3, <3>1
    <2>5. IndexOfTheBindings'
      BY <1>1, <1>2, <2>1, <2>3, <2>4 DEF IndexOfTheBindings
    <2>6. QED
      BY <2>1, <2>2, <2>5 DEF IInv
  <1>4. CASE BindCorrelation /\ UNCHANGED reader
    <2>1. /\ capacity' = capacity /\ records' = records /\ first' = first
          /\ next' = next /\ log' = log
      BY <1>4 DEF BindCorrelation
    <2>2. RingOfTheLog'
      BY <1>1, <2>1 DEF RingOfTheLog, PartOf
    <2>3. IndexOfTheBindings'
      BY <1>1, <1>4, BindKeepsIndex
    <2>4. ReaderBehindTheLog'
      BY <1>1, <1>2, <1>4, <2>1, ReaderUntouched
    <2>5. QED
      BY <2>2, <2>3, <2>4 DEF IInv
  <1>5. ASSUME NEW n \in Capacities, SetCapacity(n), UNCHANGED reader
        PROVE  IInv'
    <2>1. /\ next' = next /\ log' = log /\ index' = index /\ pending' = pending
          /\ bound' = bound
      BY <1>5 DEF SetCapacity
    <2>2. RingOfTheLog'
      BY <1>1, <1>5, SetCapacityKeepsRing, HistoryAssumption
    <2>3. IndexOfTheBindings'
      BY <1>1, <2>1 DEF IndexOfTheBindings
    <2>4. ReaderBehindTheLog'
      BY <1>1, <1>2, <1>5, <2>1, ReaderUntouched
    <2>5. QED
      BY <2>2, <2>3, <2>4 DEF IInv
  <1>6. CASE ReadPage
    <2>1. UNCHANGED history
      BY <1>6 DEF ReadPage
    <2>2. RingOfTheLog'
      BY <1>1, <2>1 DEF RingOfTheLog, PartOf, history
    <2>3. IndexOfTheBindings'
      BY <1>1, <2>1 DEF IndexOfTheBindings, history
    <2>4. ReaderBehindTheLog'
      BY <1>1, <1>6, ReadPageKeepsReader
    <2>5. QED
      BY <2>2, <2>3, <2>4 DEF IInv
  <1>7. CASE Stop
    <2>1. /\ capacity' = capacity /\ records' = <<>> /\ first' = 1 /\ next' = 1
          /\ index' = {} /\ pending' = pending /\ pending = None
          /\ log' = <<>> /\ bound' = [c \in Correlation |-> 0]
          /\ cursor' = 1 /\ seen' = {} /\ skipped' = {}
      BY <1>7 DEF Stop, Clear
    <2>2. RingOfTheLog'
      BY <1>1, <2>1 DEF RingOfTheLog, PartOf
    <2>3. IndexOfTheBindings'
      BY <2>1 DEF IndexOfTheBindings
    <2>4. ReaderBehindTheLog'
      BY <2>1 DEF ReaderBehindTheLog, PagingMissesNothing
    <2>5. QED
      BY <2>2, <2>3, <2>4 DEF IInv
  <1>8. CASE UNCHANGED vars
    <2>1. UNCHANGED history /\ UNCHANGED reader
      BY <1>8 DEF vars
    <2>2. RingOfTheLog'
      BY <1>1, <2>1 DEF RingOfTheLog, PartOf, history
    <2>3. IndexOfTheBindings'
      BY <1>1, <2>1 DEF IndexOfTheBindings, history
    <2>4. ReaderBehindTheLog'
      BY <1>1, <2>1 DEF ReaderBehindTheLog, PagingMissesNothing, history, reader
    <2>5. QED
      BY <2>2, <2>3, <2>4 DEF IInv
  <1>9. QED
    BY <1>3, <1>4, <1>5, <1>6, <1>7, <1>8 DEF Next

\* The inductive invariant holds in every reachable state.
THEOREM Invariance == Spec => []IInv
  BY InitInv, NextInv, PTL DEF Spec

\* The ring stays within its capacity, its ordinals lie between the two counters,
\* and neither the index nor the client points beyond them.
THEOREM TypeCorrect == Spec => []HistoryTypeOK
  <1>1. ASSUME IInv
        PROVE  HistoryTypeOK
    <2>1. RingOfTheLog /\ IndexOfTheBindings /\ ReaderBehindTheLog
      BY <1>1 DEF IInv
    <2>2. next \in Nat /\ first \in Nat \ {0}
      BY <2>1 DEF RingOfTheLog
    <2>3. index \subseteq Correlation \X (1 .. next - 1)
      <3>1. \A c \in Correlation, o \in Nat : <<c, o>> \in index => o \in 1 .. next - 1
        BY <2>1, <2>2 DEF IndexOfTheBindings
      <3>2. index \subseteq Correlation \X Nat
        BY <2>1 DEF IndexOfTheBindings
      <3>3. QED
        BY <3>1, <3>2
    <2>4. pending = None \/ pending \in [corr : Correlation, ordinal : 1 .. next - 1]
      BY <2>1, <2>2 DEF IndexOfTheBindings
    <2>5. cursor \in 1 .. next
      BY <2>1, <2>2 DEF ReaderBehindTheLog
    <2>6. QED
      BY <2>1, <2>2, <2>3, <2>4, <2>5 DEF HistoryTypeOK, RingOfTheLog
  <1>2. QED
    BY <1>1, Invariance, PTL

\* A paging client sees every decision once and in order, and misses only what
\* was dropped before it asked, whatever is recorded, evicted or resized between
\* its pages.
THEOREM PagingIsComplete == Spec => []PagingMissesNothing
  <1>1. IInv => PagingMissesNothing
    BY DEF IInv, ReaderBehindTheLog
  <1>2. QED
    BY <1>1, Invariance, PTL

-----------------------------------------------------------------------------
(* What the queries answer.                                                *)

\* An ordinal within the ring leads to the decision logged under it.
LEMMA AtIsTheLogged ==
    ASSUME RingOfTheLog, NEW o \in Nat, o >= first, o < next
    PROVE  At(o) = Found(Entry(o, log[o]))
  <1>1. first \in Nat /\ Len(records) \in Nat /\ next = first + Len(records)
    BY DEF RingOfTheLog
  <1>2. o - first + 1 \in 1 .. Len(records) /\ first + (o - first + 1) - 1 = o
    BY <1>1
  <1>3. records[o - first + 1] = Entry(o, log[o])
    BY <1>2 DEF RingOfTheLog, PartOf
  <1>4. QED
    BY <1>3 DEF At

\* A correlation leads to the decision it was last bound to or to nothing, in
\* every interleaving of record, bind_correlation, evictions, a full index and
\* stops that give the ordinals out anew.
THEOREM CorrelationIsTruthful == Spec => []CorrelationNeverMisleads
  <1>1. ASSUME IInv
        PROVE  CorrelationNeverMisleads
    <2> SUFFICES ASSUME NEW c \in Correlation
                 PROVE  /\ FindCorrelation(c).status \in {"ok", "evicted"}
                        /\ FindCorrelation(c).status = "ok" =>
                              /\ bound[c] # 0
                              /\ FindCorrelation(c).entry = Entry(bound[c], log[bound[c]])
      BY DEF CorrelationNeverMisleads
    <2> DEFINE hits == {x \in index : x[1] = c}
               o == (CHOOSE x \in hits : TRUE)[2]
    <2>1. RingOfTheLog /\ IndexOfTheBindings
      BY <1>1 DEF IInv
    <2>2. NotFound("evicted").status = "evicted"
      BY DEF NotFound
    <2>3. CASE hits = {}
      <3>1. FindCorrelation(c) = NotFound("evicted")
        BY <2>3 DEF FindCorrelation
      <3>2. QED
        BY <2>2, <3>1
    <2>4. CASE hits # {}
      <3>1. (CHOOSE x \in hits : TRUE) \in hits
        BY <2>4
      <3>2. <<c, o>> \in index /\ o \in Nat
        <4>1. PICK x \in index : x[1] = c /\ x = (CHOOSE y \in hits : TRUE)
          BY <3>1
        <4>2. \E p \in Correlation, n \in Nat : x = <<p, n>>
          BY <2>1, <4>1 DEF IndexOfTheBindings
        <4>3. PICK p \in Correlation, n \in Nat : x = <<p, n>>
          BY <4>2
        <4>4. x[1] = p /\ x[2] = n /\ p = c
          BY <4>1, <4>3
        <4>5. o = n
          BY <4>1, <4>4
        <4>6. QED
          BY <4>1, <4>3, <4>4, <4>5
      <3> HIDE DEF o
      <3>3. bound[c] = o /\ o >= 1 /\ o < next
        BY <2>1, <3>2 DEF IndexOfTheBindings
      <3>4. first \in Nat /\ next \in Nat
        BY <2>1 DEF RingOfTheLog
      <3>5. FindCorrelation(c) = IF o >= next THEN NotFound("future")
                                 ELSE IF o < first THEN NotFound("evicted")
                                 ELSE At(o)
        BY <2>4 DEF FindCorrelation, o
      <3>6. ~(o >= next)
        BY <3>2, <3>3, <3>4
      <3>7. CASE o < first
        <4>1. FindCorrelation(c) = NotFound("evicted")
          BY <3>5, <3>6, <3>7
        <4>2. QED
          BY <2>2, <4>1
      <3>8. CASE ~(o < first)
        <4>1. At(o) = Found(Entry(o, log[o]))
          BY <2>1, <3>2, <3>3, <3>4, <3>8, AtIsTheLogged
        <4>2. FindCorrelation(c) = Found(Entry(o, log[o]))
          BY <3>5, <3>6, <3>8, <4>1
        <4>3. /\ FindCorrelation(c).status = "ok"
              /\ FindCorrelation(c).entry = Entry(o, log[o])
          BY <4>2 DEF Found
        <4>4. QED
          BY <3>2, <3>3, <4>3
      <3>9. QED
        BY <3>7, <3>8
    <2>5. QED
      BY <2>3, <2>4
  <1>2. QED
    BY <1>1, Invariance, PTL

\* A nonempty set of positions of a ring has a newest one.
LEMMA NewestPosition ==
    ASSUME NEW n \in Nat, NEW T, T \subseteq 1 .. n, T # {}
    PROVE  \E x \in T : \A y \in T : y <= x
  <1> DEFINE D == {n - k : k \in T}
             R == OpToRel(<, Nat)
  <1>1. \A a, b \in Nat : <<a, b>> \in R <=> a < b
    BY Zenon DEF OpToRel
  <1> HIDE DEF R
  <1>2. D \subseteq Nat /\ D # {}
    <2>1. \A k \in T : n - k \in Nat
      OBVIOUS
    <2>2. PICK k \in T : TRUE
      OBVIOUS
    <2>3. n - k \in D
      BY <2>2
    <2>4. QED
      BY <2>1, <2>3
  <1>3. IsWellFoundedOn(R, Nat)
    BY NatLessThanWellFounded DEF R
  <1> HIDE DEF D
  <1>4. PICK d \in D : \A e \in D : ~(<<e, d>> \in R)
    BY <1>2, <1>3, WFMin
  <1>5. \A e \in D : ~(e < d)
    BY <1>2, <1>1, <1>4
  <1>6. PICK x \in T : d = n - x
    BY DEF D
  <1>7. ASSUME NEW y \in T PROVE y <= x
    <2>1. n - y \in D
      BY DEF D
    <2>2. ~(n - y < n - x)
      BY <1>5, <1>6, <2>1
    <2>3. QED
      BY <2>2
  <1>8. QED
    BY <1>7

\* The decisions retained are those from the first ordinal on, as many as the
\* ring has entries.
LEMMA RetainedIsTheRing ==
    ASSUME RingOfTheLog
    PROVE  /\ \A o : o \in Retained <=> o \in Nat /\ o >= first /\ o < next
           /\ Cardinality(Retained) = Len(records)
  <1>1. /\ first \in Nat \ {0} /\ Len(records) \in Nat /\ next = first + Len(records)
        /\ Len(log) = next - 1 /\ Len(log) \in Nat
    BY DEF RingOfTheLog
  <1>2. \A o : o \in Retained <=> o \in Nat /\ o >= first /\ o < next
    BY <1>1 DEF Retained
  <1>3. Retained = first .. next - 1
    <2>1. \A o : o \in first .. next - 1 <=> o \in Nat /\ o >= first /\ o < next
      BY <1>1
    <2>2. QED
      BY <1>2, <2>1
  <1>4. Cardinality(first .. next - 1) = IF first > next - 1 THEN 0 ELSE (next - 1) - first + 1
    <2>1. first \in Int /\ next - 1 \in Int
      BY <1>1
    <2>2. QED
      BY <2>1, FS_Interval
  <1>5. QED
    BY <1>1, <1>2, <1>3, <1>4

\* Searching the ring from its end and searching the retained part of the log
\* from its end find the same decision.
LEMMA NewestOfTheRing ==
    ASSUME RingOfTheLog, NEW hits, hits \subseteq 1 .. Len(records), hits # {},
           NEW H, H \subseteq Retained, \A o \in Retained : o \in H <=> o - first + 1 \in hits
    PROVE  /\ H # {}
           /\ records[CHOOSE k \in hits : \A j \in hits : j <= k]
                = Entry(CHOOSE x \in H : \A y \in H : y <= x,
                        log[CHOOSE x \in H : \A y \in H : y <= x])
  <1>1. /\ first \in Nat \ {0} /\ Len(records) \in Nat /\ next = first + Len(records)
    BY DEF RingOfTheLog
  <1>2. \A o : o \in Retained <=> o \in Nat /\ o >= first /\ o < next
    BY RetainedIsTheRing
  <1>3. \A k \in hits : k \in Nat /\ k >= 1 /\ k <= Len(records) /\ first + k - 1 \in H
    <2> SUFFICES ASSUME NEW k \in hits
                 PROVE  k \in Nat /\ k >= 1 /\ k <= Len(records) /\ first + k - 1 \in H
      OBVIOUS
    <2>1. k \in Nat /\ k >= 1 /\ k <= Len(records)
      BY <1>1
    <2>2. first + k - 1 \in Retained /\ (first + k - 1) - first + 1 = k
      BY <1>1, <1>2, <2>1
    <2>3. QED
      BY <2>1, <2>2
  <1>4. \A o \in H : o \in Nat /\ o >= first /\ o < next /\ o - first + 1 \in hits
    BY <1>2
  <1> DEFINE Last(k) == \A j \in hits : j <= k
             LastH(x) == \A y \in H : y <= x
  <1>5. PICK m \in hits : Last(m)
    BY <1>1, NewestPosition
  <1>6. \A k \in hits : Last(k) => k = m
    BY <1>3, <1>5
  <1>7. first + m - 1 \in H /\ LastH(first + m - 1)
    <2>1. ASSUME NEW y \in H PROVE y <= first + m - 1
      <3>1. y \in Nat /\ y - first + 1 \in hits
        BY <1>4
      <3>2. y - first + 1 <= m /\ m \in Nat
        BY <1>3, <1>5, <3>1
      <3>3. QED
        BY <1>1, <3>1, <3>2
    <2>2. QED
      BY <1>3, <2>1
  <1>8. \A x \in H : LastH(x) => x = first + m - 1
    <2> SUFFICES ASSUME NEW x \in H, LastH(x) PROVE x = first + m - 1
      OBVIOUS
    <2>1. first + m - 1 <= x /\ x <= first + m - 1
      BY <1>7
    <2>2. x \in Nat /\ first + m - 1 \in Nat
      BY <1>4, <1>7
    <2>3. QED
      BY <2>1, <2>2
  <1>9. (CHOOSE k \in hits : Last(k)) = m
    <2> HIDE DEF Last
    <2> QED BY <1>5, <1>6
  <1>10. (CHOOSE x \in H : LastH(x)) = first + m - 1
    <2> HIDE DEF LastH
    <2> QED BY <1>7, <1>8
  <1>11. records[m] = Entry(first + m - 1, log[first + m - 1])
    BY DEF RingOfTheLog, PartOf
  <1>12. QED
    BY <1>7, <1>9, <1>10, <1>11

\* The ring is empty exactly when nothing was decided since the last clear.
LEMMA EmptyTogether ==
    ASSUME RingOfTheLog
    PROVE  log = <<>> <=> records = <<>>
  <1>1. /\ first \in Nat \ {0} /\ Len(records) \in Nat /\ next = first + Len(records)
        /\ Len(log) = next - 1 /\ (next > 1 => Len(records) >= 1)
        /\ log \in Seq(Decision) /\ records \in Seq(LogEntry)
    BY DEF RingOfTheLog
  <1>2. log = <<>> <=> Len(log) = 0
    BY <1>1
  <1>3. records = <<>> <=> Len(records) = 0
    BY <1>1
  <1>4. Len(log) = 0 <=> Len(records) = 0
    BY <1>1
  <1>5. QED
    BY <1>2, <1>3, <1>4

\* get: an ordinal names the decision logged under it while that is retained,
\* and one that was dropped is told from one not given out yet.
LEMMA GetAnswers ==
    ASSUME RingOfTheLog, NEW o \in Nat
    PROVE  Get(o) = IF log = <<>> THEN NotFound("empty")
                    ELSE IF o > Len(log) THEN NotFound("future")
                    ELSE IF o \in Retained THEN Found(Entry(o, log[o]))
                    ELSE NotFound("evicted")
  <1>1. /\ first \in Nat \ {0} /\ Len(records) \in Nat /\ next = first + Len(records)
        /\ Len(log) = next - 1
    BY DEF RingOfTheLog
  <1>2. log = <<>> <=> records = <<>>
    BY EmptyTogether
  <1>3. \A x : x \in Retained <=> x \in Nat /\ x >= first /\ x < next
    BY RetainedIsTheRing
  <1>4. CASE log = <<>>
    BY <1>2, <1>4 DEF Get
  <1>5. CASE log # <<>> /\ o >= next
    <2>1. o > Len(log)
      BY <1>1, <1>5
    <2>2. QED
      BY <1>2, <1>5, <2>1 DEF Get
  <1>6. CASE log # <<>> /\ o < first
    <2>1. ~(o > Len(log)) /\ ~(o >= next) /\ o \notin Retained
      BY <1>1, <1>3, <1>6
    <2>2. QED
      BY <1>2, <1>6, <2>1 DEF Get
  <1>7. CASE log # <<>> /\ o >= first /\ o < next
    <2>1. ~(o > Len(log)) /\ ~(o >= next) /\ ~(o < first) /\ o \in Retained
      BY <1>1, <1>3, <1>7
    <2>2. At(o) = Found(Entry(o, log[o]))
      BY <1>7, AtIsTheLogged
    <2>3. QED
      BY <1>2, <1>7, <2>1, <2>2 DEF Get
  <1>8. QED
    BY <1>1, <1>4, <1>5, <1>6, <1>7

\* latest: the newest decisions of the log, newest first.
LEMMA LatestAnswers ==
    ASSUME RingOfTheLog, NEW n \in Nat
    PROVE  Latest(n) = [k \in 1 .. Lesser(n, Cardinality(Retained)) |->
                          Entry(Len(log) - k + 1, log[Len(log) - k + 1])]
  <1>1. /\ first \in Nat \ {0} /\ Len(records) \in Nat /\ next = first + Len(records)
        /\ Len(log) = next - 1
    BY DEF RingOfTheLog
  <1>2. Cardinality(Retained) = Len(records)
    BY RetainedIsTheRing
  <1>3. Lesser(n, Len(records)) \in Nat /\ Lesser(n, Len(records)) <= Len(records)
    BY <1>1 DEF Lesser
  <1>4. ASSUME NEW k \in 1 .. Lesser(n, Len(records))
        PROVE  records[Len(records) - k + 1] = Entry(Len(log) - k + 1, log[Len(log) - k + 1])
    <2>1. Len(records) - k + 1 \in 1 .. Len(records)
      BY <1>1, <1>3
    <2>2. first + (Len(records) - k + 1) - 1 = Len(log) - k + 1
      BY <1>1, <1>3
    <2>3. records[Len(records) - k + 1]
            = Entry(first + (Len(records) - k + 1) - 1, log[first + (Len(records) - k + 1) - 1])
      BY <2>1 DEF RingOfTheLog, PartOf
    <2>4. QED
      BY <2>2, <2>3
  <1>5. QED
    BY <1>2, <1>4 DEF Latest

\* The answer of a walk over the ring that matches at the positions in hits, and
\* of one over the retained log that matches at the ordinals in H.
RingAnswer(hits) ==
    IF records = <<>> THEN NotFound("empty")
    ELSE IF hits = {} THEN NotFound("evicted")
    ELSE Found(records[CHOOSE k \in hits : \A j \in hits : j <= k])
LogAnswer(H) ==
    IF log = <<>> THEN NotFound("empty")
    ELSE IF H = {} THEN NotFound("evicted")
    ELSE Found(Entry(CHOOSE x \in H : \A y \in H : y <= x,
                     log[CHOOSE x \in H : \A y \in H : y <= x]))

\* The two answers agree when the two walks match the same decisions.
LEMMA WalksAgree ==
    ASSUME RingOfTheLog, NEW hits, hits \subseteq 1 .. Len(records), NEW H, H \subseteq Retained,
           \A o \in Retained : o \in H <=> o - first + 1 \in hits
    PROVE  RingAnswer(hits) = LogAnswer(H)
  <1>1. log = <<>> <=> records = <<>>
    BY EmptyTogether
  <1>2. CASE records = <<>>
    BY <1>1, <1>2 DEF RingAnswer, LogAnswer
  <1>3. CASE records # <<>> /\ hits = {}
    <2>1. H = {}
      BY <1>3
    <2>2. QED
      BY <1>1, <1>3, <2>1 DEF RingAnswer, LogAnswer
  <1>4. CASE records # <<>> /\ hits # {}
    <2>1. /\ H # {}
          /\ records[CHOOSE k \in hits : \A j \in hits : j <= k]
                = Entry(CHOOSE x \in H : \A y \in H : y <= x,
                        log[CHOOSE x \in H : \A y \in H : y <= x])
      BY <1>4, NewestOfTheRing
    <2>2. RingAnswer(hits) = Found(records[CHOOSE k \in hits : \A j \in hits : j <= k])
      BY <1>4 DEF RingAnswer
    <2>3. LogAnswer(H) = Found(Entry(CHOOSE x \in H : \A y \in H : y <= x,
                                     log[CHOOSE x \in H : \A y \in H : y <= x]))
      BY <1>1, <1>4, <2>1 DEF LogAnswer
    <2>4. QED
      BY <2>1, <2>2, <2>3
  <1>5. QED
    BY <1>2, <1>3, <1>4

\* A position of the ring and the ordinal it stands for hold the same decision.
LEMMA SameDecision ==
    ASSUME RingOfTheLog
    PROVE  /\ DOMAIN records = 1 .. Len(records)
           /\ \A o \in Retained : /\ o - first + 1 \in DOMAIN records
                                  /\ records[o - first + 1].decision = log[o]
  <1>1. /\ first \in Nat \ {0} /\ Len(records) \in Nat /\ next = first + Len(records)
        /\ records \in Seq(LogEntry)
    BY DEF RingOfTheLog
  <1>2. DOMAIN records = 1 .. Len(records)
    BY <1>1
  <1>3. ASSUME NEW o \in Retained
        PROVE  /\ o - first + 1 \in DOMAIN records
               /\ records[o - first + 1].decision = log[o]
    <2>1. o \in Nat /\ o >= first /\ o < next
      BY RetainedIsTheRing
    <2>2. o - first + 1 \in 1 .. Len(records) /\ first + (o - first + 1) - 1 = o
      BY <1>1, <2>1
    <2>3. records[o - first + 1] = Entry(o, log[o])
      BY <2>2 DEF RingOfTheLog, PartOf
    <2>4. QED
      BY <1>2, <2>2, <2>3 DEF Entry
  <1>4. QED
    BY <1>2, <1>3

\* find_instance and find_attempt find the newest retained decision about an
\* instance, an attempt or, when the attempt is unset, an identity.
LEMMA FindsTheNewest ==
    ASSUME RingOfTheLog, NEW d
    PROVE  LET SameInstance(x) == x.instance = d.instance
               SameAttempt(x) == x.instance.id = d.instance.id
                                 /\ x.instance.attempt = d.instance.attempt
               SameId(x) == x.instance.id = d.instance.id
           IN  /\ FindInstance(d.instance) = NewestSuch(SameInstance)
               /\ d.instance.attempt # None =>
                    FindAttempt(d.instance.id, d.instance.attempt) = NewestSuch(SameAttempt)
               /\ FindAttempt(d.instance.id, None) = NewestSuch(SameId)
  <1> DEFINE SameInstance(x) == x.instance = d.instance
             SameAttempt(x) == x.instance.id = d.instance.id
                               /\ x.instance.attempt = d.instance.attempt
             SameId(x) == x.instance.id = d.instance.id
  <1>1. /\ DOMAIN records = 1 .. Len(records)
        /\ \A o \in Retained : /\ o - first + 1 \in DOMAIN records
                               /\ records[o - first + 1].decision = log[o]
    BY SameDecision
  <1>2. FindInstance(d.instance) = NewestSuch(SameInstance)
    <2> DEFINE hits == {k \in DOMAIN records : records[k].decision.instance = d.instance}
               H == {o \in Retained : log[o].instance = d.instance}
    <2>1. RingAnswer(hits) = LogAnswer(H)
      <3>1. /\ hits \subseteq 1 .. Len(records) /\ H \subseteq Retained
            /\ \A o \in Retained : o \in H <=> o - first + 1 \in hits
        BY <1>1
      <3> HIDE DEF hits, H
      <3> QED BY <3>1, WalksAgree
    <2>2. FindInstance(d.instance) = RingAnswer(hits)
      BY DEF FindInstance, FindNewest, RingAnswer
    <2>3. NewestSuch(SameInstance) = LogAnswer(H)
      BY DEF NewestSuch, LogAnswer
    <2>4. QED
      BY <2>1, <2>2, <2>3
  <1>3. FindAttempt(d.instance.id, None) = NewestSuch(SameId)
    <2> DEFINE hits == {k \in DOMAIN records : records[k].decision.instance.id = d.instance.id
                            /\ None \in {None, records[k].decision.instance.attempt}}
               H == {o \in Retained : log[o].instance.id = d.instance.id}
    <2>1. RingAnswer(hits) = LogAnswer(H)
      <3>1. /\ hits \subseteq 1 .. Len(records) /\ H \subseteq Retained
            /\ \A o \in Retained : o \in H <=> o - first + 1 \in hits
        BY <1>1
      <3> HIDE DEF hits, H
      <3> QED BY <3>1, WalksAgree
    <2>2. FindAttempt(d.instance.id, None) = RingAnswer(hits)
      BY DEF FindAttempt, FindNewest, RingAnswer
    <2>3. NewestSuch(SameId) = LogAnswer(H)
      BY DEF NewestSuch, LogAnswer
    <2>4. QED
      BY <2>1, <2>2, <2>3
  <1>4. ASSUME d.instance.attempt # None
        PROVE  FindAttempt(d.instance.id, d.instance.attempt) = NewestSuch(SameAttempt)
    <2> DEFINE hits == {k \in DOMAIN records : records[k].decision.instance.id = d.instance.id
                            /\ d.instance.attempt \in {None, records[k].decision.instance.attempt}}
               H == {o \in Retained : log[o].instance.id = d.instance.id
                                        /\ log[o].instance.attempt = d.instance.attempt}
    <2>1. RingAnswer(hits) = LogAnswer(H)
      <3>1. /\ hits \subseteq 1 .. Len(records) /\ H \subseteq Retained
            /\ \A o \in Retained : o \in H <=> o - first + 1 \in hits
        BY <1>1, <1>4
      <3> HIDE DEF hits, H
      <3> QED BY <3>1, WalksAgree
    <2>2. FindAttempt(d.instance.id, d.instance.attempt) = RingAnswer(hits)
      BY DEF FindAttempt, FindNewest, RingAnswer
    <2>3. NewestSuch(SameAttempt) = LogAnswer(H)
      BY DEF NewestSuch, LogAnswer
    <2>4. QED
      BY <2>1, <2>2, <2>3
  <1>5. QED
    BY <1>2, <1>3, <1>4

\* The queries answer from the log of decisions, through growth, eviction and
\* changes of capacity in both directions (get, latest, find_instance,
\* find_attempt).
THEOREM AnswersAreTheLog == Spec => []AnswersFromTheLog
  <1>1. ASSUME IInv
        PROVE  AnswersFromTheLog
    <2>1. RingOfTheLog
      BY <1>1 DEF IInv
    <2>2. \A o \in 0 .. MaxDecisions + 1 :
             Get(o) = IF log = <<>> THEN NotFound("empty")
                      ELSE IF o > Len(log) THEN NotFound("future")
                      ELSE IF o \in Retained THEN Found(Entry(o, log[o]))
                      ELSE NotFound("evicted")
      <3>1. \A o \in 0 .. MaxDecisions + 1 : o \in Nat
        BY HistoryAssumption
      <3>2. QED
        BY <2>1, <3>1, GetAnswers
    <2>3. \A n \in 1 .. MaxDecisions :
             Latest(n) = [k \in 1 .. Lesser(n, Cardinality(Retained)) |->
                            Entry(Len(log) - k + 1, log[Len(log) - k + 1])]
      <3>1. \A n \in 1 .. MaxDecisions : n \in Nat
        BY HistoryAssumption
      <3>2. QED
        BY <2>1, <3>1, LatestAnswers
    <2>4. \A d \in Decision :
             LET SameInstance(x) == x.instance = d.instance
                 SameAttempt(x) == x.instance.id = d.instance.id
                                   /\ x.instance.attempt = d.instance.attempt
                 SameId(x) == x.instance.id = d.instance.id
             IN  /\ FindInstance(d.instance) = NewestSuch(SameInstance)
                 /\ d.instance.attempt # None =>
                      FindAttempt(d.instance.id, d.instance.attempt) = NewestSuch(SameAttempt)
                 /\ FindAttempt(d.instance.id, None) = NewestSuch(SameId)
      BY <2>1, FindsTheNewest
    <2>5. QED
      BY <2>2, <2>3, <2>4 DEF AnswersFromTheLog
  <1>2. QED
    BY <1>1, Invariance, PTL
=============================================================================
