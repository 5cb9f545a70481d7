-------------------------- MODULE History_proofs --------------------------
(***************************************************************************)
(* Theorems about History, for any tables, readers and times: the          *)
(* variables keep their types, scrapes go forward, a status that says OK   *)
(* hides no newer failure, and the parts of a dashboard agree.             *)
(***************************************************************************)
EXTENDS History, TLAPS

(* Nothing is dated ahead, be it a row or a request under way. *)
DatesOK ==
    /\ \A r \in rows : r.at <= clock
    /\ \A w \in Workers : asked[w] # NotAsking => asked[w].at <= clock

(* What a scrape has reported is still there or has been overtaken, or the *)
(* series has been deleted because all of it, the row reported too, was    *)
(* older than retention.                                                   *)
ScrapedOK ==
    \/ scraped = Never
    \/ \E r \in Of(Followed) : r.at >= scraped
    \/ Retention > 0 /\ Of(Followed) = {} /\ scraped < clock - Retention

(* The result of a fold over checks, as far as it has got: a failure is    *)
(* overruled by a later failure, or by a newer check that is OK and comes  *)
(* after it.                                                               *)
FoldOK ==
    \A i \in 1 .. reader.next - 1 :
        LET c == reader.read[Order[i]]
        IN  c # NoRow /\ ~c.ok =>
                \/ reader.result # NoRow /\ ~reader.result.ok /\ reader.result.at >= c.at
                \/ \E j \in i + 1 .. reader.next - 1 :
                      LET d == reader.read[Order[j]] IN d.ok /\ d.at > c.at

Shown == reader.failed \cup {q \in reader.listed : ~q.ok}

(* The failures of an answer are those of its model and its window. *)
ShownOK ==
    \A r \in Shown : r.id <= serial /\ r.of = reader.model /\ r.at >= Since /\ ~r.ok

DrawnOK == ShownOK /\ CountedFailuresAreDrawn

-----------------------------------------------------------------------------
(* Types *)

LEMMA NoRequestTyped == NoRequest \in Reader /\ NoRow \notin Row /\ NotAsking \notin Asked
<1>1. NoRow \notin Row
  BY DEF NoRow, Row
<1>2. NotAsking \notin Asked
  BY DEF NotAsking, Asked, Never
<1>3. Len(Order) \in Nat
  BY SeriesAssumption
<1>4. 1 \in 1 .. Len(Order) + 1 /\ 0 \in 0 .. MaxTime
  BY <1>3, BoundsAssumption
<1>5. [p \in Providers |-> NoRow] \in [Providers -> Row \cup {NoRow}]
  OBVIOUS
<1>6. NoRequest \in Reader
  BY <1>4, <1>5 DEF NoRequest, Reader, ReaderKind, Never
<1> QED
  BY <1>1, <1>2, <1>6

(* Aggregating checks gives one of them. *)
LEMMA AggregateTyped ==
    ASSUME NEW c \in Row \cup {NoRow}, NEW d \in Row \cup {NoRow}
    PROVE  AggregateCheck(c, d) \in {c, d}
BY DEF AggregateCheck

(* Whatever is read in the tables is typed, and dated. *)
LEMMA LatestTyped ==
    ASSUME TypeOK, NEW s, NEW r, IsLatest(Of(s), r)
    PROVE  r \in Row \cup {NoRow}
BY DEF IsLatest, Of, TypeOK

(* Each step of a reader keeps its type. *)
LEMMA TakeCheckTyped ==
    ASSUME TypeOK, NEW r \in Row \cup {NoRow}, reader.next <= Len(Order), TakeCheck(r)
    PROVE  TypeOK'
<1>1. reader \in Reader /\ Len(Order) \in Nat
  BY SeriesAssumption DEF TypeOK
<1>1a. reader.next \in 1 .. Len(Order) + 1
  BY <1>1 DEF Reader
<1>1b. reader.next \in 1 .. Len(Order) /\ reader.next + 1 \in 1 .. Len(Order) + 1
  BY <1>1, <1>1a
<1>2. Order[reader.next] \in Providers
  BY <1>1b, SeriesAssumption
<1>3. AggregateCheck(reader.result, r) \in Row \cup {NoRow}
  BY <1>1, AggregateTyped DEF Reader
<1> DEFINE t == [reader EXCEPT !.next = reader.next + 1,
                               !.read = [reader.read EXCEPT ![Order[reader.next]] = r],
                               !.result = AggregateCheck(reader.result, r)]
<1>4. reader' = t
  BY <1>1 DEF TakeCheck, Reader
<1>5. [reader.read EXCEPT ![Order[reader.next]] = r] \in [Providers -> Row \cup {NoRow}]
  BY <1>1 DEF Reader
<1>6. t \in Reader
  BY <1>1, <1>1b, <1>3, <1>5 DEF Reader
<1> HIDE DEF t
<1> QED
  BY <1>4, <1>6 DEF TypeOK, TakeCheck

LEMMA ReadTyped ==
    ASSUME TypeOK, Read
    PROVE  TypeOK'
<1>0. reader \in Reader /\ clock \in 0 .. MaxTime
  BY BoundsAssumption DEF TypeOK
<1>1. ASSUME NEW t \in Reader, reader' = t, UNCHANGED <<clock, rows, serial, asked, scraped>>
      PROVE  TypeOK'
  BY <1>1 DEF TypeOK
<1>2. ASSUME NEW r \in rows \cup {NoRow}, Scrape(r) PROVE TypeOK'
  <2>1. Timestamp(r) \in 0 .. MaxTime
    BY BoundsAssumption DEF TypeOK, Row, Timestamp, Never
  <2> QED
    BY <1>2, <2>1 DEF Scrape, TypeOK
<1>3. ASSUME NEW r \in rows \cup {NoRow}, ReadCheck(r) \/ ReadMCPCheck(r) PROVE TypeOK'
  BY <1>3, TakeCheckTyped DEF ReadCheck, ReadMCPCheck, TypeOK
<1>4. ASSUME NEW kind \in {"status", "mcp status"}, AskStatus(kind) PROVE TypeOK'
  <2> DEFINE t == [NoRequest EXCEPT !.kind = kind]
  <2>1. t \in Reader
    BY NoRequestTyped DEF Reader, ReaderKind
  <2>2. reader' = t
    BY <1>4 DEF AskStatus
  <2> HIDE DEF t
  <2> QED
    BY <1>1, <1>4, <2>1, <2>2 DEF AskStatus
<1>5. ASSUME NEW m \in Models, AskDashboard(m) PROVE TypeOK'
  <2> DEFINE t == [NoRequest EXCEPT !.kind = "kpis", !.at = clock, !.model = m]
  <2>1. t \in Reader
    BY <1>0, NoRequestTyped DEF Reader, ReaderKind
  <2>2. reader' = t
    BY <1>5 DEF AskDashboard
  <2> HIDE DEF t
  <2> QED
    BY <1>1, <1>5, <2>1, <2>2 DEF AskDashboard
<1>6. CASE ReadKPIs
  <2> DEFINE t == [reader EXCEPT !.kind = "runs", !.failed = Failures]
  <2>1. Failures \subseteq Row
    BY DEF Failures, Samples, Of, TypeOK
  <2>2. t \in Reader
    BY <1>0, <2>1 DEF Reader, ReaderKind
  <2>3. reader' = t
    BY <1>6 DEF ReadKPIs
  <2> HIDE DEF t
  <2> QED
    BY <1>1, <1>6, <2>2, <2>3 DEF ReadKPIs
<1>7. ASSUME NEW list \in SUBSET rows, ReadRuns(list) PROVE TypeOK'
  <2> DEFINE t == [reader EXCEPT !.kind = "charts", !.listed = list]
  <2>1. list \in SUBSET Row
    BY DEF TypeOK
  <2>2. t \in Reader
    BY <1>0, <2>1 DEF Reader, ReaderKind
  <2>3. reader' = t
    BY <1>7 DEF ReadRuns
  <2> HIDE DEF t
  <2> QED
    BY <1>1, <1>7, <2>2, <2>3 DEF ReadRuns
<1>8. CASE ReadErrorChart
  <2> DEFINE c == ErrorChart
             t == [reader EXCEPT !.kind = "answer", !.chart = c]
  <2>1. Failures \subseteq Row
    BY DEF Failures, Samples, Of, TypeOK
  <2>2. c \in [0 .. BucketCount - 1 -> SUBSET Row]
    BY <2>1 DEF ErrorChart
  <2>3. reader' = t
    BY <1>8 DEF ReadErrorChart
  <2> HIDE DEF c
  <2>4. t \in Reader
    BY <1>0, <2>2 DEF Reader, ReaderKind
  <2> HIDE DEF t
  <2> QED
    BY <1>1, <1>8, <2>3, <2>4 DEF ReadErrorChart
<1>9. CASE EndRequest
  BY <1>1, <1>9, NoRequestTyped DEF EndRequest
<1> QED
  BY <1>2, <1>3, <1>4, <1>5, <1>6, <1>7, <1>8, <1>9 DEF Read

LEMMA WriteTyped ==
    ASSUME TypeOK, NEW w \in Workers, Write(w)
    PROVE  TypeOK'
<1>1. ASSUME NEW s \in Series, Ask(w, s) PROVE TypeOK'
  <2>1. [of |-> s, at |-> clock] \in Asked
    BY DEF Asked, TypeOK
  <2> QED
    BY <1>1, <2>1 DEF Ask, TypeOK
<1>2. ASSUME NEW ok \in BOOLEAN, Record(w, ok) PROVE TypeOK'
  <2>1. asked[w] \in Asked
    BY <1>2 DEF Record, ContextAlive, TypeOK
  <2>2. serial' = serial + 1 /\ serial' \in 1 .. MaxRows /\ serial \in Nat
    BY <1>2, BoundsAssumption DEF Record, TypeOK
  <2>3. RowOf(asked[w], serial', ok) \in Row
    BY <2>1, <2>2, Zenon DEF RowOf, Row, Asked
  <2>4. rows' = rows \cup {RowOf(asked[w], serial', ok)}
    BY <1>2 DEF Record
  <2>5. RowOf(asked[w], serial', ok).id = serial'
    BY DEF RowOf
  <2>6. \A r \in rows : r.id \in Int /\ r.id <= serial
    BY DEF TypeOK, Row
  <2>7. rows' \subseteq Row /\ \A r \in rows' : r.id <= serial'
    BY <2>2, <2>3, <2>4, <2>5, <2>6 DEF TypeOK
  <2>8. asked' \in [Workers -> Asked \cup {NotAsking}]
    BY <1>2 DEF Record, TypeOK
  <2> QED
    BY <1>2, <2>2, <2>7, <2>8, BoundsAssumption DEF Record, TypeOK
<1>3. CASE LoseRow(w)
  BY <1>3 DEF LoseRow, TypeOK
<1> QED
  BY <1>1, <1>2, <1>3 DEF Write, RecordCheck, RecordRun

LEMMA NextTyped == TypeOK /\ [Next]_vars => TypeOK'
<1> SUFFICES ASSUME TypeOK, [Next]_vars PROVE TypeOK'
  OBVIOUS
<1>1. CASE Tick
  BY <1>1, BoundsAssumption DEF Tick, TypeOK
<1>2. ASSUME NEW now \in 1 .. MaxTime, Prune(now) PROVE TypeOK'
  BY <1>2 DEF Prune, TypeOK
<1>3. CASE UNCHANGED vars
  BY <1>3 DEF vars, TypeOK
<1> QED
  BY <1>1, <1>2, <1>3, WriteTyped, ReadTyped DEF Next

LEMMA InitTyped == Init => TypeOK
BY NoRequestTyped, BoundsAssumption DEF Init, TypeOK, Never

(* Every variable keeps its type, and no id is given out twice. *)
THEOREM TypeCorrect == Spec => []TypeOK
BY InitTyped, NextTyped, PTL DEF Spec

-----------------------------------------------------------------------------
(* Scrapes *)

LEMMA TimesAreNaturals ==
    /\ MaxTime \in Nat \ {0} /\ MaxRows \in Nat
    /\ TaskTimeout \in Nat /\ Retention \in Nat /\ (Retention > 0 => TaskTimeout <= Retention)
    /\ RequestedWindow \in Nat \ {0} /\ Interval \in Nat \ {0} /\ RunLimit \in Nat \ {0}
BY BoundsAssumption, RetentionAssumption, WindowAssumption

(* A row put on record is no older than a task's time limit. *)
LEMMA RecordDates ==
    ASSUME TypeOK, DatesOK, NEW w \in Workers, NEW ok \in BOOLEAN, Record(w, ok)
    PROVE  \E row \in Row :
              /\ rows' = rows \cup {row} /\ row.of = asked[w].of /\ row.id = serial + 1
              /\ clock - TaskTimeout <= row.at /\ row.at <= clock
<1>1. asked[w] \in Asked /\ asked[w].at \in Int /\ asked[w].at <= clock
      /\ clock <= asked[w].at + TaskTimeout
  BY NoRequestTyped DEF Record, ContextAlive, TypeOK, DatesOK, Asked
<1>2. serial' = serial + 1 /\ serial' \in 1 .. MaxRows
  BY TimesAreNaturals DEF Record, TypeOK
<1> DEFINE row == RowOf(asked[w], serial', ok)
<1>3. row \in Row
  BY <1>1, <1>2, Zenon DEF RowOf, Row, Asked
<1>4. rows' = rows \cup {row} /\ row.of = asked[w].of /\ row.id = serial + 1 /\ row.at = asked[w].at
  BY <1>2 DEF Record, RowOf
<1>5. clock - TaskTimeout <= row.at /\ row.at <= clock
  BY <1>1, <1>4, TimesAreNaturals DEF TypeOK
<1> HIDE DEF row
<1> QED
  BY <1>3, <1>4, <1>5

LEMMA NextDatesOK == TypeOK /\ DatesOK /\ [Next]_vars => DatesOK'
<1> SUFFICES ASSUME TypeOK, DatesOK, [Next]_vars PROVE DatesOK'
  OBVIOUS
<1>0. clock \in Int /\ (\A r \in rows : r.at \in Int)
      /\ \A w \in Workers : asked[w] # NotAsking => asked[w].at \in Int
  BY DEF TypeOK, Row, Asked
<1>1. CASE Tick
  BY <1>0, <1>1 DEF Tick, DatesOK
<1>2. ASSUME NEW w \in Workers, Write(w) PROVE DatesOK'
  <2>1. ASSUME NEW s \in Series, Ask(w, s) PROVE DatesOK'
    BY <1>0, <2>1 DEF Ask, DatesOK, TypeOK
  <2>2. ASSUME NEW ok \in BOOLEAN, Record(w, ok) PROVE DatesOK'
    <3>1. PICK row \in Row : rows' = rows \cup {row} /\ row.at <= clock
      BY <2>2, RecordDates
    <3>2. asked' = [asked EXCEPT ![w] = NotAsking] /\ clock' = clock
      BY <2>2 DEF Record
    <3> QED
      BY <3>1, <3>2 DEF DatesOK, TypeOK
  <2>3. CASE LoseRow(w)
    BY <2>3 DEF LoseRow, DatesOK, TypeOK
  <2> QED
    BY <1>2, <2>1, <2>2, <2>3 DEF Write, RecordCheck, RecordRun
<1>3. ASSUME NEW now \in 1 .. MaxTime, Prune(now) PROVE DatesOK'
  BY <1>3 DEF Prune, DatesOK
<1>4. CASE Read
  <2>1. UNCHANGED <<clock, rows, asked>>
    BY <1>4 DEF Read, Scrape, ReadCheck, ReadMCPCheck, TakeCheck, AskStatus, AskDashboard,
                ReadKPIs, ReadRuns, ReadErrorChart, EndRequest
  <2> QED
    BY <2>1 DEF DatesOK
<1>5. CASE UNCHANGED vars
  BY <1>5 DEF vars, DatesOK
<1> QED
  BY <1>1, <1>2, <1>3, <1>4, <1>5 DEF Next

(* Pruning deletes what was scraped only when it has outlived retention.   *)
LEMMA PruneScraped ==
    ASSUME TypeOK, ScrapedOK, NEW now \in 1 .. MaxTime, Prune(now)
    PROVE  ScrapedOK'
<1>0. clock \in Int /\ scraped \in Int /\ Retention \in Nat /\ Retention > 0 /\ now <= clock
      /\ clock' = clock /\ scraped' = scraped
      /\ rows' = {r \in rows : r.at >= now - Retention} /\ \A r \in rows : r.at \in Int
  BY TimesAreNaturals DEF Prune, TypeOK, Row
<1>1. CASE scraped = Never
  BY <1>0, <1>1 DEF ScrapedOK
<1>2. ASSUME NEW r \in Of(Followed), r.at >= scraped PROVE ScrapedOK'
  <2>1. r \in rows /\ r.of = Followed /\ r.at \in Int
    BY <1>0 DEF Of
  <2>2. CASE r \in rows'
    BY <1>0, <1>2, <2>1, <2>2 DEF ScrapedOK, Of
  <2>3. CASE r \notin rows'
    <3>1. r.at < now - Retention
      BY <1>0, <2>1, <2>3
    <3>2. scraped < clock - Retention
      BY <1>0, <1>2, <2>1, <3>1
    <3>3. ASSUME NEW q \in rows', q.of = Followed PROVE q.at >= scraped
      BY <1>0, <1>2, <2>1, <3>1, <3>3
    <3> QED
      BY <1>0, <3>2, <3>3 DEF ScrapedOK, Of
  <2> QED
    BY <2>2, <2>3
<1>3. CASE Retention > 0 /\ Of(Followed) = {} /\ scraped < clock - Retention
  BY <1>0, <1>3 DEF ScrapedOK, Of
<1> QED
  BY <1>1, <1>2, <1>3 DEF ScrapedOK

(* A row of the deleted series that is put on record is newer. *)
LEMMA RecordScraped ==
    ASSUME TypeOK, DatesOK, ScrapedOK, NEW w \in Workers, NEW ok \in BOOLEAN, Record(w, ok)
    PROVE  ScrapedOK'
<1>0. clock \in Int /\ scraped \in Int /\ clock' = clock /\ scraped' = scraped
  BY DEF Record, TypeOK
<1>1. PICK row \in Row : rows' = rows \cup {row} /\ clock - TaskTimeout <= row.at
  BY RecordDates
<1>2. row.at \in Int
  BY DEF Row
<1>3. CASE scraped = Never
  BY <1>0, <1>3 DEF ScrapedOK
<1>4. CASE \E r \in Of(Followed) : r.at >= scraped
  BY <1>0, <1>1, <1>4 DEF ScrapedOK, Of
<1>5. CASE Retention > 0 /\ Of(Followed) = {} /\ scraped < clock - Retention
  <2>1. row.at >= scraped
    BY <1>0, <1>1, <1>2, <1>5, TimesAreNaturals
  <2>2. CASE row.of = Followed
    BY <1>0, <1>1, <2>1, <2>2 DEF ScrapedOK, Of
  <2>3. CASE row.of # Followed
    BY <1>0, <1>1, <1>5, <2>3 DEF ScrapedOK, Of
  <2> QED
    BY <2>2, <2>3
<1> QED
  BY <1>3, <1>4, <1>5 DEF ScrapedOK

LEMMA ScrapeScraped ==
    ASSUME TypeOK, NEW r \in rows \cup {NoRow}, Scrape(r)
    PROVE  ScrapedOK'
<1>1. scraped' = Timestamp(r) /\ clock' = clock /\ rows' = rows /\ IsLatest(Of(Followed), r)
  BY DEF Scrape
<1>2. CASE r = NoRow
  BY <1>1, <1>2 DEF Timestamp, ScrapedOK
<1>3. CASE r # NoRow
  <2>1. r \in Of(Followed) /\ scraped' = r.at
    BY <1>1, <1>3 DEF IsLatest, Timestamp
  <2>2. r.at \in Int
    BY <2>1 DEF Of, TypeOK, Row
  <2> QED
    BY <1>1, <2>1, <2>2 DEF ScrapedOK, Of
<1> QED
  BY <1>2, <1>3

LEMMA NextScrapedOK == TypeOK /\ DatesOK /\ ScrapedOK /\ [Next]_vars => ScrapedOK'
<1> SUFFICES ASSUME TypeOK, DatesOK, ScrapedOK, [Next]_vars PROVE ScrapedOK'
  OBVIOUS
<1>0. clock \in Int /\ scraped \in Int
  BY DEF TypeOK
<1>1. ASSUME UNCHANGED <<rows, scraped>>, clock' = clock \/ clock' = clock + 1 PROVE ScrapedOK'
  BY <1>0, <1>1, TimesAreNaturals DEF ScrapedOK, Of
<1>2. ASSUME NEW w \in Workers, Write(w) PROVE ScrapedOK'
  BY <1>1, <1>2, RecordScraped DEF Write, RecordCheck, RecordRun, Ask, LoseRow
<1>3. CASE Read
  <2>1. (\E r \in rows \cup {NoRow} : Scrape(r)) \/ UNCHANGED <<clock, rows, scraped>>
    BY <1>3 DEF Read, ReadCheck, ReadMCPCheck, TakeCheck, AskStatus, AskDashboard,
                ReadKPIs, ReadRuns, ReadErrorChart, EndRequest
  <2> QED
    BY <1>1, <2>1, ScrapeScraped
<1> QED
  BY <1>1, <1>2, <1>3, PruneScraped DEF Next, Tick, vars

(* The time of the latest row of any series, as scrapes report it, never   *)
(* runs back; the series vanishes only by outliving retention.             *)
THEOREM ScrapesGoForwardAlways == Spec => ScrapesGoForward
<1> DEFINE Forward ==
      \/ scraped' >= scraped
      \/ scraped' = Never /\ Retention > 0 /\ scraped < clock - Retention
<1>1. TypeOK /\ ScrapedOK /\ [Next]_vars => [Forward]_vars
  <2> SUFFICES ASSUME TypeOK, ScrapedOK, Next PROVE Forward
    BY DEF vars
  <2>0. scraped \in Nat
    BY DEF TypeOK
  <2>1. ASSUME UNCHANGED scraped PROVE Forward
    BY <2>0, <2>1
  <2>2. ASSUME NEW r \in rows \cup {NoRow}, Scrape(r) PROVE Forward
    <3>1. scraped' = Timestamp(r) /\ IsLatest(Of(Followed), r)
      BY <2>2 DEF Scrape
    <3>2. CASE Of(Followed) = {}
      <4>1. scraped' = Never
        BY <3>1, <3>2 DEF IsLatest, Timestamp
      <4> QED
        BY <2>0, <3>2, <4>1 DEF ScrapedOK
    <3>3. CASE Of(Followed) # {}
      <4>1. r \in Of(Followed) /\ (\A q \in Of(Followed) : q.at <= r.at /\ q.at \in Int)
        BY <3>1, <3>3 DEF IsLatest, Of, TypeOK, Row
      <4>2. r # NoRow /\ r.at \in Nat
        BY <4>1, NoRequestTyped DEF Of, TypeOK, Row
      <4>3. scraped' = r.at
        BY <3>1, <4>2 DEF Timestamp
      <4>4. scraped = Never \/ \E q \in Of(Followed) : q.at >= scraped
        BY <3>3 DEF ScrapedOK
      <4> QED
        BY <2>0, <4>1, <4>2, <4>3, <4>4 DEF Never
    <3> QED
      BY <3>2, <3>3
  <2>3. (\E r \in rows \cup {NoRow} : Scrape(r)) \/ UNCHANGED scraped
    BY DEF Next, Tick, Write, Ask, RecordCheck, RecordRun, Record, LoseRow, Prune, Read, ReadCheck, ReadMCPCheck, TakeCheck,
           AskStatus, AskDashboard, ReadKPIs, ReadRuns, ReadErrorChart, EndRequest
  <2> QED
    BY <2>1, <2>2, <2>3
<1>2. Init => DatesOK /\ ScrapedOK
  BY DEF Init, DatesOK, ScrapedOK
<1> QED
  BY <1>1, <1>2, InitTyped, NextTyped, NextDatesOK, NextScrapedOK, PTL DEF Spec, ScrapesGoForward

-----------------------------------------------------------------------------
(* The service status *)

(* One more check leaves each failure overruled or in the result. *)
LEMMA TakeCheckFolds ==
    ASSUME TypeOK, FoldOK, NEW r \in Row \cup {NoRow}, reader.next <= Len(Order), TakeCheck(r)
    PROVE  FoldOK'
<1> DEFINE n == reader.next
           old == reader.result
           new == AggregateCheck(old, r)
<1>1. reader \in Reader /\ Len(Order) \in Nat /\ n \in Nat \ {0} /\ n \in 1 .. Len(Order)
      /\ old \in Row \cup {NoRow}
  BY SeriesAssumption DEF TypeOK, Reader
<1>2. /\ \A i \in 1 .. n : Order[i] \in Providers
      /\ \A i \in 1 .. n - 1 : Order[i] # Order[n]
  BY <1>1, SeriesAssumption
<1>3. /\ reader'.next = n + 1 /\ reader'.result = new
      /\ reader'.read = [reader.read EXCEPT ![Order[n]] = r]
  BY <1>1 DEF TakeCheck, Reader
<1>4. /\ reader'.read[Order[n]] = r
      /\ \A i \in 1 .. n - 1 : reader'.read[Order[i]] = reader.read[Order[i]]
      /\ \A i \in 1 .. n : reader'.read[Order[i]] \in Row \cup {NoRow}
  BY <1>1, <1>2, <1>3 DEF Reader
<1>5. \A q \in Row : q.at \in Int
  BY DEF Row
<1> HIDE DEF old
<1>6. ASSUME NEW i \in 1 .. n, reader'.read[Order[i]] # NoRow, ~reader'.read[Order[i]].ok
      PROVE  \/ new # NoRow /\ ~new.ok /\ new.at >= reader'.read[Order[i]].at
             \/ \E j \in i + 1 .. n :
                   reader'.read[Order[j]].ok /\ reader'.read[Order[j]].at > reader'.read[Order[i]].at
  <2> DEFINE c == reader'.read[Order[i]]
  <2>0. c \in Row /\ c.at \in Int
    BY <1>4, <1>5, <1>6
  <2> HIDE DEF c
  <2>1. CASE i = n
    <3>1. c = r /\ r # NoRow /\ ~r.ok /\ r \in Row
      BY <1>4, <1>6, <2>0, <2>1 DEF c
    <3>2. CASE old = NoRow \/ old.ok
      BY <3>1, <3>2, <2>0 DEF AggregateCheck, c
    <3>3. CASE old # NoRow /\ ~old.ok
      <4>1. old \in Row /\ old.at \in Int
        BY <1>1, <1>5, <3>3
      <4> QED
        BY <2>0, <3>1, <3>3, <4>1 DEF AggregateCheck, c
    <3> QED
      BY <3>2, <3>3
  <2>2. CASE i \in 1 .. n - 1
    <3>1. c = reader.read[Order[i]]
      BY <1>4, <2>2 DEF c
    <3>2. \/ old # NoRow /\ ~old.ok /\ old.at >= c.at
          \/ \E j \in i + 1 .. n - 1 : reader.read[Order[j]].ok /\ reader.read[Order[j]].at > c.at
      BY <1>6, <2>2, <3>1 DEF FoldOK, old, c
    <3>3. ASSUME NEW j \in i + 1 .. n - 1, reader.read[Order[j]].ok, reader.read[Order[j]].at > c.at
          PROVE  \E k \in i + 1 .. n : reader'.read[Order[k]].ok /\ reader'.read[Order[k]].at > c.at
      <4>1. j \in 1 .. n - 1 /\ j \in i + 1 .. n
        BY <1>1
      <4> QED
        BY <1>4, <3>3, <4>1
    <3>4. ASSUME old # NoRow, ~old.ok, old.at >= c.at
          PROVE  \/ new # NoRow /\ ~new.ok /\ new.at >= c.at
                 \/ \E j \in i + 1 .. n : reader'.read[Order[j]].ok /\ reader'.read[Order[j]].at > c.at
      <4>0. old \in Row /\ old.at \in Int
        BY <1>1, <1>5, <3>4
      <4>1. CASE r = NoRow
        BY <3>4, <4>1 DEF AggregateCheck
      <4>2. CASE r # NoRow /\ ~(r.at > old.at)
        BY <3>4, <4>2 DEF AggregateCheck
      <4>3. CASE r # NoRow /\ r.at > old.at
        <5>1. new = r /\ r \in Row /\ r.at \in Int
          BY <1>5, <3>4, <4>3 DEF AggregateCheck
        <5>2. r.at > c.at
          BY <2>0, <3>4, <4>0, <4>3, <5>1
        <5>3. CASE r.ok
          <6>1. n \in i + 1 .. n
            BY <1>1, <2>2
          <6> QED
            BY <1>4, <5>2, <5>3, <6>1
        <5>4. CASE ~r.ok
          <6> HIDE DEF new
          <6> QED
            BY <2>0, <4>3, <5>1, <5>2, <5>4
        <5> QED
          BY <5>3, <5>4
      <4> QED
        BY <4>1, <4>2, <4>3
    <3> HIDE DEF new
    <3> QED
      BY <3>2, <3>3, <3>4 DEF c
  <2>3. i = n \/ i \in 1 .. n - 1
    BY <1>1
  <2> QED
    BY <2>1, <2>2, <2>3
<1>7. reader'.next - 1 = n
  BY <1>1, <1>3
<1> HIDE DEF n, new
<1> QED
  BY <1>3, <1>6, <1>7 DEF FoldOK

LEMMA NextFoldOK == TypeOK /\ FoldOK /\ [Next]_vars => FoldOK'
<1> SUFFICES ASSUME TypeOK, FoldOK, [Next]_vars PROVE FoldOK'
  OBVIOUS
<1>0. reader \in Reader
  BY DEF TypeOK
<1>1. ASSUME reader'.next = 1 PROVE FoldOK'
  BY <1>1 DEF FoldOK
<1>2. ASSUME reader'.next = reader.next, reader'.read = reader.read, reader'.result = reader.result
      PROVE  FoldOK'
  BY <1>2 DEF FoldOK
<1>3. CASE UNCHANGED reader
  BY <1>2, <1>3
<1>4. ASSUME NEW r \in rows \cup {NoRow}, ReadCheck(r) \/ ReadMCPCheck(r) PROVE FoldOK'
  BY <1>4, TakeCheckFolds DEF ReadCheck, ReadMCPCheck, TypeOK
<1>5. CASE ReadKPIs \/ ReadErrorChart \/ \E list \in SUBSET rows : ReadRuns(list)
  BY <1>0, <1>2, <1>5 DEF ReadKPIs, ReadErrorChart, ReadRuns, Reader
<1>6. CASE EndRequest \/ (\E kind \in {"status", "mcp status"} : AskStatus(kind))
           \/ \E m \in Models : AskDashboard(m)
  <2>1. NoRequest \in Reader /\ NoRequest.next = 1
    BY NoRequestTyped DEF NoRequest
  <2>2. reader'.next = NoRequest.next
    BY <1>6, <2>1 DEF EndRequest, AskStatus, AskDashboard, Reader
  <2> QED
    BY <1>1, <2>1, <2>2
<1>7. CASE Read
  <2>1. ASSUME NEW r \in rows \cup {NoRow}, Scrape(r) PROVE FoldOK'
    BY <1>3, <2>1 DEF Scrape
  <2> QED
    BY <1>4, <1>5, <1>6, <1>7, <2>1 DEF Read
<1>8. Read \/ UNCHANGED reader
  BY DEF Next, Tick, Write, Ask, RecordCheck, RecordRun, Record, LoseRow, Prune, vars
<1> QED
  BY <1>3, <1>7, <1>8

(* However many providers there are and whatever is recorded or deleted    *)
(* between the queries, a status that says OK hides a failure only behind  *)
(* a newer check that is OK.                                               *)
THEOREM OkHidesOnlyOlderFailuresAlways == Spec => []OkHidesOnlyOlderFailures
<1>1. Init => FoldOK
  BY DEF Init, NoRequest, FoldOK
<1>2. FoldOK => OkHidesOnlyOlderFailures
  BY DEF FoldOK, OkHidesOnlyOlderFailures, HTTPOK
<1> QED
  BY <1>1, <1>2, InitTyped, NextTyped, NextFoldOK, PTL DEF Spec

-----------------------------------------------------------------------------
(* Dashboards *)

LEMMA DivisionBounds ==
    ASSUME NEW d \in Nat, NEW n \in Nat \ {0}
    PROVE  (d \div n) \in Nat /\ (d \div n) * n <= d /\ d < ((d \div n) + 1) * n
OBVIOUS

LEMMA DivisionGrows ==
    ASSUME NEW d \in Nat, NEW e \in Nat, NEW n \in Nat \ {0}, d <= e
    PROVE  (d \div n) <= (e \div n)
<1> DEFINE p == d \div n
           q == e \div n
<1>1. p \in Nat /\ p * n <= d /\ q \in Nat /\ e < (q + 1) * n
  BY DivisionBounds
<1> HIDE DEF p, q
<1>2. \A a, b \in Nat : a <= b => a * n <= b * n
  <2> SUFFICES ASSUME NEW a \in Nat, NEW b \in Nat, a <= b PROVE a * n <= b * n
    OBVIOUS
  <2>1. (b - a) * n \in Nat /\ (b - a) * n = b * n - a * n
    OBVIOUS
  <2> QED
    BY <2>1
<1>3. SUFFICES ASSUME q + 1 <= p PROVE FALSE
  BY <1>1 DEF p, q
<1>4. (q + 1) * n <= p * n
  BY <1>1, <1>2, <1>3
<1> DEFINE x == (q + 1) * n
           y == p * n
<1>5. x <= y /\ y <= d /\ e < x /\ x \in Int /\ y \in Int
  BY <1>1, <1>4
<1> HIDE DEF x, y
<1> QED
  BY <1>5

(* Any run of the window, down to the present, has a bucket of its own. *)
LEMMA RunsHaveBuckets ==
    ASSUME TypeOK, RequestAlive, NEW r \in rows, r.at <= clock, r.at >= Since
    PROVE  /\ Bucket(r) \in 0 .. BucketCount - 1
           /\ Since + Bucket(r) * Interval <= r.at
           /\ r.at < Since + (Bucket(r) + 1) * Interval
<1> DEFINE d == r.at - Since
           e == Window + Interval - 1
<1>1. /\ r.at \in Int /\ clock \in Int /\ reader.at \in Int /\ Window \in Nat /\ Since \in Int
      /\ Interval \in Nat \ {0}
  BY TimesAreNaturals DEF TypeOK, Row, Reader, Window, Since
<1>2. Since = reader.at - Window /\ clock < reader.at + Interval
  BY DEF Since, RequestAlive
<1>3. d \in Nat /\ e \in Nat /\ d <= e
  BY <1>1, <1>2
<1>4. Bucket(r) = d \div Interval /\ BucketCount = (e \div Interval) + 1
  BY DEF Bucket, BucketCount
<1>5. r.at = Since + d
  BY <1>1
<1> HIDE DEF d, e
<1> DEFINE b == d \div Interval
           low == b * Interval
           high == (b + 1) * Interval
<1>6. b \in Nat /\ low <= d /\ d < high /\ b <= (e \div Interval) /\ (e \div Interval) \in Nat
      /\ low \in Int /\ high \in Int
  BY <1>1, <1>3, DivisionBounds, DivisionGrows
<1>7. Bucket(r) = b
  BY <1>4
<1> HIDE DEF b
<1>8. b \in 0 .. BucketCount - 1
  BY <1>4, <1>6
<1> HIDE DEF low, high
<1>9. Since + low <= r.at /\ r.at < Since + high
  BY <1>1, <1>3, <1>5, <1>6
<1> QED
  BY <1>7, <1>8, <1>9 DEF low, high

(* The chart is drawn from the same runs as the other parts. *)
LEMMA ChartDrawsShown ==
    ASSUME TypeOK, DatesOK, DrawnOK, ReadErrorChart
    PROVE  DrawnOK'
<1>0. reader \in Reader
  BY DEF TypeOK
<1> DEFINE chart == ErrorChart
<1>1. reader'.chart = chart /\ UNCHANGED <<clock, rows, serial>> /\ RequestAlive
  BY <1>0 DEF ReadErrorChart, Reader
<1>2. reader'.failed = reader.failed /\ reader'.listed = reader.listed /\ reader'.at = reader.at
      /\ reader'.model = reader.model
  BY <1>0 DEF ReadErrorChart, Reader
<1>3. Since' = Since /\ Shown' = Shown
  BY <1>2 DEF Since, Shown, Window
<1>4. ShownOK'
  BY <1>1, <1>2, <1>3 DEF DrawnOK, ShownOK
<1>5. ASSUME NEW r \in Shown, r \in rows
      PROVE  \E b \in DOMAIN chart :
                /\ r \in chart[b]
                /\ Since + b * Interval <= r.at /\ r.at < Since + (b + 1) * Interval
  <2>1. r \in Failures /\ r.at >= Since
    BY <1>5 DEF DrawnOK, ShownOK, Failures, Samples, Of
  <2>2. r.at <= clock
    BY <1>5 DEF DatesOK
  <2>3. /\ Bucket(r) \in 0 .. BucketCount - 1
        /\ Since + Bucket(r) * Interval <= r.at
        /\ r.at < Since + (Bucket(r) + 1) * Interval
    BY <1>1, <1>5, <2>1, <2>2, RunsHaveBuckets
  <2>4. Bucket(r) \in DOMAIN chart /\ r \in chart[Bucket(r)]
    BY <2>1, <2>3 DEF ErrorChart
  <2> HIDE DEF chart
  <2> QED
    BY <2>3, <2>4
<1> HIDE DEF chart
<1>6. CountedFailuresAreDrawn'
  BY <1>1, <1>3, <1>5 DEF CountedFailuresAreDrawn, Shown
<1> QED
  BY <1>4, <1>6 DEF DrawnOK

(* What is recorded or deleted later changes nothing about the answer. *)
LEMMA RowsChangeDrawn ==
    ASSUME DrawnOK, UNCHANGED reader, serial \in Int, serial' \in Int, serial <= serial',
           \A r \in rows : r \in Row, \A r \in rows' \ rows : r.id = serial + 1,
           \A r \in Shown : r.id \in Int
    PROVE  DrawnOK'
<1>1. \A r \in Shown : r \in rows' => r \in rows
  BY DEF DrawnOK, ShownOK
<1>2. Since' = Since /\ Shown' = Shown
  BY DEF Since, Shown, Window
<1>3. ShownOK'
  BY <1>2 DEF DrawnOK, ShownOK
<1>4. CountedFailuresAreDrawn'
  BY <1>1, <1>2 DEF DrawnOK, CountedFailuresAreDrawn, Shown
<1> QED
  BY <1>3, <1>4 DEF DrawnOK

LEMMA NextDrawnOK == TypeOK /\ DatesOK /\ DrawnOK /\ [Next]_vars => DrawnOK'
<1> SUFFICES ASSUME TypeOK, DatesOK, DrawnOK, [Next]_vars PROVE DrawnOK'
  OBVIOUS
<1>0. /\ reader \in Reader /\ serial \in Int /\ \A r \in rows : r \in Row /\ r.id <= serial
      /\ \A r \in Shown : r.id \in Int
  BY DEF TypeOK, Reader, Shown, Row
<1>1. ASSUME UNCHANGED <<reader, serial>>, rows' \subseteq rows PROVE DrawnOK'
  BY <1>0, <1>1, RowsChangeDrawn
<1>2. ASSUME NEW w \in Workers, NEW ok \in BOOLEAN, Record(w, ok) PROVE DrawnOK'
  <2>1. PICK row \in Row : rows' = rows \cup {row} /\ row.id = serial + 1
    BY <1>2, RecordDates
  <2>2. serial' = serial + 1 /\ reader' = reader
    BY <1>2 DEF Record
  <2> QED
    BY <1>0, <2>1, <2>2, RowsChangeDrawn
<1>3. ASSUME reader'.kind # "answer", reader'.at = reader.at, reader'.model = reader.model,
             UNCHANGED <<rows, serial>>,
             \A r \in Shown' \ Shown : r \in rows /\ r.of = reader.model /\ r.at >= Since /\ ~r.ok
      PROVE  DrawnOK'
  <2>1. Since' = Since
    BY <1>3 DEF Since, Window
  <2> QED
    BY <1>0, <1>3, <2>1 DEF DrawnOK, ShownOK, CountedFailuresAreDrawn
<1>4. ASSUME reader'.kind # "answer", reader'.failed = {}, reader'.listed = {} PROVE DrawnOK'
  BY <1>4 DEF DrawnOK, ShownOK, CountedFailuresAreDrawn, Shown
<1>5. ASSUME NEW r \in rows \cup {NoRow}, ReadCheck(r) \/ ReadMCPCheck(r) PROVE DrawnOK'
  <2>1. /\ reader'.kind = reader.kind /\ reader.kind # "answer" /\ reader'.at = reader.at
        /\ reader'.model = reader.model /\ reader'.failed = reader.failed
        /\ reader'.listed = reader.listed /\ UNCHANGED <<rows, serial>>
    BY <1>0, <1>5 DEF ReadCheck, ReadMCPCheck, TakeCheck, Reader
  <2>2. Shown' = Shown
    BY <2>1 DEF Shown
  <2> QED
    BY <1>3, <2>1, <2>2
<1>6. CASE ReadKPIs
  <2>1. /\ reader'.kind = "runs" /\ reader'.at = reader.at
        /\ reader'.model = reader.model /\ reader'.failed = Failures
        /\ reader'.listed = reader.listed /\ UNCHANGED <<rows, serial>>
    BY <1>0, <1>6 DEF ReadKPIs, Reader
  <2>2. \A r \in Shown' \ Shown : r \in Failures
    BY <2>1 DEF Shown
  <2> QED
    BY <1>3, <2>1, <2>2 DEF Failures, Samples, Of
<1>7. ASSUME NEW list \in SUBSET rows, ReadRuns(list) PROVE DrawnOK'
  <2>1. /\ reader'.kind = "charts" /\ reader'.at = reader.at
        /\ reader'.model = reader.model /\ reader'.failed = reader.failed
        /\ reader'.listed = list /\ UNCHANGED <<rows, serial>>
    BY <1>0, <1>7 DEF ReadRuns, Reader
  <2>2. \A r \in list : r \in rows /\ r.of = reader.model /\ r.at >= Since
    BY <1>7 DEF ReadRuns, Samples, Of
  <2>3. \A r \in Shown' \ Shown : r \in list /\ ~r.ok
    BY <2>1 DEF Shown
  <2> QED
    BY <1>3, <2>1, <2>2, <2>3
<1>8. CASE EndRequest \/ (\E kind \in {"status", "mcp status"} : AskStatus(kind))
           \/ \E m \in Models : AskDashboard(m)
  <2>1. NoRequest \in Reader /\ NoRequest.failed = {} /\ NoRequest.listed = {}
        /\ NoRequest.kind = "none"
    BY NoRequestTyped DEF NoRequest
  <2>2. reader'.failed = {} /\ reader'.listed = {}
    BY <1>8, <2>1 DEF EndRequest, AskStatus, AskDashboard, Reader
  <2>3. reader'.kind \in {"none", "status", "mcp status", "kpis"}
    BY <1>8, <2>1 DEF EndRequest, AskStatus, AskDashboard, Reader
  <2> QED
    BY <1>4, <2>2, <2>3
<1>9. CASE Read
  <2>1. ASSUME NEW r \in rows \cup {NoRow}, Scrape(r) PROVE DrawnOK'
    BY <1>1, <2>1 DEF Scrape
  <2> QED
    BY <1>5, <1>6, <1>7, <1>8, <1>9, <2>1, ChartDrawsShown DEF Read
<1>10. \/ Read \/ (UNCHANGED <<reader, serial>> /\ rows' \subseteq rows)
       \/ \E w \in Workers, ok \in BOOLEAN : Record(w, ok)
  BY DEF Next, Tick, Write, Ask, RecordCheck, RecordRun, LoseRow, Prune, vars
<1> QED
  BY <1>1, <1>2, <1>9, <1>10

(* Whatever is recorded and deleted while a dashboard is put together, for *)
(* any window, interval and time of the request: each failure that it      *)
(* counts or lists is drawn in the bucket of its time, unless deleted.     *)
THEOREM CountedFailuresAreDrawnAlways == Spec => []CountedFailuresAreDrawn
<1>1. Init => DatesOK /\ DrawnOK
  BY DEF Init, NoRequest, DatesOK, DrawnOK, ShownOK, CountedFailuresAreDrawn, Shown
<1>2. DrawnOK => CountedFailuresAreDrawn
  BY DEF DrawnOK
<1> QED
  BY <1>1, <1>2, InitTyped, NextTyped, NextDatesOK, NextDrawnOK, PTL DEF Spec
=============================================================================
