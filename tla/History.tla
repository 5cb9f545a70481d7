------------------------------ MODULE History ------------------------------
(***************************************************************************)
(* What the tasks put on record - checks of the providers, probe runs of   *)
(* their models - and what is read back while they go on writing: a        *)
(* metrics scrape (api/prometheus.go), the service status                  *)
(* (api/handlers_status.go, mcpserver/handlers.go) and a model's dashboard *)
(* (api/handlers_models.go).                                               *)
(*                                                                         *)
(* A row carries the time its request began and is inserted when the       *)
(* request has ended, so rows of overlapping tasks arrive in another order *)
(* than their times.  A reader takes several queries, each of them a       *)
(* statement of its own that sees the tables as they are then; the         *)
(* retention task may delete between them.                                 *)
(*                                                                         *)
(* HTTP checks and auth checks are recorded, read and folded alike; one    *)
(* kind is modelled.  Of the figures of a run only its success is kept.    *)
(* Which series a task writes one after the other is left open here.       *)
(* Readers do not write, so one at a time shows what each may see.         *)
(***************************************************************************)
EXTENDS Integers, Sequences, FiniteSets

CONSTANTS
    Models,             \* models, one series of probe runs each
    Providers,          \* providers, one series of checks each
    Order,              \* the providers in the order of the configuration
    Followed,           \* the series looked at in the scrapes, any of them
    Workers,            \* goroutines that process queued tasks
    MaxTime,            \* bound on the clock
    MaxRows,            \* bound on the rows ever inserted
    TaskTimeout,        \* the time limit of a task
    Retention,          \* retention.history, 0 when nothing is pruned
    RequestedWindow,    \* the range the browser asks for
    RunLimit,           \* how many runs a dashboard lists
    Interval            \* the chart interval chosen for the window

ASSUME SeriesAssumption ==
    /\ Models \cap Providers = {}
    /\ Order \in Seq(Providers)
    /\ \A i, j \in 1 .. Len(Order) : Order[i] = Order[j] => i = j
    /\ Followed \in Models \cup Providers
ASSUME BoundsAssumption == MaxTime \in Nat \ {0} /\ MaxRows \in Nat
ASSUME WindowAssumption ==
    RequestedWindow \in Nat \ {0} /\ Interval \in Nat \ {0} /\ RunLimit \in Nat \ {0}
ASSUME RetentionAssumption ==
    /\ TaskTimeout \in Nat /\ Retention \in Nat
    /\ Retention > 0 => TaskTimeout <= Retention

VARIABLES
    clock,      \* the wall clock
    rows,       \* http_checks, chat_runs and embedding_runs
    serial,     \* the last id given out
    asked,      \* the request each worker is waiting for
    reader,     \* the API request that is being answered
    scraped     \* history: the time that the last scrape reported of Followed

vars == <<clock, rows, serial, asked, reader, scraped>>

Series == Models \cup Providers
Row == [id : 1 .. MaxRows, of : Series, at : 1 .. MaxTime, ok : BOOLEAN]
NoRow == [id |-> 0, of |-> "none", at |-> 0, ok |-> FALSE]

(* The rows of a series.  Each table has a serial of its own; the order of *)
(* the ids within a series is the same.                                    *)
Of(s) == {r \in rows : r.of = s}

Never == 0
Asked == [of : Series, at : 1 .. MaxTime]
NotAsking == [of |-> "none", at |-> Never]

(* at: the now of a dashboard; next: the provider to read, by its place in *)
(* Order; read: the checks read so far; result: their fold; failed,        *)
(* listed, chart: the failures the KPIs counted, the runs in the list and  *)
(* the failures in the error chart.                                        *)
ReaderKind == {"none", "status", "mcp status", "kpis", "runs", "charts", "answer"}
NoRequest == [kind |-> "none", at |-> Never, next |-> 1, read |-> [p \in Providers |-> NoRow],
              result |-> NoRow, model |-> "none", failed |-> {}, listed |-> {}, chart |-> <<>>]

-----------------------------------------------------------------------------
Init ==
    /\ clock = 1
    /\ rows = {}
    /\ serial = 0
    /\ asked = [w \in Workers |-> NotAsking]
    /\ reader = NoRequest
    /\ scraped = Never

Tick ==
    /\ clock < MaxTime
    /\ clock' = clock + 1
    /\ UNCHANGED <<rows, serial, asked, reader, scraped>>

(* HealthCheck, RunChatStream, RunEmbedding: the clock, then the request. *)
Ask(w, s) ==
    /\ asked[w] = NotAsking
    /\ asked' = [asked EXCEPT ![w] = [of |-> s, at |-> clock]]
    /\ UNCHANGED <<clock, rows, serial, reader, scraped>>

(* The INSERT fails once the task's context has ended.  The task began no  *)
(* later than its request.                                                 *)
ContextAlive(q) == q # NotAsking /\ clock <= q.at + TaskTimeout

(* The record of a request bears the time it began. *)
RowOf(q, id, ok) == [id |-> id, of |-> q.of, at |-> q.at, ok |-> ok]

(* An INSERT of what the request of a worker came to. *)
Record(w, ok) ==
    /\ ContextAlive(asked[w])
    /\ serial < MaxRows
    /\ serial' = serial + 1
    /\ rows' = rows \cup {RowOf(asked[w], serial', ok)}
    /\ asked' = [asked EXCEPT ![w] = NotAsking]
    /\ UNCHANGED <<clock, reader, scraped>>

(* RecordHTTPCheck, RecordAuthCheck *)
RecordCheck(w, ok) == asked[w].of \in Providers /\ Record(w, ok)

(* RecordChatRun, RecordEmbeddingRun *)
RecordRun(w, ok) == asked[w].of \in Models /\ Record(w, ok)

(* The INSERT failed, or the worker died. *)
LoseRow(w) ==
    /\ asked[w] # NotAsking
    /\ asked' = [asked EXCEPT ![w] = NotAsking]
    /\ UNCHANGED <<clock, rows, serial, reader, scraped>>

(* PruneHistoryBefore, in one transaction.  The retention task read now at *)
(* most a time limit ago.                                                  *)
Prune(now) ==
    /\ Retention > 0
    /\ now <= clock /\ clock <= now + TaskTimeout
    /\ rows' = {r \in rows : r.at >= now - Retention}
    /\ UNCHANGED <<clock, serial, asked, reader, scraped>>

-----------------------------------------------------------------------------
(* Readers *)

(* A bug used to validate the checks: the row inserted last is the latest. *)
IsLast(S, r) == IF S = {} THEN r = NoRow ELSE r \in S /\ \A q \in S : q.id <= r.id

(* latestCheck, LatestRunsByModel: a row with the latest time.  Of two     *)
(* runs with the same time the query prefers the one inserted last.        *)
IsLatest(S, r) == IF S = {} THEN r = NoRow ELSE r \in S /\ \A q \in S : q.at <= r.at

(* collectCheck, collectRuns: the time of the row, if there is one. *)
Timestamp(r) == IF r = NoRow THEN Never ELSE r.at

(* Collect, as far as the series followed is concerned.  A scrape          *)
(* queries the latest runs, then provider by provider the latest checks;   *)
(* what it reports of one series does not depend on the others, except     *)
(* that one failed query keeps it from reporting anything.                 *)
Scrape(r) ==
    /\ IsLatest(Of(Followed), r)
    /\ scraped' = Timestamp(r)
    /\ UNCHANGED <<clock, rows, serial, asked, reader>>

AskStatus(kind) ==
    /\ reader.kind = "none"
    /\ reader' = [NoRequest EXCEPT !.kind = kind]
    /\ UNCHANGED <<clock, rows, serial, asked, scraped>>

(* Bugs used to validate the checks: the newer check wins, or the one that *)
(* is OK.                                                                  *)
NewerCheck(current, next) ==
    IF next # NoRow /\ (current = NoRow \/ next.at > current.at) THEN next ELSE current
BetterCheck(current, next) ==
    IF next # NoRow /\ (current = NoRow \/ next.ok) THEN next ELSE current

(* aggregateCheck *)
AggregateCheck(current, next) ==
    CASE next = NoRow -> current
      [] next # NoRow /\ current = NoRow -> next
      [] next # NoRow /\ current # NoRow ->
            IF (~next.ok /\ current.ok) \/ next.at > current.at THEN next ELSE current

(* The check of the next provider is r, and is folded into the result. *)
TakeCheck(r) ==
    /\ reader' = [reader EXCEPT !.next = @ + 1, !.read[Order[reader.next]] = r,
                                !.result = AggregateCheck(@, r)]
    /\ UNCHANGED <<clock, rows, serial, asked, scraped>>

(* providerStatuses: one query per provider.  An error is ignored, and the *)
(* provider has no check then.                                             *)
ReadCheck(r) ==
    /\ reader.kind = "status" /\ reader.next <= Len(Order)
    /\ r = NoRow \/ IsLatest(Of(Order[reader.next]), r)
    /\ TakeCheck(r)

(* latestChecks of the MCP server gives up at an error. *)
ReadMCPCheck(r) ==
    /\ reader.kind = "mcp status" /\ reader.next <= Len(Order)
    /\ IsLatest(Of(Order[reader.next]), r)
    /\ TakeCheck(r)

(* capDashboardWindow *)
Window == IF Retention > 0 /\ RequestedWindow > Retention THEN Retention ELSE RequestedWindow

Since == reader.at - Window

AskDashboard(m) ==
    /\ reader.kind = "none"
    /\ reader' = [NoRequest EXCEPT !.kind = "kpis", !.at = clock, !.model = m]
    /\ UNCHANGED <<clock, rows, serial, asked, scraped>>

(* No request lasts as long as a chart interval, which is at least 30 min. *)
RequestAlive == clock < reader.at + Interval

(* metricSamples: what there is of the model since then. *)
Samples == {r \in Of(reader.model) : r.at >= Since}

(* metricQueryWithModelScope for errors, and the count of kpiSummary. *)
Failures == {r \in Samples : ~r.ok}

(* kpiSummary *)
ReadKPIs ==
    /\ reader.kind = "kpis" /\ RequestAlive
    /\ reader' = [reader EXCEPT !.kind = "runs", !.failed = Failures]
    /\ UNCHANGED <<clock, rows, serial, asked, scraped>>

(* RecentRunsForModel: the newest runs of the window. *)
ReadRuns(list) ==
    /\ reader.kind = "runs" /\ RequestAlive
    /\ list \subseteq Samples
    /\ Cardinality(list) <= RunLimit
    /\ \A r \in Samples \ list : Cardinality(list) = RunLimit /\ \A q \in list : q.at >= r.at
    /\ reader' = [reader EXCEPT !.kind = "charts", !.listed = list]
    /\ UNCHANGED <<clock, rows, serial, asked, scraped>>

(* A bug used to validate the checks: no bucket for the present. *)
FullIntervals == (Window + Interval - 1) \div Interval

(* bucketSamples: the window rounded up, and one more. *)
BucketCount == (Window + Interval - 1) \div Interval + 1

Bucket(r) == (r.at - Since) \div Interval

(* bucketSamples for errors; a run outside the buckets is left out. *)
ErrorChart == [b \in 0 .. BucketCount - 1 |-> {r \in Failures : Bucket(r) = b}]

(* buildModelChart.  If its query fails the answer has the error in the    *)
(* chart's place, which says of the failures as little as no answer.       *)
ReadErrorChart ==
    /\ reader.kind = "charts" /\ RequestAlive
    /\ reader' = [reader EXCEPT !.kind = "answer", !.chart = ErrorChart]
    /\ UNCHANGED <<clock, rows, serial, asked, scraped>>

(* The answer is written, a query failed, or the client has gone. *)
EndRequest ==
    /\ reader.kind # "none"
    /\ reader' = NoRequest
    /\ UNCHANGED <<clock, rows, serial, asked, scraped>>

Write(w) ==
    \/ \E s \in Series : Ask(w, s)
    \/ \E ok \in BOOLEAN : RecordCheck(w, ok) \/ RecordRun(w, ok)
    \/ LoseRow(w)

Read ==
    \/ \E r \in rows \cup {NoRow} : Scrape(r) \/ ReadCheck(r) \/ ReadMCPCheck(r)
    \/ \E kind \in {"status", "mcp status"} : AskStatus(kind)
    \/ \E m \in Models : AskDashboard(m)
    \/ ReadKPIs
    \/ \E list \in SUBSET rows : ReadRuns(list)
    \/ ReadErrorChart
    \/ EndRequest

Next ==
    \/ Tick
    \/ \E w \in Workers : Write(w)
    \/ \E now \in 1 .. MaxTime : Prune(now)
    \/ Read

Spec == Init /\ [][Next]_vars

-----------------------------------------------------------------------------
Reader ==
    [kind : ReaderKind, at : 0 .. MaxTime, next : 1 .. Len(Order) + 1,
     read : [Providers -> Row \cup {NoRow}], result : Row \cup {NoRow},
     model : Models \cup {"none"}, failed : SUBSET Row, listed : SUBSET Row,
     chart : {<<>>} \cup [0 .. BucketCount - 1 -> SUBSET Row]]

(* Every variable has its type; ids are given out once. *)
TypeOK ==
    /\ clock \in 1 .. MaxTime
    /\ rows \subseteq Row
    /\ serial \in 0 .. MaxRows
    /\ \A r \in rows : r.id <= serial
    /\ asked \in [Workers -> Asked \cup {NotAsking}]
    /\ reader \in Reader
    /\ scraped \in 0 .. MaxTime

(* The latest check or probe that scrapes report never runs back: rows     *)
(* that arrive late do not hide newer ones, and a series vanishes only     *)
(* when what was last reported of it has outlived retention.               *)
ScrapesGoForward ==
    [][ \/ scraped' >= scraped
        \/ scraped' = Never /\ Retention > 0 /\ scraped < clock - Retention]_vars

(* buildStatus: whether the service is up. *)
HTTPOK == reader.result # NoRow /\ reader.result.ok

(* A status that says OK hides a failure only behind a newer success: each *)
(* provider read as failing was checked before some provider that follows  *)
(* it in the configuration and is OK.                                      *)
OkHidesOnlyOlderFailures ==
    reader.kind \in {"status", "mcp status"} /\ HTTPOK =>
        \A i \in 1 .. reader.next - 1 :
            LET c == reader.read[Order[i]]
            IN  c # NoRow /\ ~c.ok =>
                    \E j \in i + 1 .. reader.next - 1 :
                        LET d == reader.read[Order[j]] IN d.ok /\ d.at > c.at

(* The parts of one answer agree although they are queried one after the   *)
(* other: each failure that the KPIs count or the list of runs shows is    *)
(* drawn in the error chart, in the bucket of its time, unless retention   *)
(* has deleted the run between.                                            *)
CountedFailuresAreDrawn ==
    reader.kind = "answer" =>
        \A r \in reader.failed \cup {q \in reader.listed : ~q.ok} :
            \/ r \notin rows
            \/ \E b \in DOMAIN reader.chart :
                  /\ r \in reader.chart[b]
                  /\ Since + b * Interval <= r.at /\ r.at < Since + (b + 1) * Interval
=============================================================================
