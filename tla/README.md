# LLM Monitor: TLA+ models, model checking and proofs

LLM Monitor watches LLM providers. It lists their models, probes what each model
can do, checks the providers' health, keeps a history in PostgreSQL, mails people
about models that come and go, and shows it all in a dashboard. Three programs
share the database and a Redis queue (asynq): the **scheduler** enqueues periodic
tasks, the **workers** run them (`worker_concurrency` at once in each process), the
**server** answers the dashboard and enqueues manual checks.

These modules state what that concurrent system guarantees, check it with TLC on
small instances, and prove the most important parts for every instance with TLAPS.
Paths below are relative to `src/internal/` unless they start with `web/`, `docs/`
or `cmd/`.

## 1. Inventory

| Component | State | Operations | Hard behaviour | What makes it correct |
|---|---|---|---|---|
| Model state store (`store/models.go`) | `model_states`, `model_events` | `ProcessModelObservation`, `MarkModelInactive`, `MarkAllModelsInactive`, `RunnableModels`, `InactiveModelsForAlert` | three kinds of transaction overlap; one of them decides from rows it read without a lock | status, `missing_since` and events tell one story; a model is discovered once; an alert means a long absence |
| Spacing of scheduled runs (`store/task_spacing.go`, `schedule/tasks/models/model_runs.go`) | `task_spacing_state` | `ReserveTaskStart`, `waitForScheduledModelSlot` | concurrent reservations, lost answers, time limits, unequal clocks | slots of a provider are spaced, none is wasted, no wait lasts for ever |
| Alert mails (`schedule/tasks/models/alerts.go`, `rules.go`, `store/alerts.go`, `store/retention.go`) | `email_alerts` | look up, send, record; prune | three unlocked steps, crash between them, failed delivery, retention | no recorded mail is sent again; what is recorded is true; a lasting absence is mailed in the end |
| Manual checks (`web/.../useManualChecks.ts`, `api/handlers_manual_checks.go`, `schedule/queue/client.go`) | groups, spinners, polls in the browser; jobs in Redis | click, enqueue, poll, inspect, delete expired | overlapping polls, failed polls, jobs nobody takes, delete racing a worker | polling never stalls, every spinner stops, and not before its jobs ended |
| Snapshot task (`schedule/tasks/models/model_snapshot.go`, `capabilities.go`) | none of its own | list, probe each model, observe, mail | transient probe failures must not change a capability | a model keeps its capability through transient failures |
| HTTP and auth checks, recovery (`schedule/tasks/checks/*`, `schedule/queue/recovery.go`) | `http_checks`, `auth_checks` | read previous, check, record, mark, trigger recovery | previous check stale when compared; failure between record and trigger | each outage that ends triggers a recovery |
| Scheduler (`schedule/queue/scheduler.go`, `cmd/scheduler`) | periodic entries | `GetConfigs` at every sync (30 s by default) | entries depend on the index of a model in a list that changes; syncs fail | runs are kept apart; a sync puts off nothing it need not put off; what stays scheduled comes up |
| Provider token (`auth/provider.go`) | cached token, a mutex held while fetching | `Token`, `Check` | concurrent fetches, also by one task's goroutines; expiry, guessed lifetimes; waiting beyond a time limit | how long a request may outlive its token; waiting is bounded |
| Queue handler, registry (`schedule/queue`, `schedule/runner`) | tasks in Redis | dispatch | asynq's own | each task runs its handler |
| LLM client (`llm/*`) | none | list, chat, stream, embed | limits, partial streams, usage that is not reported | the figures of a probe add up |
| Notifier (`notify/*`) | none | `Send` | delivery fails | external result |
| Metrics scrape, status, model dashboard (`api/*`, `mcpserver/*`, `store/metrics.go`, `store/runs.go`) | none | several read queries for one answer | rows arrive late, retention between two queries, bucket boundaries | what is reported does not run back; a success hides no newer failure; the parts of an answer agree |
| Event log, dashboard front end (`store/events.go`, `web/*`) | events; what is displayed | append, page, reload | none decided from | not modelled (section 6) |
| Configuration, migrations, bootstrap | files, schema | once at start | none | validated before use |

How they interact. The scheduler reads `RunnableModels` and enqueues; workers read
and write the tables; a health check that follows a failed one enqueues recovery
work; the snapshot task writes `model_states` and then mails; the browser sees only
HTTP answers of the server, which looks jobs up in Redis. Nothing is exclusive per
provider: two tasks of one provider run at once whenever two workers are free. All
coordination is what PostgreSQL gives (READ COMMITTED, row locks, unique keys) and
what asynq gives (a task is taken by one worker; `MaxRetry` is 0; a task's context
ends after 60 s, `schedule/queue/options.go`).

`PROJECT.json` lists every component with its files and status, and the hazards,
each at its line.

## 2. The modules

Every module is written from the code it names; `map` in `PROJECT.json` gives the
lines of each definition. A database transaction is split exactly where another
task can get in between. What happens under a row lock, or is invisible until
commit, is one step.

| Module | Models | Kind |
|---|---|---|
| `Presence` | what readers of `model_states` rely on: who is known, who is missing and since when | abstract specification |
| `ModelStates` | `model_states` of one provider under overlapping snapshots and marks | specification, implements `Presence` until tasks overlap |
| `ModelStates_proofs` | its theorems | proofs |
| `SpacedSlots` | what spacing promises: slots of a provider, handed out in order, `Spacing` apart, never taken back | abstract specification |
| `TaskSpacing` | the reservation, the wait, the probe; crashes, time limits, clocks | specification, implements `SpacedSlots` |
| `Alerts` | mails of the snapshot task, `email_alerts`, retention | specification, implements `Presence` |
| `Alerts_proofs` | its theorems | proofs |
| `ManualChecks` | browser, server and queue from click to end of the spinner | specification |
| `TaskStarts_proofs` | the theorems of `TaskSpacing` and of `ManualChecks` | proofs |
| `HealthChecks` | HTTP check tasks, recovery trigger and snapshots of one provider | specification |
| `HealthChecks_proofs` | its theorems | proofs |
| `Detection` | how overlapping snapshots classify models and preserve what they knew | specification |
| `Detection_proofs` | its theorems | proofs |
| `Schedule` | the periodic entries of fixed tasks and runnable models, syncs, restarts | specification |
| `Schedule_proofs` | its theorems | proofs |
| `History` | records of checks and runs, and the scrapes, statuses and dashboards that read them | specification |
| `History_proofs` | its theorems | proofs |
| `ProviderCalls` | a provider's shared token, requests, streams and their figures | specification |
| `ProviderCalls_proofs` | its theorems | proofs |
| `MCModelStates`, `MCTaskSpacing`, `MCAlerts`, `MCManualChecks`, `MCHealthChecks`, `MCDetection`, `MCSchedule`, `MCHistory`, `MCProviderCalls` | instances for TLC: symmetry, small sets | model checking |

### ModelStates and Presence

`row[m]` is a row of `model_states`: capability, who wrote `skip_reason`, status,
`first_seen_at`, `last_seen_at`, `missing_since` (0 is NULL). `task[w]` is what
worker `w` is in the middle of, with the copy of the rows it decided from.

| Action | Code |
|---|---|
| `FinishDetection` | `refreshProviderModels` listed and probed every model and read `now` |
| `LoadModelStates` | `ProcessModelObservation` up to `loadModelStates`: a plain SELECT |
| `CommitObservation` | its four branches, applied to the row that is there now, and the commit. A branch writes only the columns its statement names, so a refresh decided from a stale copy leaves a `missing_since` that a mark wrote meanwhile |
| `StartProbe`, `CommitMark` | `MarkModelInactive` after a probe found the model gone; its time is the probe's `StartedAt` |
| `StartOutage`, `ScanMarkable`, `CommitMark` | `MarkAllModelsInactive`: SELECT ... FOR UPDATE picks rows from its snapshot and tests them again when it holds the lock |
| `Abandon` | rollback, expired context, deadlock, dead worker, duplicate key, or a probe that succeeded |

`NoConflict` is the primary key: an INSERT that finds the row committed by another
snapshot aborts. `ContextAlive` is the 60 s time limit: no transaction commits
after it. `added` and `lastEvent` are history variables over `model_events`.

For any number of workers, however their tasks overlap: `InactiveIsAnnounced`,
`DiscoveredOnce`, `SkipIsNeverMarked`, `AlertMeansLongAbsence`, and the action property
`FirstSeenIsKept` (proved only). `overlapped` is a history variable that remembers
whether two tasks were ever in progress at once; until they were,
`StatusMatchesHistory`, `TimesInOrder`, `AbsenceStartIsKept` (proved only) and
`PresenceUntilOverlap` hold as well. Each of the four is false without that condition.

`Presence` is the table as its readers see it: models that were ever listed, and since
when each has been missing. An observation ends the absences of what it lists and begins
that of a known model it does not list; a mark begins absences; both happen at a time
that is past and not before what is on record. `PresenceUntilOverlap` says that each step
of `ModelStates` is a step of `Presence` or leaves it unchanged, under the mapping
`MissingSince`: `LoadModelStates` and `CommitObservation` together are one observation. It
is stated step by step, since a system in which tasks have overlapped no longer implements
it: a refresh decided from a stale copy can leave the start of an absence on a model it
lists. `AlertMeansLongAbsence` grants the alert the time limit of the tasks in flight: a
refresh that loaded its copy before a mark may commit after it, so a row can show a
sighting up to `TaskTimeout` later than its `missing_since`.

### TaskSpacing and SpacedSlots

`nextAllowed[p]` is the row of key `p` in `task_spacing_state`; `earliest[r]` is
`time.Now()` of the worker that runs `r`, which may be ahead of the true clock by a
member of `Skews`; `reservedAt[r]` is the slot. `Reserve` is the transaction of
`ReserveTaskStart`. The worker may fail to learn the result of a commit: then the
slot is spent and the run has failed. `StartProbe` and `Expire` are the two arms of
the `select` in `waitForScheduledModelSlot`; when both are ready either may win.

`DelayIsQueue` is what the spacing means under load: past the time of the last request up
to its own slot, a run waits one spacing for each run that holds a slot ahead of it and for
nothing else. A run that fails, for its limit or a lost answer, has taken up its one slot and
no more, so the row does not run away from the runs that ask.

`SpacedSlots` has one variable, the set of slots handed out per provider, and one
action. The refinement mapping (`Promise`) takes the slots of all runs that got
one, including those that failed later.

### Alerts

`TakeSnapshot` and `FailInventory` are the effect of a snapshot on presence, in one
step, and the mails it owes; a failed inventory marks whichever known models are not of
the kind no mark touches. `ImplementsPresence` says that these steps are steps of
`Presence`: the mails are about the table that `ModelStates` implements in several steps
and with all its races. `LoadInactive` is `sendInactiveModelAlerts`: the models
of every provider. A mail is three steps, `ConsiderAlert` (look up the key),
`Deliver` (`notifier.Send`, which accepts or fails) and `Record`
(`RecordEmailAlert`, an upsert that replaces failed attempts only); `LoseRecord`
and `Crash` are the failures between them. `Prune` is the retention task on
`email_alerts`. The set `pending` has no order: the code mails in the order of
lists whose order no property depends on. `Retention` is the setting in force; 0 stands
for one shorter than a tick, so rows may go as soon as the clock has moved. (A setting of
0 disables pruning: fewer behaviours.) `delivered` and `acknowledged` are history
variables, what the notifier accepted and what was ever recorded as sent; `overlapped`
is as in `ModelStates`, and `Deduplicated` is about the time before it.

### ManualChecks

A *subject* is what a spinner is about: all checks, or one model. Its button is
disabled while its spinner turns (`StatusHeader.vue`, `ModelInventoryTable.vue`).
`Click` sends the request. `EnqueueAllChecks` and `EnqueueModelCheck` are the server's
calls of `Client.enqueue`, one job after the other under a new id each, while workers
already take the first of them; `ModelSubjects` are the buttons of one model, which get one
job. `RunChecks` answers: with the jobs, or with the error that ended the enqueuing, and
then the jobs enqueued so far stay in the queue though no group follows them.
`StartPoll` asks about the jobs of the groups of that moment; `Inspect` and
`DeleteExpired` are `InspectJobs`, job by job, where a worker may get in between
the look and the delete; `EvaluatePoll` holds the answer against the groups of
*its* moment; `FinishGroups` is what follows the refresh of the dashboard.
asynq's part (`PassDeadline`, `StartJob`, `RejectJob`, `EndJob`, `DropJob`) is
modelled from the options the code sets and marked external where no line of the
repository does it.

### HealthChecks

`up` is the provider, `newest` the outcome in the newest row of `http_checks`,
`active` the status of the provider's models, which outages and listings change
together here (`ModelStates` has the single rows), `queued` the snapshots a recovery
enqueued and no worker has taken.

| Action | Code |
|---|---|
| `ReadPrevious` | `LatestHTTPCheck`; a failed query leaves `previous` nil |
| `BeginRequest`, `Answer` | `HealthCheck` reads the clock first: `checked_at` is the time the request began, so a check that answers late may be recorded behind a newer one |
| `Record` | `RecordHTTPCheck`; what follows depends on the result and on `previous` |
| `MarkAllModelsInactive`, `TriggerModelRecovery` | the two statements after the record |
| `ListModels`, `CommitListing` | the snapshot task: list, then `ProcessModelObservation`, or the mark after a failed listing |
| `Turn`, `ExpireRecovery`, `Abandon` | the provider; the 60 s deadline of enqueued recovery work; any error, which ends the task without a retry |

`later` and `overtaken` order rows by `checked_at` without a clock. `alone` is a
history variable: no other check has run since this one read its predecessor.
`TurnIsNoticed` says that such a check never misses a recovery and never invents
one. Checks that overlap may miss one, and the trigger may fail after the record;
that the models come back all the same (`RecoveryCompletes`) rests on the scheduled
snapshots. `OutageIsMarked` is the converse.

### Detection

`capability` is the column of the row, `newest` the answer `LastRunnableCapabilities`
would give. `task[w]` is a snapshot task: its context (`alive`), what it read as known
before probing, and one goroutine per listed model.

| Action | Code |
|---|---|
| `ListModels`, `LoadKnown`, `FailToLoad` | `refreshProviderModels` up to `detectModels`; a failed query is logged and nothing is known |
| `Acquire`, `GiveUpWaiting` | the two arms of the `select` in `detectModels` |
| `AnswerChat`, `AnswerEmbedding` | `detectChatFirstCapability`; each answer is OK, transient or any other failure |
| `CommitObservation` | the goroutines have ended, `preservedRunnableCapability`, `ProcessModelObservation` |
| `Turn`, `EndContext`, `Abandon` | the model's own behaviour; time limit or shutdown; rollback or a dead worker |

`Preserved` is applied at the commit instead of in the goroutine: both operands are
fixed by then. Two snapshots are not ordered by time in this module, so
`CommitObservation` may or may not become the newest record (`overtaken`); no
property depends on which of two runnable capabilities is newer. `spared` marks, for
the fairness condition only, tasks that nothing will interrupt. `worked` and `refused`
are history variables: what a model has ever served, and whether it ever refused both
requests of one detection. Three ways lead a runnable model to be stored as unknown or
skip (a snapshot that read its capability too early, a failed query, refusals);
`CapabilityComesBack` says that none is permanent.

Two things a reader may not expect, both as `docs/tasks/model-snapshot.md` or a test
has them: a chat model whose chat probe fails for a moment while its embedding probe
succeeds is stored as `embedding`; one transient failure of the two suffices for
`unknown` (the document speaks of both, `capabilities_test.go` and the code of either).

### Schedule

`capability` is what `RunnableModels` reads, `left` maps each registered entry to the
time until it is due; an entry is everything asynq compares: task, interval, delay and
payload. Times are relative, so the state is finite without a bound on the clock.

| Action | Code |
|---|---|
| `CommitModels` | a snapshot or a check changes the table, any models at once |
| `Start`, `Sync` | `GetConfigs` and asynq's manager: entries that are still listed are kept, others removed, new ones wait a whole interval; a sync that cannot read the models changes nothing |
| `Tick`, `Enqueue` | time; an entry that is due enqueues its task and waits again |
| `Stop` | the scheduler ends: its entries are in its memory |

`ModelInterval` is the choice among the overrides, exact model before pattern, the
first of each; an override is given by the models it is about. `NextCheck` is what
`modelRunNextChecks` shows in the dashboard, and is what `NextRunsComeNearer` is about.
The manager that removes and adds entries is asynq's, external, modelled from the
configuration it is given.

### History

A row carries the time its request began and arrives when the request has ended, at most
a task's time limit later. A reader takes several queries, each of which sees the tables
as they are then.

| Action | Code |
|---|---|
| `Ask`, `RecordCheck`, `RecordRun`, `LoseRow` | a check or a probe: the clock, the request, the INSERT or its failure |
| `Prune` | `PruneHistoryBefore`, with a `now` up to a time limit old |
| `Scrape` | the Prometheus collector's latest run or check of the series followed |
| `AskStatus`, `ReadCheck`, `ReadMCPCheck` | the status of the API and of the MCP server: one query per provider, folded by `AggregateCheck`; the API takes a failed query for no check, the MCP server gives up |
| `AskDashboard`, `ReadKPIs`, `ReadRuns`, `ReadErrorChart` | a model's dashboard: the window of the request, then KPIs, runs and error chart one after the other |
| `EndRequest` | the answer is written, or the request has failed |

`RequestAlive` says that an answer takes less time than a chart interval (30 minutes at
least); without it a run recorded while the answer is made could lie after the last
bucket. `WindowAssumption` and `RetentionAssumption` are what the API and the
configuration ensure.

### ProviderCalls

A caller is a goroutine that calls the provider: a task's own, or one of the up to
`max_concurrency` goroutines with which a snapshot probes models (`detectModels`).
`TaskOf` says whose it is; callers of one task have the task's time limit (`Limits`).
`token` is the provider's cache, `line` the callers at its mutex (the first holds it),
`call[w]` what a caller is doing: its task's limit, the call in progress, the token it
carries and the stream so far; `result[w]` is the figures its last call returned, if it
read a stream. What other calls return is not told apart.

| Action | Code |
|---|---|
| `BeginCaller`, `BeginCall`, `EndCaller` | a task begins, or one more of its goroutines gets a place; it makes one call after the other, even when the task's time is up |
| `UseCached`, `Fetch` | `Token` with a token whose end is more than the skew away, or without; `Check` always fetches |
| `Issue`, `ReceiveToken`, `FailFetch` | the endpoint issues a token; it is received within the fetch's time limit; any failure |
| `ReceiveAnswer` | a request with its retries, which share a token and a time limit |
| `OpenStream`, `ReadContent`, `EndStream`, `BreakStream` | `RunChatStream` and `parseChatStream` |

`Urgent` keeps the clock from passing a limit before what it limits has ended: Go ends a
request at the context or the client's timeout, whichever is earlier. The mutex is not
such a wait.

A token has a real life and an announced one. They are the same when the endpoint sends
`expires_in`; when it does not, the program takes 300 s (`provider.go:225`) and the real
life may be any. Nothing is assumed of the skew: `config/validation.go` asks for no
relation between it and the timeouts. `TokensCoverRequests` therefore says by how much a
request may outlive its token. A new token can end early only if its life is shorter than
a fetch and a request. A cached one can end early by what a fetch and a request exceed the
skew, plus what the guess exceeds the life. With the defaults (fetch 10 s, request and skew
30 s each) that is less than 10 s when the life was told. `ToldTokensLast` is the case in
which nothing is left open: a skew that allows for both. A request here lasts until the
headers of its answer; a stream no longer needs the token.

A stream that ends without `[DONE]` counts as complete, as in the code.

## 3. What the runs check

| Run | Instance | Shows |
|---|---|---|
| `model_states` | 1 model, 2 workers, clock to 4, time limit 1, alert after 2, capabilities chat and skip | what survives overlap; until tasks overlap, rows tell one story and the table is refined from `Presence` |
| `task_spacing` | 3 runs of one provider, clocks up to 1 ahead, spacing 2, clock to 5, fair | spacing, no wait but for runs ahead, every wait ends, refinement of `SpacedSlots` |
| `alerts` | 1 model, 2 workers, clock to 3, retention below a tick | the table is true and a success sticks; no recorded mail is repeated until tasks overlap |
| `alerts_retry` | 1 model, 1 worker, clock to 3, fair | a lasting absence is mailed and recorded in the end |
| `health_checks` | 2 workers, 1 queued recovery, fair | a lone check never misses a recovery; models follow the provider in the end |
| `detection` | 1 model that serves or refuses all requests, 2 workers, fair | stored capabilities were seen; a known one comes back |
| `manual_checks` | 2 subjects, 2 jobs, 2 polls in flight, 1 failed poll, fair | polling goes on, spinners stop, answers are read right |
| `manual_checks_overlap` | 2 subjects, 2 jobs, 1 poll in flight | a group is finished before its jobs are (finding 1) |
| `schedule` | 2 models and the snapshot task, intervals 3 and 5, sync every 2, fair | entries are apart, next runs only come nearer, what stays scheduled comes up |
| `schedule_restarts` | the same | a runnable model that is never run (finding 2) |
| `history` | 1 model and 2 providers, 2 rows, 2 workers, 1 reader, clock to 4, retention 2, window 3, interval 2 | scrapes, statuses and dashboards while rows arrive and go |
| `provider_calls` | checks, and a snapshot with two goroutines (a chat, an embedding); clock to 4, task limit 2, timeouts and skew 1, life 2, guess 3, up to 3 tokens of a stream | how far requests outlive tokens, calls end in time, figures add up |

Bounds, and why they are enough. `MaxTime` bounds the clock: it is large enough for a model
to be discovered, go missing, pass the alert threshold and return, and for an old task to
commit after a newer one. Rows of different models never influence each other (each
statement names one row), so one model suffices. Two workers show every pairwise race; the
theorems cover any number. `Detections` is the set of capabilities probing may find: `chat`
stands for both runnable ones, `skip` for those no mark may touch. `Skews` bounds how far
clocks differ: 1 is half the spacing, which is enough for an earlier reservation to have a
later `earliest`. Three runs let one wait for two, with a time limit that the first wait
already exceeds; runs of different providers share no row. `Jobs` are the ids asynq hands
out, in their order: two let a group have two jobs, or two groups one each, and deleting and
running them race. `Polls` bounds overlapping polls; it takes two for one poll to act on
what the other has already finished. `MaxFailures` bounds polls without an answer, so that
`SpinnerStops` asks of polling only that it fails finitely often. `StartTask` of
`TaskSpacing` is enabled only while the bounded clock leaves room to see the time limit
pass.

`MaxQueued` bounds recovery snapshots in the queue; scheduled ones are not counted,
so one is enough for a recovery to be waiting, taken or expired.

`Refusals` bounds which requests a model refuses; answering all and refusing all is
enough for each conclusion to occur, since a model may change in the middle of a detection.
With one model the semaphore is never full; goroutines of one task share nothing
else, and the theorems hold for any number of models and any `MaxConcurrency`.

`Schedule` needs no bound: intervals, delays and the sync interval are small and their
ratios are what matters (an interval longer and shorter than a sync, a delay at most an
interval). Two models let one be listed behind the other.

`MaxRows` bounds the rows ever inserted: two let a late row meet a newer one, a failure
and a success of different providers, or a run inside the window and one outside it. One
series is followed in the scrapes; which one it is makes no difference. `Retention` 2 is
shorter than the requested window, so that the cap applies, and rows are deleted while
they are read. The window is no multiple of the interval.

In `ProviderCalls` three callers let one wait past its task's limit for two fetches, one of
them by a goroutine of its own task: a bound that counts tasks fails here. The skew equals
the request's timeout, as in the defaults, and falls short of a fetch and a request; a token
whose life is guessed is used from the cache until it has ended. Lives shorter than a fetch
and a request are left to the theorem. Three tokens of a stream give two gaps. `Usages` has
a count of 0 and one that differs from the chunks.

Deadlock. `TaskSpacing` ends when all runs are over; `ManualChecks` when all jobs
are used up and everything is idle: `CHECK_DEADLOCK FALSE` there. The other runs
check it.

Fairness, and where the code justifies it.
*TaskSpacing*: time passes, a database call returns with or without success (pgx
ends it with the context), and one of the two arms of the `select` fires. Nothing
is assumed of workers taking tasks.
*Alerts*: weak fairness for a started task to go on (the code has no wait without a
time limit). Strong fairness for snapshots (the scheduler enqueues them for ever)
and for each thing that may fail to succeed when tried again and again; without that
no retry can succeed. `LongAbsenceIsReported` is about one worker: with more the
same retries happen.
*HealthChecks*: a started task goes on; checks and snapshots are scheduled for ever
and their steps succeed again and again in one worker or another (strong fairness).
Nothing is assumed of the trigger or of the recovery work it enqueues.
*Detection*: a started task goes on (every request ends with the context) and again
and again a snapshot lists every model and meets no failure other than those of the
probes themselves: the schedule never ends and outages do.
*Schedule*: the scheduler is started again, its clock goes on, what is due is enqueued
and syncs take place (weak fairness), and again and again one of them can read the models
(strong fairness).
*ManualChecks*: HTTP requests end, browser timers fire, deadlines pass and a running
handler ends with its context. No worker is assumed to take a job: the property
must hold with the workers down, and it is the expiry in `InspectJobs` that makes it so.

Each property was also checked against a version of the model with a plausible
defect (the definitions marked "A bug used to validate the checks"); `mutants` in
`PROJECT.json` pairs them, and TLC refutes the property in each case.

## 4. What is proved

Proved for every value of the constants, under the assumptions in the modules
(times are naturals, spacing is positive, detections are capabilities, each run has
a provider, the list of models is a list, the callers are finitely many). Bounds such as
`MaxTime` are constants like any other: the theorems hold whatever their value.

`ModelStates_proofs`: `TypeCorrect`, `DiscoveredOnceAlways`,
`InactiveIsAnnouncedAlways`, `SkipIsNeverMarkedAlways`, `FirstSeenIsKeptAlways`,
`SightingInvAlways`, `AlertMeansLongAbsenceAlways`. The first five are
inductive together with the type invariant: although a snapshot decides from a stale copy,
each row it writes is consistent by itself. `AlertMeansLongAbsence` is not. Its
inductive invariant `SightingInv` relates a worker's stale copy to the current
table: if a copy shows a row present that is now missing, the worker read its
clock at most one time limit after the absence began (`StaleLoadIsRecent`), because
it would otherwise have lost its context before the mark it overtook. With that, a
refresh cannot write a sighting more than one time limit past `missing_since`
(`SightedBeforeGone`), and the query's threshold gives the claim.
`StatusMatchesHistoryAlways`, `TimesInOrderAlways` and `AbsenceStartIsKeptAlways` rest on
`AloneInv` (`AloneInvAlways`): until two tasks overlap, the one in progress decides from
the rows that are still there (`CopyIsCurrent`) and reads its clock after all that is on
record, absences included (`RowsPrecedeTask`); then each row tells its own story (`StoryOf`).
`PresenceUntilOverlapAlways` is the refinement, with the same invariant: the four branches
of a snapshot exclude each other (`ObservedBranches`), and with a current copy they are the
three cases of `Observe` (`AloneObserves`); a mark is a `Miss` (`AloneMisses`); both are
`InOrder`, since the task read its clock last (`AloneInOrder`). Every other action leaves
the mapped table alone.

`TaskStarts_proofs`, of `TaskSpacing`: `SpacingTypeCorrect`, `SpacingInvAlways`,
`SlotsAreSpacedAlways`, `NoIdleSlotAlways`, `DelayIsQueueAlways` and `SpacingRefines`
(`SpacingSpec => ImplementsSpacedSlots`). The inductive invariant `SpacingInv` says that a
key's row is ahead of every slot given out under it, and exactly one spacing past one
of them; the first gives spacing, the second gives that no slot is idle, both
together make every `Reserve` a step of `SpacedSlots` and every other action a stutter.
`DelayIsQueue` is proved for any time `t` that the requests up to a run's slot do not exceed
(`QueueSince`): a new slot past `t` lies one spacing past that of another run, and the queue
of the new run is the queue of that one and the run itself (`JoinsQueue`); a slot handed out
behind all others changes no other queue (`SameQueue`).

`TaskStarts_proofs`, of `ManualChecks`: `ManualInvAlways`, `ManualTypeCorrect`,
`PollingGoesOnAlways`, `ExpiredNeverRanAlways`, `AskedMeansDoneAlways`, for any number of
spinners, jobs, polls in flight and failures. None of the last three follows from the types
alone. `PollingGoesOn` could fail where a poll ends the last group it knows while another group
comes in; it holds because `finally` looks at the groups of that moment, and its proof
needs that a group is in one phase at a time (`OnePhase`): its request, its place among the
pending groups, or the end found for it by exactly one poll. The second part of that, that
a tracked group has jobs, is what keeps `StartPoll` from returning early while something is
pending. `ExpiredNeverRan` needs that a job about to be deleted is past its deadline or
over and was never run (`TrueAnswer`), although a worker may reject it meanwhile, and that
whatever has not been started has not been run (`OnlyStartedRan`). `AskedMeansDone` needs
that what a poll was told of a job stays true after it was told: jobs only move on
(`JobsMoveOn`), so an answer that ended is still so when the poll is evaluated.

`HealthChecks_proofs`: `HealthTypeCorrect`, `AloneIsCurrentAlways` and
`TurnIsNoticedAlways`. `TurnIsNoticed` is about one step, and not every typed state
allows only steps that satisfy it: it needs `AloneIsCurrent`, that a check which is
alone still knows the newest row and is not overtaken. That in turn needs the last
part of `TypeOK`: nobody waits for a check that is not in flight, or a new check of
the same worker would be overtaken by its own past.

`Detection_proofs`: `DetectionInvAlways`, `DetectionTypeCorrect`,
`SkipWasRefusedAlways`, `RunnableHasWorkedAlways`. The inductive invariant
`DetectionInv` follows a capability through the places it passes: whatever a
goroutine concluded, a task took for known, or the tables have as newest was once
served, and a conclusion to skip is a refusal unless the task's context has ended, and
then it is never committed.

`Alerts_proofs`: `TypeCorrect`, `SentIsDeliveredAlways`, `SuccessSticksAlways`,
`DeduplicatedAlways`, `AlertsFollowPresence`. The first three need that a worker which
records a success has delivered its mail, and that a row which is there belongs to the state
it describes. The fourth needs `DedupOK`, until two tasks overlap: what was ever recorded as
sent still is, or is *over* - its time has passed and the absence it reports has ended; what
a task has in hand is not over, and an event in hand was never recorded, since events carry
the time of the snapshot that met them. A task that finds no record of a key in hand may
therefore send it. Retention removes only what is over: the row it deletes was written no
earlier than the event and before the present, and no absence in progress loses its row.
`AlertsFollowPresence` is the refinement of `Presence`, for any number of workers: absences
lie in the past, so the present is never before what is on record.

`Schedule_proofs`: `TypeCorrect`, `EntriesAreApartAlways`, `NextRunsComeNearerAlways`. The
inductive invariant is that what is registered is what the last sync saw (`RegisteredOK`);
the rest is about the list: places in it are counts of predecessors, which are strictly
nested, so two runnable models never have the same (`IndexFacts`), and a model whose
predecessors stay keeps its schedule (`SteadyConfig`).

`History_proofs`: `TypeCorrect`, `ScrapesGoForwardAlways`,
`OkHidesOnlyOlderFailuresAlways`, `CountedFailuresAreDrawnAlways`. A scrape never runs back
because the row it reported stays until retention takes it (`ScrapedOK`). The fold of the
status keeps a success over a failure only if it is newer, and `FoldOK` says so of each
prefix of the providers. `DrawnOK` says that a failure counted or listed earlier is in the
chart or has been deleted; the arithmetic is that a run of the window, recorded before the
request ends, falls into one of the buckets.

`ProviderCalls_proofs`: `TypeCorrect`, `TokensCoverRequestsAlways`, `ToldTokensLastAlways`,
`CallsEndInTimeAlways`, `FiguresAddUpAlways`. The callers who wait or fetch stand in the
line, once each, and nobody else does (`LineOK`, part of the first theorem). A token is
received within a fetch's time limit, so the cached one is reckoned to end at most that much
too late, and a request was sent with a new token or with one thought to last for the skew
(`TokensOK`); no relation between the times is assumed. `ToldTokensLastAlways` has its
condition, a skew that allows for a fetch and a request, in its statement. A call that waits
has at most all other callers before it, each for at most one fetch. The figures need the
sums of a stream: gaps add up to the time from the first to the last token.

Every safety and action property that a passing run checks is stated by one of these
theorems. Model-checked only: liveness (`EveryWaitEnds`, `LongAbsenceIsReported`,
`OutageIsMarked`, `RecoveryCompletes`, `CapabilityComesBack`, `SteadyTasksComeUp`,
`SpinnerStops`), which rests on fairness and ENABLED and is out of the prover's reach.

## 5. Findings

1. *Finished too early* (`manual_checks_overlap`). An answer of a poll is held
   against groups added after it was asked; jobs it does not mention count as
   finished, so the spinner of a new check stops while its jobs still run.
2. *Never run* (`schedule_restarts`). A model's delay is its place in the list, and the
   delay is part of what asynq compares. A model behind one that comes and goes gets a
   new entry, and a whole interval to wait, each time; `docs/tasks/model-runs.md` says that
   every runnable model is enqueued at its interval.

Known, and no run of their own:

- Overlapping snapshots that both see a model missing both report its return, under two
  keys, since a key contains the observation's time. Overlapping tasks may both look up one
  alert key before either records it, and mail it twice. A mark that commits between a
  snapshot's read and its commit may leave an active row with `missing_since`. `~overlapped`
  excludes these in the properties that would meet them.
- `auth/provider.go:133` says that `Token` "returns a cached access token or refreshes it
  before it expires". Without `expires_in` the end is a guess, and a token that has ended
  earlier is handed out until the guess less the skew. With the default skew and timeouts a
  token whose life was told may end while its request is still being retried.
  `TokensCoverRequests` bounds both.

## 6. Not modelled

- *Text and transport*: parsing of provider answers and of the lines of a stream, HTTP
  routing, endpoints, headers, building of mails, event texts, logging.
- *Single queries*: percentiles, sums, the performance ranking, inventory counts averaged
  over providers, and the MCP tools that hand them out. One statement computes each; there
  is no step or state to interleave. The charts other than that of errors use its buckets.
- *The event log and its pages* (`store/events.go`, `useModelEvents.ts`): append-only, and
  nothing decides from it; `ModelStates` keeps a model's last event.
- *Dashboard display and reload*, *migrations, connection, bootstrap*: once at start, or
  without a promise to check. The configuration is the modules' constants.
- *Pauses between retries* of a request, static tokens: no state.
- *Retention of snapshots and events*: left out of `Detection`, where each observation that
  preserves a capability records it anew, and of `ModelStates`.
- `excluded` in `model_states` is set by no code; the in-process model plan is written and
  never read by a decision. `MaxRetry` is 0: no task is retried by the queue.
- *Several providers in one task*: a storage error for one ends the checks of those after it.
  `HealthChecks` and `Detection` follow one provider.
- asynq, PostgreSQL and the mail server are modelled only by what the code relies on.

## 7. Plan

What is left, in order of importance.

1. `Schedule` composed with `TaskSpacing`: whether the delays of a provider's entries keep
   its runs within their time limits, and for how many models.
2. Several providers in one task, for `HealthChecks`.

## 8. Running

    tlc -workers 2 -config ModelStates.cfg MCModelStates
    tlc -workers 2 -config History.cfg MCHistory
    tlapm ModelStates_proofs.tla
    tlapm TaskStarts_proofs.tla
