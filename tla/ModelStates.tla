---------------------------- MODULE ModelStates ----------------------------
(***************************************************************************)
(* The model_states table of one provider and the three transactions that  *)
(* write it (internal/store/models.go):                                    *)
(*                                                                         *)
(*   ProcessModelObservation  records an inventory snapshot: it loads the  *)
(*        rows with a plain SELECT and decides from that copy what to      *)
(*        write, then commits;                                             *)
(*   MarkModelInactive        one model, after a probe said it is gone;    *)
(*   MarkAllModelsInactive    every model of the provider, after a failed  *)
(*        health check or a failed inventory request.                      *)
(*                                                                         *)
(* asynq runs worker_concurrency tasks at once in every worker process and *)
(* nothing makes tasks of one provider exclusive, so these transactions    *)
(* interleave.  PostgreSQL runs them READ COMMITTED: every statement sees  *)
(* what was committed when it started, an UPDATE or SELECT ... FOR UPDATE  *)
(* waits for the other transaction's row lock and then works on the newest *)
(* committed row, and locks last until commit.  Hence the writes of a      *)
(* transaction are one step (they are invisible before the commit and      *)
(* nobody else can touch a written row before it), while what it decided   *)
(* from was read in an earlier step.                                       *)
(*                                                                         *)
(* Times are positive integers, NULL is 0.  The column excluded is left    *)
(* out (no code sets it to true) and so are last_probe_at, metadata and    *)
(* the texts of events.  skip_reason is kept as who wrote it.              *)
(***************************************************************************)
EXTENDS Integers

CONSTANTS
    Models,             \* model ids of the provider
    Workers,            \* goroutines that process queued tasks
    Detections,         \* capabilities that probing may find (a bound)
    MaxTime,            \* bound on the clock
    TaskTimeout,        \* asynq's Timeout option: the task's context lives so long
    AbsenceAlertAfter   \* models.absence_alert_after

Capability == {"chat", "embedding", "skip", "unknown"}
Runnable == {"chat", "embedding"}

ASSUME DetectionsAssumption == Detections \subseteq Capability
ASSUME TimesAssumption == /\ MaxTime \in Nat
                          /\ TaskTimeout \in Nat
                          /\ AbsenceAlertAfter \in Nat

VARIABLES
    clock,      \* the wall clock the workers share
    known,      \* models that have a row
    row,        \* the rows; row[m] means nothing while m is not known
    task,       \* what each worker is doing
    added,      \* history: number of "added" events of a model
    lastEvent,  \* history: its latest added, returned or inactive event
    overlapped  \* history: two tasks have been in progress at once

vars == <<clock, known, row, task, added, lastEvent, overlapped>>

-----------------------------------------------------------------------------
(* Data *)

NULL == 0
Status == {"active", "inactive"}
Reason == {"none", "detection", "mark"}
Absent == "absent"

Row == [cap : Capability, reason : Reason, status : Status,
        first : Nat, last : Nat, missing : Nat]

BlankRow == [cap |-> "unknown", reason |-> "none", status |-> "active",
             first |-> NULL, last |-> NULL, missing |-> NULL]

TaskKind == {"idle", "observed", "loaded", "probed", "failed", "scanned"}

(* listing: the capability found for each listed model; loaded, loadedRow: *)
(* the copy of the rows; targets: the rows a mark will touch.              *)
Task == [kind : TaskKind, at : Nat, listing : [Models -> Detections \cup {Absent}],
         loaded : SUBSET Models, loadedRow : [Models -> Row], targets : SUBSET Models]

Idle == [kind |-> "idle", at |-> NULL, listing |-> [m \in Models |-> Absent],
         loaded |-> {}, loadedRow |-> [m \in Models |-> BlankRow], targets |-> {}]

(* The context of a task that read the clock at t.at still allows a commit. *)
ContextAlive(t) == clock <= t.at + TaskTimeout

(* store.InactiveModelsForAlert at time now. *)
InactiveModelsForAlert(now) ==
    {m \in known : /\ row[m].status = "inactive"
                   /\ row[m].missing # NULL
                   /\ row[m].missing <= now - AbsenceAlertAfter}

-----------------------------------------------------------------------------
(* What the transactions write *)

(* A bug used to validate the checks: the status an older release wrote. *)
LegacyMarked(r, at) ==
    [r EXCEPT !.status = "missing", !.reason = "mark",
              !.missing = IF @ = NULL THEN at ELSE @]

(* A bug used to validate the checks: missing_since is not written. *)
MarkedWithoutSince(r, at) == [r EXCEPT !.status = "inactive", !.reason = "mark"]

(* markModelStateInactive: missing_since = COALESCE(missing_since, at). *)
MarkedRow(r, at) ==
    [r EXCEPT !.status = "inactive", !.reason = "mark",
              !.missing = IF @ = NULL THEN at ELSE @]

(* The test of both Mark transactions on the locked row. *)
UncheckedMarkable(r) == r.status # "inactive"
Markable(r) == r.status # "inactive" /\ r.cap # "skip"

DetectionReason(cap) == IF cap \in Runnable THEN "none" ELSE "detection"

InsertedRow(cap, at) ==
    [cap |-> cap, reason |-> DetectionReason(cap), status |-> "active",
     first |-> at, last |-> at, missing |-> NULL]

(* A bug used to validate the checks: the upsert also resets first_seen. *)
UpsertedRow(r, cap, at) ==
    [r EXCEPT !.cap = cap, !.reason = DetectionReason(cap), !.status = "active",
              !.first = at, !.last = at]

(* The default branch: the UPDATE does not mention missing_since. *)
RefreshedRow(r, cap, at) ==
    [r EXCEPT !.cap = cap, !.reason = DetectionReason(cap), !.status = "active",
              !.last = at]

(* A bug used to validate the checks: missing_since is kept on a return. *)
ReturnedStillMissing(r, cap, at) == RefreshedRow(r, cap, at)

ReturnedRow(r, cap, at) == [RefreshedRow(r, cap, at) EXCEPT !.missing = NULL]

DisappearedRow(r, at) == [r EXCEPT !.status = "inactive", !.missing = at]

-----------------------------------------------------------------------------
(* The branches of ProcessModelObservation, decided from the loaded copy *)

Seen(t) == {m \in Models : t.listing[m] # Absent}
Fresh(t) == Seen(t) \ t.loaded
Returning(t) == {m \in Seen(t) \cap t.loaded : t.loadedRow[m].missing # NULL}
Refreshed(t) == (Seen(t) \cap t.loaded) \ Returning(t)

(* A bug used to validate the checks: rows already inactive are rewritten. *)
AllUnseen(t) == t.loaded \ Seen(t)

Disappeared(t) ==
    {m \in t.loaded \ Seen(t) : /\ t.loadedRow[m].missing = NULL
                                /\ t.loadedRow[m].status # "inactive"}

ObservedRow(t, m) ==
    CASE m \in Fresh(t)       -> InsertedRow(t.listing[m], t.at)
      [] m \in Returning(t)   -> ReturnedRow(row[m], t.listing[m], t.at)
      [] m \in Refreshed(t)   -> RefreshedRow(row[m], t.listing[m], t.at)
      [] m \in Disappeared(t) -> DisappearedRow(row[m], t.at)
      [] OTHER                -> row[m]

(* added, returned and inactive are the lifecycle events; the fourth type, *)
(* capability_changed, says nothing about presence and is left out.        *)
ObservedEvent(t, m) ==
    CASE m \in Fresh(t)       -> "added"
      [] m \in Returning(t)   -> "returned"
      [] m \in Disappeared(t) -> "inactive"
      [] OTHER                -> lastEvent[m]

(* A bug used to validate the checks: INSERT ... ON CONFLICT DO UPDATE. *)
NeverConflicts(t) == TRUE

(* No concurrent transaction inserted a row this one is about to insert:   *)
(* the primary key of model_states would abort the later INSERT.           *)
NoConflict(t) == Fresh(t) \cap known = {}

-----------------------------------------------------------------------------
(* Actions *)

Init ==
    /\ clock = 1
    /\ known = {}
    /\ row = [m \in Models |-> BlankRow]
    /\ task = [w \in Workers |-> Idle]
    /\ added = [m \in Models |-> 0]
    /\ lastEvent = [m \in Models |-> "none"]
    /\ overlapped = FALSE

Tick ==
    /\ clock < MaxTime
    /\ clock' = clock + 1
    /\ UNCHANGED <<known, row, task, added, lastEvent>>

(* refreshProviderModels: the listing arrived, every listed model was      *)
(* probed, and now := time.Now() is read before the transaction begins.    *)
FinishDetection(w) ==
    /\ task[w].kind = "idle"
    /\ \E listing \in [Models -> Detections \cup {Absent}] :
         task' = [task EXCEPT ![w] = [Idle EXCEPT !.kind = "observed", !.at = clock,
                                                  !.listing = listing]]
    /\ UNCHANGED <<clock, known, row, added, lastEvent>>

(* ProcessModelObservation up to loadModelStates, which takes no lock. *)
LoadModelStates(w) ==
    /\ task[w].kind = "observed"
    /\ ContextAlive(task[w])
    /\ task' = [task EXCEPT ![w].kind = "loaded", ![w].loaded = known,
                            ![w].loadedRow = row]
    /\ UNCHANGED <<clock, known, row, added, lastEvent>>

(* The writes and the commit of ProcessModelObservation. *)
CommitObservation(w) ==
    LET t == task[w]
    IN  /\ t.kind = "loaded"
        /\ ContextAlive(t)
        /\ NoConflict(t)
        /\ known' = known \cup Fresh(t)
        /\ row' = [m \in Models |-> ObservedRow(t, m)]
        /\ added' = [m \in Models |-> IF m \in Fresh(t) THEN added[m] + 1 ELSE added[m]]
        /\ lastEvent' = [m \in Models |-> ObservedEvent(t, m)]
        /\ task' = [task EXCEPT ![w] = Idle]
        /\ UNCHANGED clock

(* A probe of m starts, perhaps long after it was queued.  A later mark    *)
(* uses its StartedAt.                                                     *)
StartProbe(w, m) ==
    /\ task[w].kind = "idle"
    /\ task' = [task EXCEPT ![w] = [Idle EXCEPT !.kind = "probed", !.at = clock,
                                                !.targets = {m}]]
    /\ UNCHANGED <<clock, known, row, added, lastEvent>>

(* A health check starts (its CheckedAt), or an inventory request failed.  *)
(* A check or probe that succeeds ends as Abandon: it writes no row.       *)
StartOutage(w) ==
    /\ task[w].kind = "idle"
    /\ task' = [task EXCEPT ![w] = [Idle EXCEPT !.kind = "failed", !.at = clock]]
    /\ UNCHANGED <<clock, known, row, added, lastEvent>>

(* MarkAllModelsInactive's SELECT picks rows in the snapshot it sees ...   *)
ScanMarkable(w) ==
    /\ task[w].kind = "failed"
    /\ ContextAlive(task[w])
    /\ task' = [task EXCEPT ![w].kind = "scanned",
                            ![w].targets = {m \in known : Markable(row[m])}]
    /\ UNCHANGED <<clock, known, row, added, lastEvent>>

(* A bug used to validate the checks: the scan's rows are marked unlocked. *)
MarkStale(t) == {m \in t.targets \cap known : UncheckedMarkable(row[m])}

(* ... and FOR UPDATE tests the condition again on each locked row;        *)
(* MarkModelInactive locks its one row and makes the same test in Go.      *)
MarkNow(t) == {m \in t.targets \cap known : Markable(row[m])}

CommitMark(w) ==
    LET t == task[w]
    IN  /\ t.kind \in {"probed", "scanned"}
        /\ ContextAlive(t)
        /\ row' = [m \in Models |-> IF m \in MarkNow(t) THEN MarkedRow(row[m], t.at)
                                                        ELSE row[m]]
        /\ lastEvent' = [m \in Models |-> IF m \in MarkNow(t) THEN "inactive"
                                                             ELSE lastEvent[m]]
        /\ task' = [task EXCEPT ![w] = Idle]
        /\ UNCHANGED <<clock, known, added>>

(* The transaction rolls back (expired context, lost connection, deadlock, *)
(* duplicate key), the worker dies, or the probe or check succeeded.  The  *)
(* task is not retried: MaxRetry is 0.                                     *)
Abandon(w) ==
    /\ task[w].kind # "idle"
    /\ task' = [task EXCEPT ![w] = Idle]
    /\ UNCHANGED <<clock, known, row, added, lastEvent>>

Step(w) ==
    \/ FinishDetection(w)
    \/ LoadModelStates(w)
    \/ CommitObservation(w)
    \/ \E m \in Models : StartProbe(w, m)
    \/ StartOutage(w)
    \/ ScanMarkable(w)
    \/ CommitMark(w)
    \/ Abandon(w)

OneAtATime == \A v, w \in Workers : task[v].kind = "idle" \/ task[w].kind = "idle" \/ v = w

Next ==
    /\ Tick \/ \E w \in Workers : Step(w)
    /\ overlapped' = (overlapped \/ ~OneAtATime')

Spec == Init /\ [][Next]_vars

-----------------------------------------------------------------------------
(* Properties that hold for any number of workers *)

(* Every variable has its type; a running task has read a real clock. *)
TypeOK ==
    /\ clock \in Nat \ {0}
    /\ known \in SUBSET Models
    /\ row \in [Models -> Row]
    /\ task \in [Workers -> Task]
    /\ \A w \in Workers : task[w].kind # "idle" => task[w].at # NULL
    /\ added \in [Models -> Nat]
    /\ lastEvent \in [Models -> {"none", "added", "returned", "inactive"}]
    /\ overlapped \in BOOLEAN

(* A row is never inactive without the time of its absence and an inactive *)
(* event as the model's latest lifecycle event, whatever interleaving of   *)
(* snapshots and marks wrote it: a row without missing_since would escape  *)
(* InactiveModelsForAlert forever.                                         *)
InactiveIsAnnounced ==
    \A m \in known : row[m].status = "inactive" =>
        row[m].missing # NULL /\ lastEvent[m] = "inactive"

(* A model is announced as new exactly once, although two snapshots that   *)
(* both loaded the table before the other's commit each believe it is new. *)
DiscoveredOnce == \A m \in Models : added[m] = IF m \in known THEN 1 ELSE 0

(* No outage or probe marks a model whose capability is skip, even when a  *)
(* snapshot turns the model into skip between the scan of                  *)
(* MarkAllModelsInactive and its lock on the row.                          *)
SkipIsNeverMarked == \A m \in known : row[m].reason = "mark" => row[m].cap # "skip"

(* No transaction removes a row or changes when its model was first seen. *)
FirstSeenIsKept ==
    [][\A m \in known : m \in known' /\ row'[m].first = row[m].first]_vars

(* docs/operations.md: an inactive alert means that the model "has been    *)
(* absent or unavailable longer than models.absence_alert_after".  A model *)
(* the alert query returns was not sighted within the threshold, give or   *)
(* take the time limit of the tasks that were in flight when it went.      *)
AlertMeansLongAbsence ==
    \A m \in InactiveModelsForAlert(clock) :
        row[m].last <= clock - AbsenceAlertAfter + TaskTimeout

(* What keeps AlertMeansLongAbsence inductive.  A refresh may write an old *)
(* sighting into a row that a mark has just timed; it loaded the row before *)
(* that mark committed, so its own time is within the time limit of the    *)
(* mark's.                                                                 *)
TaskTimesPassed == \A w \in Workers : task[w].at <= clock

SightedBeforeGone ==
    \A m \in known :
        /\ row[m].last <= clock
        /\ row[m].missing # NULL => row[m].last <= row[m].missing + TaskTimeout

StaleLoadIsRecent ==
    \A w \in Workers : task[w].kind = "loaded" =>
        \A m \in task[w].loaded :
            /\ m \in known
            /\ (task[w].loadedRow[m].missing = NULL /\ row[m].missing # NULL)
                   => task[w].at <= row[m].missing + TaskTimeout

SightingInv == TaskTimesPassed /\ SightedBeforeGone /\ StaleLoadIsRecent

-----------------------------------------------------------------------------
(* Properties that hold as long as no two tasks of the provider overlapped *)

(* status, missing_since and the events agree: a row is inactive exactly   *)
(* while its absence is being timed, and exactly while inactive was the    *)
(* model's latest lifecycle event.                                         *)
StatusMatchesHistory ==
    ~overlapped =>
        \A m \in known : /\ (row[m].status = "inactive") = (row[m].missing # NULL)
                         /\ (row[m].status = "inactive") = (lastEvent[m] = "inactive")

(* The times of a row are in order: seen first, seen last, gone. *)
TimesInOrder ==
    ~overlapped =>
        \A m \in known : /\ row[m].first <= row[m].last
                         /\ row[m].last <= clock
                         /\ row[m].missing # NULL => row[m].last <= row[m].missing

(* The start of an absence, which is part of the alert's key and the       *)
(* origin of the alert threshold, does not move while the absence lasts.   *)
AbsenceStartIsKept ==
    [][~overlapped' =>
          \A m \in known : row[m].status = "inactive" /\ row'[m].status = "inactive"
              => row'[m].missing = row[m].missing]_vars

(* Until two tasks overlap the table is the abstract one, whatever copies  *)
(* the transactions decide from: each commit that moves it is an           *)
(* observation, or finds models gone, at the time of its task.  A model    *)
(* without a row is not absent.                                            *)
MissingSince(m) == IF m \in known THEN row[m].missing ELSE NULL
Table == INSTANCE Presence WITH missing <- [m \in Models |-> MissingSince(m)]
PresenceUntilOverlap == [][~overlapped' => [Table!Next]_(Table!vars)]_vars

(* What makes these inductive: the one task in progress decides from the   *)
(* rows that are still there, and no row is newer than the task.           *)
CopyIsCurrent ==
    \A w \in Workers : task[w].kind = "loaded" =>
        task[w].loaded = known /\ task[w].loadedRow = row

RowsPrecedeTask ==
    \A w \in Workers : task[w].kind # "idle" =>
        \A m \in known : row[m].last <= task[w].at /\ row[m].missing <= task[w].at

StoryOf(m) ==
    /\ (row[m].status = "inactive") = (row[m].missing # NULL)
    /\ (row[m].status = "inactive") = (lastEvent[m] = "inactive")
    /\ row[m].first <= row[m].last
    /\ row[m].last <= clock /\ row[m].missing <= clock
    /\ row[m].missing # NULL => row[m].last <= row[m].missing

AloneInv ==
    ~overlapped =>
        /\ OneAtATime
        /\ CopyIsCurrent
        /\ RowsPrecedeTask
        /\ \A m \in known : StoryOf(m)
=============================================================================
