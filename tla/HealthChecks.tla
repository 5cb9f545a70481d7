---------------------------- MODULE HealthChecks ----------------------------
(***************************************************************************)
(* One provider that comes and goes, the HTTP check tasks that watch it,   *)
(* and the snapshot tasks that bring its models back.                      *)
(*                                                                         *)
(* NewHTTPCheckTask (tasks/checks/http_check.go) reads the newest check on *)
(* record, sends its request, records the result, and then marks every     *)
(* model inactive, or, when the check before had failed, enqueues recovery *)
(* work (queue/recovery.go).  A snapshot task (tasks/models/               *)
(* model_snapshot.go) lists the models and commits what it saw.  Nothing   *)
(* keeps a scheduled check, a manual one and the snapshots apart.          *)
(*                                                                         *)
(* The models of the provider are marked and listed together and are one   *)
(* here; ModelStates has the rows.  Probes that recovery enqueues change   *)
(* nothing here and are left out.  Of http_checks only the newest row is   *)
(* ever read back, and only whether it was OK.                             *)
(***************************************************************************)
EXTENDS Naturals

CONSTANTS
    Workers,        \* goroutines that process queued tasks
    MaxQueued       \* bound on recovery snapshots in the queue

ASSUME QueueAssumption == MaxQueued \in Nat \ {0}

VARIABLES
    up,         \* the provider answers
    newest,     \* the http_checks row with the latest checked_at
    active,     \* the status of the provider's models
    queued,     \* snapshot tasks enqueued by a recovery
    task        \* what each worker is doing

vars == <<up, newest, active, queued, task>>

Result == {"none", "ok", "failed"}

(* previous: LatestHTTPCheck's answer; result: the answer to this check or *)
(* to the inventory request; later: the workers whose checks have a later  *)
(* checked_at and are not on record yet; overtaken: one of those is.       *)
(* alone (history): previous was read, and no other check has run since.   *)
CheckStage == {"asked", "requested", "answered"}
Task == [stage : CheckStage \cup {"idle", "failed", "turned", "listed"}, previous : Result, result : Result,
         later : SUBSET Workers, overtaken : BOOLEAN, alone : BOOLEAN]
Idle == [stage |-> "idle", previous |-> "none", result |-> "none",
         later |-> {}, overtaken |-> FALSE, alone |-> FALSE]

Checking(w) == task[w].stage \in CheckStage

-----------------------------------------------------------------------------
Init ==
    /\ up \in BOOLEAN
    /\ newest = "none"
    /\ active = FALSE
    /\ queued = 0
    /\ task = [w \in Workers |-> Idle]

(* The provider fails or comes back. *)
Turn ==
    /\ up' = ~up
    /\ UNCHANGED <<newest, active, queued, task>>

(* A check that read this runs alone, until another starts. *)
Alone(previous) == previous = newest /\ \A v \in Workers : ~Checking(v)

(* A check task starts: LatestHTTPCheck.  If the query fails, it is logged *)
(* and the task goes on without a previous check.                          *)
ReadPrevious(w) ==
    /\ task[w].stage = "idle"
    /\ \E previous \in {newest, "none"} :
         task' = [v \in Workers |->
            IF v = w THEN [Idle EXCEPT !.stage = "asked", !.previous = previous,
                                       !.alone = Alone(previous)]
            ELSE [task[v] EXCEPT !.alone = FALSE]]
    /\ UNCHANGED <<up, newest, active, queued>>

(* HealthCheck reads the clock, which becomes checked_at. *)
BeginRequest(w) ==
    /\ task[w].stage = "asked"
    /\ task' = [v \in Workers |->
          IF v = w THEN [task[v] EXCEPT !.stage = "requested"]
          ELSE IF task[v].stage \in {"requested", "answered"}
               THEN [task[v] EXCEPT !.later = @ \cup {w}]
               ELSE task[v]]
    /\ UNCHANGED <<up, newest, active, queued>>

Answered == IF up THEN "ok" ELSE "failed"

(* The answer, after the retries of the client. *)
Answer(w) ==
    /\ task[w].stage = "requested"
    /\ task' = [task EXCEPT ![w].stage = "answered", ![w].result = Answered]
    /\ UNCHANGED <<up, newest, active, queued>>

(* A bug used to validate the checks: a check that ended is still awaited. *)
Still(t, w) == t

(* The task t once the check of w has ended. *)
Without(t, w) == [t EXCEPT !.later = @ \ {w}]

(* The newest row once t has recorded its result. *)
NewestAfter(t) == IF t.overtaken THEN newest ELSE t.result

(* A bug used to validate the checks: the previous check is read after the *)
(* record.                                                                 *)
TurnedLate(t) == t.result = "ok" /\ NewestAfter(t) = "failed"

(* The task believes that the provider has recovered. *)
Turned(t) == t.result = "ok" /\ t.previous = "failed"

(* RecordHTTPCheck, and what the task does next. *)
Record(w) ==
    /\ task[w].stage = "answered"
    /\ newest' = NewestAfter(task[w])
    /\ task' = [v \in Workers |->
          IF v # w THEN [Without(task[v], w) EXCEPT !.overtaken = @ \/ w \in task[v].later]
          ELSE IF task[w].result = "failed" THEN [Idle EXCEPT !.stage = "failed"]
          ELSE IF Turned(task[w]) THEN [Idle EXCEPT !.stage = "turned"]
          ELSE Idle]
    /\ UNCHANGED <<up, active, queued>>

(* MarkAllModelsInactive after a failed check. *)
MarkAllModelsInactive(w) ==
    /\ task[w].stage = "failed"
    /\ active' = FALSE
    /\ task' = [task EXCEPT ![w] = Idle]
    /\ UNCHANGED <<up, newest, queued>>

(* TriggerModelRecovery: EnqueueModelSnapshot. *)
TriggerModelRecovery(w) ==
    /\ task[w].stage = "turned"
    /\ queued < MaxQueued
    /\ queued' = queued + 1
    /\ task' = [task EXCEPT ![w] = Idle]
    /\ UNCHANGED <<up, newest, active>>

(* A recovery snapshot was not started within 60 s. *)
ExpireRecovery ==
    /\ queued > 0
    /\ queued' = queued - 1
    /\ UNCHANGED <<up, newest, active, task>>

(* A snapshot task starts, scheduled or for a recovery, and lists. *)
ListModels(w) ==
    /\ task[w].stage = "idle"
    /\ task' = [task EXCEPT ![w] = [Idle EXCEPT !.stage = "listed", !.result = Answered]]
    /\ queued' \in {queued} \cup {n \in 0 .. MaxQueued : n + 1 = queued}
    /\ UNCHANGED <<up, newest, active>>

(* Bugs used to validate the checks: a returning model stays inactive; a   *)
(* failed inventory request is taken for a listing.                        *)
StatusKept(t) == active /\ t.result = "ok"
StatusAssumed(t) == TRUE

(* ProcessModelObservation, or the mark after a failed inventory request. *)
StatusAfter(t) == t.result = "ok"

CommitListing(w) ==
    /\ task[w].stage = "listed"
    /\ active' = StatusAfter(task[w])
    /\ task' = [task EXCEPT ![w] = Idle]
    /\ UNCHANGED <<up, newest, queued>>

(* A database or Redis error, the time limit or the worker's death ends    *)
(* the task; it is not retried.                                            *)
Abandon(w) ==
    /\ task[w].stage # "idle"
    /\ task' = [v \in Workers |-> IF v = w THEN Idle ELSE Without(task[v], w)]
    /\ UNCHANGED <<up, newest, active, queued>>

Continue(w) ==
    \/ BeginRequest(w)
    \/ Answer(w)
    \/ Record(w)
    \/ MarkAllModelsInactive(w)
    \/ TriggerModelRecovery(w)
    \/ CommitListing(w)
    \/ Abandon(w)

Next ==
    \/ Turn
    \/ ExpireRecovery
    \/ \E w \in Workers : ReadPrevious(w) \/ ListModels(w) \/ Continue(w)

Spec == Init /\ [][Next]_vars

(* Checks and snapshots are scheduled for ever, a task that started goes   *)
(* on, and each step succeeds again and again, in one worker or another.   *)
Fairness ==
    /\ \A w \in Workers : WF_vars(Continue(w))
    /\ SF_vars(\E w \in Workers : ReadPrevious(w))
    /\ SF_vars(\E w \in Workers : BeginRequest(w))
    /\ SF_vars(\E w \in Workers : Answer(w))
    /\ SF_vars(\E w \in Workers : Record(w))
    /\ SF_vars(\E w \in Workers : MarkAllModelsInactive(w))
    /\ SF_vars(\E w \in Workers : ListModels(w))
    /\ SF_vars(\E w \in Workers : CommitListing(w))

FairSpec == Spec /\ Fairness

-----------------------------------------------------------------------------
(* Every variable has its type; a check waits only for others in flight. *)
TypeOK ==
    /\ up \in BOOLEAN
    /\ newest \in Result
    /\ active \in BOOLEAN
    /\ queued \in 0 .. MaxQueued
    /\ task \in [Workers -> Task]
    /\ \A w \in Workers : task[w].later \subseteq {v \in Workers : Checking(v)} \ {w}

(* What makes TurnIsNoticed hold: while a check is alone, what it read is  *)
(* still the newest row, no other check runs, and it is not overtaken.     *)
AloneIsCurrent ==
    \A w \in Workers : task[w].alone =>
        /\ task[w].previous = newest
        /\ ~task[w].overtaken
        /\ \A v \in Workers \ {w} : ~Checking(v)

(* A check that ran alone notices that the provider came back: it enqueues *)
(* recovery work exactly when it puts an OK row after a failed one.        *)
TurnIsNoticed ==
    [][\A w \in Workers : Record(w) /\ task[w].alone =>
          (task'[w].stage = "turned" <=> newest = "failed" /\ newest' = "ok")]_vars

(* The models of a provider that stays away become inactive and stay so,   *)
(* although a snapshot may commit what it listed before the outage after   *)
(* the first check has marked them.                                        *)
OutageIsMarked == <>[]~up => <>[]~active

(* The models of a provider that comes back for good become active and     *)
(* stay so, although recovery work is lost, checks overlap and a late task *)
(* still marks them.                                                       *)
RecoveryCompletes == <>[]up => <>[]active
=============================================================================
