---------------------------- MODULE ManualChecks ----------------------------
(***************************************************************************)
(* Manual checks, from the click to the end of the spinner:                *)
(*                                                                         *)
(*   the browser (useManualChecks.ts) posts a request, then polls the      *)
(*     state of the jobs it got, for all its groups of jobs at once;       *)
(*   the server enqueues the jobs (handlers_manual_checks.go) and looks    *)
(*     them up (queue.InspectJobs), deleting those whose deadline passed   *)
(*     before a worker took them;                                          *)
(*   asynq keeps the jobs and runs them (external).                        *)
(*                                                                         *)
(* A subject is what a spinner is about: all checks, or one model.  Its    *)
(* button is disabled while the spinner turns, so it has at most one group *)
(* at a time.  Texts and the error line are left out.                      *)
(***************************************************************************)
EXTENDS Naturals

CONSTANTS
    Subjects,       \* the spinners
    ModelSubjects,  \* those of one model
    Jobs,           \* task ids that asynq hands out, in their order (a bound)
    Polls,          \* numbers of the polls in flight at once (a bound)
    MaxFailures     \* bound on polls that get no answer

ASSUME BoundsAssumption == MaxFailures \in Nat /\ Polls \subseteq Nat /\ Jobs \subseteq Nat

VARIABLES
    job,        \* asynq: the state of each task
    ran,        \* history: its handler was called
    checking,   \* browser: the spinners that turn
    request,    \* the POST of each subject
    ids,        \* the jobs of its group, as far as they are enqueued
    tracked,    \* pendingGroups
    timer,      \* a poll is scheduled
    poll,       \* the polls in flight
    failures    \* polls that failed so far

vars == <<job, ran, checking, request, ids, tracked, timer, poll, failures>>

(* A task is overdue when it is pending past its deadline; gone when it was *)
(* deleted, or its retention is over.                                      *)
JobState == {"none", "pending", "overdue", "active", "completed", "archived", "gone"}
Unanswered == "unanswered"
Answer == {"pending", "active", "completed", "archived", "expired", "not_found", Unanswered}

(* state: what the answer says of each job; doomed: a job InspectJobs is   *)
(* about to delete; done: the groups found finished, whose spinners stop   *)
(* after the dashboard is refreshed.                                       *)
Poll == [stage : {"idle", "asked", "refreshing"}, ids : SUBSET Jobs,
         state : [Jobs -> Answer], doomed : SUBSET Jobs, done : SUBSET Subjects]
NoPoll == [stage |-> "idle", ids |-> {}, state |-> [j \in Jobs |-> Unanswered],
           doomed |-> {}, done |-> {}]

-----------------------------------------------------------------------------
Init ==
    /\ job = [j \in Jobs |-> "none"]
    /\ ran = [j \in Jobs |-> FALSE]
    /\ checking = [s \in Subjects |-> FALSE]
    /\ request = [s \in Subjects |-> "none"]
    /\ ids = [s \in Subjects |-> {}]
    /\ tracked = {}
    /\ timer = FALSE
    /\ poll = [q \in Polls |-> NoPoll]
    /\ failures = 0

(* runAllChecks or runModelCheck, up to its request. *)
Click(s) ==
    /\ ~checking[s]
    /\ checking' = [checking EXCEPT ![s] = TRUE]
    /\ request' = [request EXCEPT ![s] = "sent"]
    /\ UNCHANGED <<job, ran, ids, tracked, timer, poll, failures>>

(* Client.enqueue: asynq takes a task under a new id. *)
Enqueue(s, j) ==
    /\ request[s] = "sent"
    /\ job[j] = "none" /\ \A i \in Jobs : i < j => job[i] # "none"
    /\ job' = [job EXCEPT ![j] = "pending"]
    /\ ids' = [ids EXCEPT ![s] = @ \cup {j}]
    /\ UNCHANGED <<ran, checking, request, tracked, timer, poll, failures>>

(* The server enqueues the health checks, a snapshot and a run of every    *)
(* runnable model, one after the other.                                    *)
EnqueueAllChecks(s, j) == s \notin ModelSubjects /\ Enqueue(s, j)

(* A run of the one model, if it is runnable. *)
EnqueueModelCheck(s, j) == s \in ModelSubjects /\ ids[s] = {} /\ Enqueue(s, j)

(* The answer: the jobs, or the error that kept the server from going on;  *)
(* the jobs enqueued before that stay in the queue.                        *)
RunChecks(s) ==
    /\ request[s] = "sent"
    /\ \/ ids[s] # {} /\ request' = [request EXCEPT ![s] = "accepted"] /\ UNCHANGED ids
       \/ request' = [request EXCEPT ![s] = "refused"] /\ ids' = [ids EXCEPT ![s] = {}]
    /\ UNCHANGED <<job, ran, checking, tracked, timer, poll, failures>>

Serve(s) ==
    \/ \E j \in Jobs : EnqueueAllChecks(s, j) \/ EnqueueModelCheck(s, j)
    \/ RunChecks(s)

(* trackGroup, which schedules a poll even while another is in flight. *)
TrackGroup(s) ==
    /\ request[s] = "accepted"
    /\ request' = [request EXCEPT ![s] = "none"]
    /\ tracked' = tracked \cup {s}
    /\ timer' = TRUE
    /\ UNCHANGED <<job, ran, checking, ids, poll, failures>>

(* The request failed: the spinner stops. *)
GiveUp(s) ==
    /\ request[s] = "refused"
    /\ request' = [request EXCEPT ![s] = "none"]
    /\ checking' = [checking EXCEPT ![s] = FALSE]
    /\ UNCHANGED <<job, ran, ids, tracked, timer, poll, failures>>

(* The jobs of all groups of this moment: a set, as parseJobIDs makes it. *)
JobIDs == UNION {ids[s] : s \in tracked}

(* The timer fires: poll asks for them. *)
StartPoll(q) ==
    /\ timer
    /\ poll[q].stage = "idle"
    /\ \A p \in Polls : p < q => poll[p].stage # "idle"
    /\ timer' = FALSE
    /\ poll' = IF JobIDs = {} THEN poll
               ELSE [poll EXCEPT ![q].stage = "asked", ![q].ids = JobIDs]
    /\ UNCHANGED <<job, ran, checking, request, ids, tracked, failures>>

(* GetTaskInfo. *)
StateOf(j) ==
    CASE job[j] = "gone" -> "not_found"
      [] job[j] = "overdue" -> "pending"
      [] OTHER -> job[j]

(* Bugs used to validate the checks: nothing expires; the age of the task  *)
(* and its state are not tested.                                           *)
NoExpiredJob(j) == FALSE
AnyPendingJob(j) == job[j] \in {"pending", "overdue", "active"}

ExpiredPendingJob(j) == job[j] = "overdue"

(* InspectJobs looks at one job after the other ... *)
Inspect(q, j) ==
    /\ poll[q].stage = "asked" /\ poll[q].doomed = {}
    /\ j \in poll[q].ids /\ poll[q].state[j] = Unanswered
    /\ poll' = IF ExpiredPendingJob(j) THEN [poll EXCEPT ![q].doomed = {j}]
                                       ELSE [poll EXCEPT ![q].state[j] = StateOf(j)]
    /\ UNCHANGED <<job, ran, checking, request, ids, tracked, timer, failures>>

(* A bug used to validate the checks: poll does not schedule the next one. *)
ForgottenTimer(groups) == timer

(* schedulePoll in poll's finally: only while groups are left. *)
TimerAfterPoll(groups) == timer \/ groups # {}

EndPoll(q) == poll' = [poll EXCEPT ![q] = NoPoll] /\ timer' = TimerAfterPoll(tracked)

(* ... and deletes an expired one in a second call.  asynq refuses that    *)
(* for a task that is active, or deleted already: InspectJobs fails then.  *)
DeleteExpired(q, j) ==
    /\ j \in poll[q].doomed
    /\ IF job[j] \in {"active", "gone"}
       THEN EndPoll(q) /\ UNCHANGED job
       ELSE /\ job' = [job EXCEPT ![j] = "gone"]
            /\ poll' = [poll EXCEPT ![q] = [@ EXCEPT !.doomed = {}, !.state[j] = "expired"]]
            /\ UNCHANGED timer
    /\ UNCHANGED <<ran, checking, request, ids, tracked, failures>>

(* checkJobs fails, or its answer is lost: the poll is repeated later. *)
FailPoll(q) ==
    /\ poll[q].stage = "asked"
    /\ failures < MaxFailures
    /\ failures' = failures + 1
    /\ EndPoll(q)
    /\ UNCHANGED <<job, ran, checking, request, ids, tracked>>

(* TERMINAL_STATES, where a job the answer does not mention is not_found.  *)
(* A bug used to validate the checks: a job that is running counts.        *)
RunningIsTerminal(a) == a \notin {"pending"}
Terminal(a) == a \in {"completed", "archived", "expired", "not_found", Unanswered}

Done(q) == {s \in tracked : \A j \in ids[s] : Terminal(poll[q].state[j])}

(* A bug used to validate the checks: pendingGroups.delete is missing. *)
KeepsDone(q) == tracked
StillPending(q) == tracked \ Done(q)

(* The answer arrives: it is held against the groups that are pending now, *)
(* and if some are done, the dashboard is refreshed first (onComplete).    *)
EvaluatePoll(q) ==
    /\ poll[q].stage = "asked" /\ poll[q].doomed = {}
    /\ \A j \in poll[q].ids : poll[q].state[j] # Unanswered
    /\ tracked' = StillPending(q)
    /\ IF Done(q) = {}
       THEN EndPoll(q)
       ELSE poll' = [poll EXCEPT ![q] = [NoPoll EXCEPT !.stage = "refreshing",
                                                      !.done = Done(q)]]
            /\ UNCHANGED timer
    /\ UNCHANGED <<job, ran, checking, request, ids, failures>>

(* onComplete settled: finishGroup for every group that was done. *)
FinishGroups(q) ==
    /\ poll[q].stage = "refreshing"
    /\ checking' = [s \in Subjects |-> s \notin poll[q].done /\ checking[s]]
    /\ ids' = [s \in Subjects |-> IF s \in poll[q].done THEN {} ELSE ids[s]]
    /\ EndPoll(q)
    /\ UNCHANGED <<job, ran, request, tracked, failures>>

(* The Deadline option: 60 s after the task was enqueued. *)
PassDeadline(j) ==
    /\ job[j] = "pending"
    /\ job' = [job EXCEPT ![j] = "overdue"]
    /\ UNCHANGED <<ran, checking, request, ids, tracked, timer, poll, failures>>

(* A worker takes the task. *)
StartJob(j) ==
    /\ job[j] = "pending"
    /\ job' = [job EXCEPT ![j] = "active"]
    /\ ran' = [ran EXCEPT ![j] = TRUE]
    /\ UNCHANGED <<checking, request, ids, tracked, timer, poll, failures>>

(* A worker takes it too late: it fails without a call of the handler. *)
RejectJob(j) ==
    /\ job[j] = "overdue"
    /\ job' = [job EXCEPT ![j] = "archived"]
    /\ UNCHANGED <<ran, checking, request, ids, tracked, timer, poll, failures>>

(* The handler returned, or the task's lease ended with its worker. *)
EndJob(j) ==
    /\ job[j] = "active"
    /\ \E outcome \in {"completed", "archived"} : job' = [job EXCEPT ![j] = outcome]
    /\ UNCHANGED <<ran, checking, request, ids, tracked, timer, poll, failures>>

(* asynq.manual_task_retention has passed since the task completed. *)
DropJob(j) ==
    /\ job[j] = "completed"
    /\ job' = [job EXCEPT ![j] = "gone"]
    /\ UNCHANGED <<ran, checking, request, ids, tracked, timer, poll, failures>>

Browser(s) ==
    \/ Click(s)
    \/ Serve(s)
    \/ TrackGroup(s)
    \/ GiveUp(s)

Polling(q) ==
    \/ StartPoll(q)
    \/ \E j \in Jobs : Inspect(q, j) \/ DeleteExpired(q, j)
    \/ FailPoll(q)
    \/ EvaluatePoll(q)
    \/ FinishGroups(q)

Queue(j) == PassDeadline(j) \/ StartJob(j) \/ RejectJob(j) \/ EndJob(j) \/ DropJob(j)

Next ==
    \/ \E s \in Subjects : Browser(s)
    \/ \E q \in Polls : Polling(q)
    \/ \E j \in Jobs : Queue(j)

Spec == Init /\ [][Next]_vars

(* Requests are answered, timers fire, deadlines pass and a task that runs *)
(* ends (its context is cancelled).  That a worker takes a task is not     *)
(* assumed: there may be none.                                             *)
Fairness ==
    /\ \A s \in Subjects : WF_vars(Serve(s)) /\ WF_vars(TrackGroup(s) \/ GiveUp(s))
    /\ WF_vars(\E q \in Polls : Polling(q))
    /\ \A j \in Jobs : WF_vars(PassDeadline(j)) /\ WF_vars(EndJob(j))

FairSpec == Spec /\ Fairness

-----------------------------------------------------------------------------
(* Every variable has its type; only a spinner that turns has a group. *)
TypeOK ==
    /\ job \in [Jobs -> JobState]
    /\ ran \in [Jobs -> BOOLEAN]
    /\ checking \in [Subjects -> BOOLEAN]
    /\ request \in [Subjects -> {"none", "sent", "accepted", "refused"}]
    /\ ids \in [Subjects -> SUBSET Jobs]
    /\ tracked \subseteq {s \in Subjects : checking[s]}
    /\ timer \in BOOLEAN
    /\ poll \in [Polls -> Poll]
    /\ failures \in 0 .. MaxFailures

Over(j) == job[j] \in {"completed", "archived", "gone"}

(* Polling never stops while a group is pending, whatever polls overlapped, *)
(* failed, or found another group finished.                                *)
PollingGoesOn == tracked # {} => timer \/ \E q \in Polls : poll[q].stage # "idle"

(* InspectJobs reports "manual check expired before a worker started it"   *)
(* of no job whose handler was called, although a worker may take the job  *)
(* between the look and the delete.                                        *)
ExpiredNeverRan == \A q \in Polls, j \in Jobs : poll[q].state[j] = "expired" => ~ran[j]

(* What makes these inductive: a spinner is in one phase at a time - its    *)
(* request, its pending group, or the end of its group, found by one poll; *)
(* and what a poll was told of a job stays true, since jobs only move on.  *)
OnePhase(s) ==
    /\ request[s] # "none" => checking[s] /\ s \notin tracked
    /\ request[s] = "accepted" \/ s \in tracked => ids[s] # {}
    /\ \A j \in ids[s] : job[j] # "none"
    /\ \A q \in Polls : s \in poll[q].done =>
          /\ checking[s] /\ request[s] = "none" /\ s \notin tracked
          /\ \A p \in Polls \ {q} : s \notin poll[p].done

GroupsOK == \A s \in Subjects : OnePhase(s)

TrueAnswer(q, j) ==
    /\ j \in poll[q].ids => job[j] # "none"
    /\ poll[q].state[j] \in {"completed", "archived", "expired", "not_found"} => Over(j)
    /\ j \in poll[q].doomed => job[j] \in {"overdue", "archived", "gone"}
    /\ poll[q].state[j] = "expired" \/ j \in poll[q].doomed => ~ran[j]

AnswersOK == \A q \in Polls, j \in Jobs : TrueAnswer(q, j)

OnlyStartedRan == \A j \in Jobs : job[j] \in {"none", "pending", "overdue"} => ~ran[j]

ManualInv == TypeOK /\ GroupsOK /\ AnswersOK /\ OnlyStartedRan /\ PollingGoesOn

(* A group that a poll asked about is finished only when all its jobs are. *)
AskedMeansDone ==
    [][\A q \in Polls : EvaluatePoll(q) =>
          \A s \in Done(q) : ids[s] \subseteq poll[q].ids => \A j \in ids[s] : Over(j)]_vars

(* A spinner that turns stops, whether or not a worker ever runs. *)
SpinnerStops == \A s \in Subjects : checking[s] ~> ~checking[s]

(* useManualChecks.ts: "polls queue state until matching jobs finish".  A  *)
(* poll finishes no group that still has a job in the queue.               *)
FinishedMeansDone ==
    [][\A q \in Polls : EvaluatePoll(q) => \A s \in Done(q) : \A j \in ids[s] : Over(j)]_vars
=============================================================================
