------------------------------ MODULE Schedule ------------------------------
(***************************************************************************)
(* The dynamic scheduler (schedule/queue/scheduler.go, cmd/scheduler): the *)
(* fixed schedules and one schedule per runnable model, synchronised with  *)
(* the table of models while the tasks change it.                          *)
(*                                                                         *)
(* Asynq's manager asks GetConfigs for the schedules at every sync.  It    *)
(* tells them apart by all they say - interval, task, payload and options, *)
(* the delay among them - removes the entries that are no longer listed    *)
(* and adds the new ones.  An entry that is added waits a whole interval.  *)
(* A model's delay is its place in the list.                               *)
(*                                                                         *)
(* Times are relative: what is kept of a time is how far away it is.  One  *)
(* unit stands for ModelRunSpacing or any other step of the clock.         *)
(***************************************************************************)
EXTENDS Integers, Sequences, FiniteSetsExt

CONSTANTS
    Models,             \* pairs of provider_id and model_id
    ListOrder,          \* the models by provider_id and model_id
    FixedTasks,         \* the tasks with a schedule of their own
    FixedInterval,      \* [FixedTasks -> Nat]: schedules.http_check, ...
    Overrides,          \* schedules.model_run_overrides
    ModelRuns,          \* schedules.model_runs, the default interval
    ModelRunSpacing,    \* what each place in the list adds to the delay
    SyncInterval        \* asynq.scheduler_sync_interval

ASSUME ListAssumption ==
    /\ ListOrder \in Seq(Models)
    /\ \A m \in Models : \E i \in DOMAIN ListOrder : ListOrder[i] = m
    /\ \A i, j \in DOMAIN ListOrder : ListOrder[i] = ListOrder[j] => i = j
    /\ Models \cap FixedTasks = {}
ASSUME IntervalAssumption ==
    /\ FixedInterval \in [FixedTasks -> Nat \ {0}]
    /\ Overrides \in Seq([exact : BOOLEAN, models : SUBSET Models, every : Nat])
    /\ ModelRuns \in Nat \ {0} /\ ModelRunSpacing \in Nat /\ SyncInterval \in Nat \ {0}

VARIABLES
    capability,     \* the table: a model's capability, None if it is not runnable
    up,             \* the scheduler runs
    untilSync,      \* the time to the next sync
    left,           \* the registered entries, and the time until each is due
    synced          \* history: capability as the last successful sync saw it

vars == <<capability, up, untilSync, left, synced>>

None == "none"
Capability == {"chat", "embedding"}
Task == Models \cup FixedTasks

-----------------------------------------------------------------------------
(* The schedules *)

(* modelInterval.  An override is given by the models it is about: those   *)
(* of its provider, if it names one, with its model_id (exact) or matching *)
(* its pattern.                                                            *)
About(m, exact) ==
    {i \in DOMAIN Overrides :
        Overrides[i].exact = exact /\ m \in Overrides[i].models /\ Overrides[i].every > 0}
ModelInterval(m) ==
    CASE About(m, TRUE) # {} -> Overrides[Min(About(m, TRUE))].every
      [] About(m, TRUE) = {} /\ About(m, FALSE) # {} -> Overrides[Min(About(m, FALSE))].every
      [] OTHER -> ModelRuns

(* A bug used to validate the checks: models that embed are not listed. *)
ChatModels(table) == {m \in Models : table[m] = "chat"}

RunnableModels(table) == {m \in Models : table[m] # None}

(* The rows are ordered by provider_id and model_id. *)
Before(q, m) == \E i, j \in DOMAIN ListOrder : i < j /\ ListOrder[i] = q /\ ListOrder[j] = m

(* A bug used to validate the checks: models are counted by capability. *)
IndexOfKind(table, m) ==
    Cardinality({q \in RunnableModels(table) : Before(q, m) /\ table[q] = table[m]})

Index(table, m) == Cardinality({q \in RunnableModels(table) : Before(q, m)})

(* A bug used to validate the checks: the payload says when it was made,   *)
(* as that of a manual run does.                                           *)
NoTime == 0
TimeOfRequest(m) == IF \E c \in DOMAIN left : c.task = m /\ c.requestedAt = 1 THEN 2 ELSE 1

(* NewScheduledModelRunTask: the payload of a scheduled run is stable. *)
RequestedAt(m) == NoTime

FixedConfigs ==
    {[task |-> t, capability |-> None, requestedAt |-> NoTime,
      every |-> FixedInterval[t], delay |-> 0] : t \in FixedTasks}

ModelConfig(table, m) ==
    [task |-> m, capability |-> table[m], requestedAt |-> RequestedAt(m),
     every |-> ModelInterval(m), delay |-> Index(table, m) * ModelRunSpacing]

GetConfigs(table) == FixedConfigs \cup {ModelConfig(table, m) : m \in RunnableModels(table)}

(* Asynq's manager keeps the entries that are still listed. *)
Registered(configs) == [c \in configs |-> IF c \in DOMAIN left THEN left[c] ELSE c.every]

NoEntries == [c \in {} |-> 0]

EntriesOf(t) == {c \in DOMAIN left : c.task = t}

(* modelRunNextChecks: an entry's task is processed its delay after it is  *)
(* due; of several entries the earliest counts.                            *)
NextCheck(t) == Min({left[c] + c.delay : c \in EntriesOf(t)})

-----------------------------------------------------------------------------
Init ==
    /\ capability = [m \in Models |-> None]
    /\ up = FALSE
    /\ untilSync = SyncInterval
    /\ left = NoEntries
    /\ synced = capability

(* A snapshot or a check commits: any of the models may change at once. *)
CommitModels(new) ==
    /\ new # capability
    /\ capability' = new
    /\ UNCHANGED <<up, untilSync, left, synced>>

(* Entries and syncs that are due are not put off. *)
Tick ==
    /\ up /\ untilSync > 0 /\ \A c \in DOMAIN left : left[c] > 0
    /\ untilSync' = untilSync - 1
    /\ left' = [c \in DOMAIN left |-> left[c] - 1]
    /\ UNCHANGED <<capability, up, synced>>

(* The scheduler starts; it gives up if the first sync fails.  It has      *)
(* enqueued the checks, a snapshot and a retention run itself.             *)
Start ==
    /\ ~up
    /\ up' = TRUE
    /\ untilSync' = SyncInterval
    /\ left' = Registered(GetConfigs(capability))
    /\ synced' = capability
    /\ UNCHANGED capability

(* A sync that cannot read the models leaves the entries as they are. *)
Sync(ok) ==
    /\ up /\ untilSync = 0
    /\ untilSync' = SyncInterval
    /\ IF ok THEN left' = Registered(GetConfigs(capability)) /\ synced' = capability
             ELSE UNCHANGED <<left, synced>>
    /\ UNCHANGED <<capability, up>>

(* An entry that is due enqueues its task, to be processed after its       *)
(* delay.  If Redis refuses the task it is dropped: the entry waits for    *)
(* its next turn all the same.                                             *)
Enqueue(t) ==
    /\ up
    /\ \E c \in DOMAIN left : c.task = t /\ left[c] = 0 /\ left' = [left EXCEPT ![c] = c.every]
    /\ UNCHANGED <<capability, up, untilSync, synced>>

(* The scheduler stops or dies: its entries were in its memory. *)
Stop ==
    /\ up
    /\ up' = FALSE
    /\ left' = NoEntries
    /\ untilSync' = SyncInterval
    /\ UNCHANGED <<capability, synced>>

Next ==
    \/ \E new \in [Models -> Capability \cup {None}] : CommitModels(new)
    \/ Tick
    \/ Start
    \/ \E ok \in BOOLEAN : Sync(ok)
    \/ \E t \in Task : Enqueue(t)
    \/ Stop

Spec == Init /\ [][Next]_vars

(* The scheduler is started again when it has stopped, its clock goes on,  *)
(* what is due is done, and the models can be read again and again.        *)
Fairness ==
    /\ WF_vars(Start)
    /\ WF_vars(Tick)
    /\ WF_vars(\E t \in Task : Enqueue(t))
    /\ WF_vars(\E ok \in BOOLEAN : Sync(ok))
    /\ SF_vars(Sync(TRUE))

FairSpec == Spec /\ Fairness

-----------------------------------------------------------------------------
Config ==
    [task : Task, capability : Capability \cup {None}, requestedAt : Nat, every : Nat, delay : Nat]

(* Every variable has its type, and no entry waits longer than its         *)
(* interval.                                                               *)
TypeOK ==
    /\ capability \in [Models -> Capability \cup {None}]
    /\ synced \in [Models -> Capability \cup {None}]
    /\ up \in BOOLEAN
    /\ untilSync \in 0 .. SyncInterval
    /\ \A c \in DOMAIN left : c \in Config /\ left[c] \in 0 .. c.every

(* Through all changes of the models and all syncs a task has one entry at *)
(* most, and no two models have the same delay: runs that fall due at the  *)
(* same time are started a spacing apart.                                  *)
EntriesAreApart ==
    \A c, d \in DOMAIN left :
        c # d =>
            /\ c.task # d.task
            /\ {c.task, d.task} \subseteq Models /\ ModelRunSpacing > 0 => c.delay # d.delay

(* m, and every model listed before it, is as the last sync saw it. *)
Unmoved(m) == \A q \in Models : q = m \/ Before(q, m) => capability[q] = synced[q]

(* Syncs do not put off what need not be put off: as long as the scheduler *)
(* runs, the next run of a fixed task, and that of a model whose           *)
(* predecessors in the list stay - the one the dashboard shows - only      *)
(* comes nearer until it is enqueued, whatever becomes of the models       *)
(* behind it and whichever syncs fail.                                     *)
NextRunsComeNearer ==
    [][\A t \in Task :
          up /\ up' /\ (t \in FixedTasks \/ Unmoved(t)) /\ EntriesOf(t) # {} =>
              /\ EntriesOf(t)' # {}
              /\ \/ NextCheck(t)' \in {NextCheck(t), NextCheck(t) - 1}
                 \/ \E c \in EntriesOf(t) :
                       left[c] = 0 /\ NextCheck(t)' = NextCheck(t) + c.every]_vars

(* A task whose schedule stays the same while the scheduler runs comes up  *)
(* again and again, though the schedules of others come and go.            *)
SteadyTasksComeUp ==
    /\ \A t \in FixedTasks : <>[]up => []<>(<<Enqueue(t)>>_vars)
    /\ \A m \in Models, k \in Capability, n \in 0 .. Len(ListOrder) :
          <>[](up /\ capability[m] = k /\ Index(capability, m) = n)
              => []<>(<<Enqueue(m)>>_vars)

(* docs/tasks/model-runs.md: "enqueues one `monitor.model_run` task per    *)
(* model on that model's interval".  It does not for a model behind one    *)
(* that comes and goes: each time its delay changes, and its interval      *)
(* starts again.                                                           *)
RunnableModelsComeUp ==
    \A m \in Models, k \in Capability :
        <>[](up /\ capability[m] = k) => []<>(<<Enqueue(m)>>_vars)
=============================================================================
