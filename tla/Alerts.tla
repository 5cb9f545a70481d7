------------------------------- MODULE Alerts -------------------------------
(***************************************************************************)
(* Model lifecycle mails.  A snapshot task commits what it saw, mails the  *)
(* models that are new or came back after a long absence, then loads the   *)
(* models of every provider that have been inactive for long and mails     *)
(* those (tasks/models/model_snapshot.go).  sendModelAlert looks a mail's  *)
(* key up in email_alerts, sends it, and records the attempt: three steps  *)
(* with no lock and no transaction around them.                            *)
(*                                                                         *)
(* A snapshot's effect on model_states is one step here; how snapshots and *)
(* marks interleave in the table is the subject of ModelStates.  The mail  *)
(* notifier is external: it accepts a message or fails.  With SMTP off it  *)
(* accepts and drops every message.                                        *)
(***************************************************************************)
EXTENDS Integers

CONSTANTS
    Models,             \* models, whatever their provider
    Workers,            \* goroutines that process queued tasks
    MaxTime,            \* bound on the clock
    AbsenceAlertAfter,  \* models.absence_alert_after
    Retention           \* retention.history, in force; 0: less than a tick

ASSUME TimesAssumption == MaxTime \in Nat \ {0} /\ AbsenceAlertAfter \in Nat \ {0}
ASSUME RetentionAssumption == Retention \in Nat

VARIABLES
    clock,          \* the wall clock
    known,          \* models that have a row in model_states
    missing,        \* their missing_since; a model is inactive when it has one
    alerts,         \* email_alerts by key
    task,           \* what each worker is doing
    delivered,      \* history: keys of mails the notifier accepted
    acknowledged,   \* history: keys recorded as sent at some time
    overlapped      \* history: two tasks have been in progress at once

vars == <<clock, known, missing, alerts, task, delivered, acknowledged, overlapped>>

NULL == 0

(* modelAlertKey *)
AlertType == {"first_seen", "inactive", "returned"}
Key == [type : AlertType, model : Models, at : 1 .. MaxTime]
ModelAlertKey(type, m, at) == [type |-> type, model |-> m, at |-> at]
NoKey == [type |-> "none", model |-> "none", at |-> NULL]

(* error is '' exactly when the result is "sent". *)
NoAlert == [result |-> "none", sentAt |-> NULL]
Alert == [result : {"none", "sent", "error"}, sentAt : 0 .. MaxTime]

(* at: the snapshot's now; pending: keys it still has to work on; loaded:  *)
(* whether the inactive models are among them; key, sentAt and ok: the     *)
(* mail in progress.                                                       *)
Stage == {"idle", "next", "deliver", "record"}
Task == [stage : Stage, at : 0 .. MaxTime, pending : SUBSET Key, loaded : BOOLEAN,
         key : Key \cup {NoKey}, sentAt : 0 .. MaxTime, ok : BOOLEAN]
Idle == [stage |-> "idle", at |-> NULL, pending |-> {}, loaded |-> FALSE,
         key |-> NoKey, sentAt |-> NULL, ok |-> FALSE]

(* A bug used to validate the checks: missing_since may be NULL. *)
Listed(m) == m \in known

Inactive(m) == m \in known /\ missing[m] # NULL

-----------------------------------------------------------------------------
Init ==
    /\ clock = 1
    /\ known = {}
    /\ missing = [m \in Models |-> NULL]
    /\ alerts = [k \in Key |-> NoAlert]
    /\ task = [w \in Workers |-> Idle]
    /\ delivered = {}
    /\ acknowledged = {}
    /\ overlapped = FALSE

Tick ==
    /\ clock < MaxTime
    /\ clock' = clock + 1
    /\ UNCHANGED <<known, missing, alerts, task, delivered, acknowledged>>

(* shouldAlertReturned *)
ShouldAlertReturned(m) == Inactive(m) /\ clock - missing[m] >= AbsenceAlertAfter

EventKeys(present) ==
    {ModelAlertKey("first_seen", m, clock) : m \in present \ known}
      \cup {ModelAlertKey("returned", m, clock) : m \in {n \in present : ShouldAlertReturned(n)}}

(* refreshProviderModels commits an observation that lists present. *)
TakeSnapshot(w, present) ==
    /\ task[w].stage = "idle"
    /\ known' = known \cup present
    /\ missing' = [m \in Models |->
                     CASE m \in present -> NULL
                       [] m \in known \ present /\ missing[m] = NULL -> clock
                       [] OTHER -> missing[m]]
    /\ task' = [task EXCEPT ![w] = [Idle EXCEPT !.stage = "next", !.at = clock,
                                                !.pending = EventKeys(present)]]
    /\ UNCHANGED <<clock, alerts, delivered, acknowledged>>

(* The listing failed: what was there and is not skipped is marked as      *)
(* gone, and the alerts follow.                                            *)
FailInventory(w, gone) ==
    /\ task[w].stage = "idle"
    /\ \A m \in gone : missing[m] = NULL
    /\ missing' = [m \in Models |-> IF m \in gone THEN clock ELSE missing[m]]
    /\ task' = [task EXCEPT ![w] = [Idle EXCEPT !.stage = "next", !.at = clock]]
    /\ UNCHANGED <<clock, known, alerts, delivered, acknowledged>>

(* A health check or a probe marks models in another task: no mail. *)
MarkInactive(w, m) ==
    /\ task[w].stage = "idle"
    /\ m \in known /\ missing[m] = NULL
    /\ missing' = [missing EXCEPT ![m] = clock]
    /\ UNCHANGED <<clock, known, alerts, task, delivered, acknowledged>>

(* sendInactiveModelAlerts: the list is a copy, of the table as it is now. *)
LoadInactive(w) ==
    /\ task[w].stage = "next" /\ task[w].pending = {} /\ ~task[w].loaded
    /\ task' = [task EXCEPT
          ![w].loaded = TRUE, ![w].at = NULL,
          ![w].pending = {ModelAlertKey("inactive", m, missing[m]) :
                            m \in {n \in Models : /\ Inactive(n)
                                                  /\ missing[n] <= task[w].at - AbsenceAlertAfter}}]
    /\ UNCHANGED <<clock, known, missing, alerts, delivered, acknowledged>>

(* The mail in progress is done with. *)
Forget(t) == [t EXCEPT !.stage = "next", !.key = NoKey, !.sentAt = NULL, !.ok = FALSE]

(* A bug used to validate the checks: any attempt counts, failed ones too. *)
AttemptExists(k) == alerts[k].result # "none"

EmailAlertExists(k) == alerts[k].result = "sent"

(* sendModelAlert up to Send: it gives up on k when it was sent, or when   *)
(* the query fails.                                                        *)
ConsiderAlert(w, k) ==
    /\ task[w].stage = "next" /\ k \in task[w].pending
    /\ task' = [task EXCEPT ![w].stage = "deliver", ![w].pending = @ \ {k},
                            ![w].key = k, ![w].sentAt = clock]
    /\ ~EmailAlertExists(k)
    /\ UNCHANGED <<clock, known, missing, alerts, delivered, acknowledged>>

SkipAlert(w, k) ==
    /\ task[w].stage = "next" /\ k \in task[w].pending
    /\ task' = [task EXCEPT ![w].pending = @ \ {k}]
    /\ UNCHANGED <<clock, known, missing, alerts, delivered, acknowledged>>

(* notifier.Send *)
Deliver(w, ok) ==
    /\ task[w].stage = "deliver"
    /\ task' = [task EXCEPT ![w].stage = "record", ![w].ok = ok]
    /\ delivered' = IF ok THEN delivered \cup {task[w].key} ELSE delivered
    /\ UNCHANGED <<clock, known, missing, alerts, acknowledged>>

(* Bugs used to validate the checks: the upsert has no WHERE; the attempt  *)
(* is recorded without its error.                                          *)
OverwrittenAlert(t) == [result |-> IF t.ok THEN "sent" ELSE "error", sentAt |-> t.sentAt]
ErrorlessAlert(t) == [result |-> "sent", sentAt |-> t.sentAt]

(* RecordEmailAlert's upsert: it replaces a failed attempt only. *)
RecordedAlert(t) ==
    IF alerts[t.key].result = "sent" THEN alerts[t.key]
    ELSE [result |-> IF t.ok THEN "sent" ELSE "error", sentAt |-> t.sentAt]

Record(w) ==
    LET k == task[w].key
    IN  /\ task[w].stage = "record"
        /\ alerts' = [alerts EXCEPT ![k] = RecordedAlert(task[w])]
        /\ acknowledged' = IF alerts'[k].result = "sent" THEN acknowledged \cup {k}
                                                         ELSE acknowledged
        /\ task' = [task EXCEPT ![w] = Forget(@)]
        /\ UNCHANGED <<clock, known, missing, delivered>>

(* The INSERT fails (the task's context expired during Send, or the        *)
(* database is away): it is logged, and the task goes on.                  *)
LoseRecord(w) ==
    /\ task[w].stage = "record"
    /\ task' = [task EXCEPT ![w] = Forget(@)]
    /\ UNCHANGED <<clock, known, missing, alerts, delivered, acknowledged>>

Finish(w) ==
    /\ task[w].stage = "next" /\ task[w].pending = {} /\ task[w].loaded
    /\ task' = [task EXCEPT ![w] = Idle]
    /\ UNCHANGED <<clock, known, missing, alerts, delivered, acknowledged>>

(* The worker dies, or the query for inactive models fails: what is pending *)
(* is forgotten.                                                           *)
Crash(w) ==
    /\ task[w].stage # "idle"
    /\ task' = [task EXCEPT ![w] = Idle]
    /\ UNCHANGED <<clock, known, missing, alerts, delivered, acknowledged>>

(* A bug used to validate the checks: retention spares no alert. *)
PrunesAll(k) == alerts[k].result # "none" /\ alerts[k].sentAt < clock - Retention

(* The alert's row is old and reports no absence of a model still inactive. *)
Prunable(k) ==
    /\ alerts[k].result # "none"
    /\ alerts[k].sentAt < clock - Retention
    /\ ~(k.type = "inactive" /\ Inactive(k.model))

(* PruneHistoryBefore, as far as email_alerts is concerned. *)
Prune(w) ==
    /\ task[w].stage = "idle"
    /\ alerts' = [k \in Key |-> IF Prunable(k) THEN NoAlert ELSE alerts[k]]
    /\ UNCHANGED <<clock, known, missing, task, delivered, acknowledged>>

(* The steps that start a task, and those of a task that has started. *)
Begin(w) ==
    \/ \E present \in SUBSET Models : TakeSnapshot(w, present)
    \/ \E gone \in SUBSET known : FailInventory(w, gone)
    \/ \E m \in Models : MarkInactive(w, m)
    \/ Prune(w)

Continue(w) ==
    \/ LoadInactive(w)
    \/ \E k \in task[w].pending : ConsiderAlert(w, k) \/ SkipAlert(w, k)
    \/ \E ok \in BOOLEAN : Deliver(w, ok)
    \/ Record(w)
    \/ LoseRecord(w)
    \/ Finish(w)
    \/ Crash(w)

Step(w) == Begin(w) \/ Continue(w)

OneAtATime == \A v, w \in Workers : task[v].stage = "idle" \/ task[w].stage = "idle" \/ v = w

NoteOverlap == overlapped' = (overlapped \/ ~OneAtATime')

Next ==
    /\ Tick \/ \E w \in Workers : Step(w)
    /\ NoteOverlap

Spec == Init /\ [][Next]_vars

(* Time goes on, a worker goes on with its task, snapshots are scheduled   *)
(* for ever, and each thing that can fail - the queries, the mail server,  *)
(* the record of a mail that went out - works again and again.             *)
Fairness ==
    /\ WF_vars(Tick /\ NoteOverlap)
    /\ \A w \in Workers :
          /\ SF_vars((\E present \in SUBSET Models : TakeSnapshot(w, present)) /\ NoteOverlap)
          /\ SF_vars(LoadInactive(w) /\ NoteOverlap)
          /\ SF_vars((\E k \in task[w].pending : ConsiderAlert(w, k)) /\ NoteOverlap)
          /\ SF_vars(Deliver(w, TRUE) /\ NoteOverlap)
          /\ SF_vars(task[w].ok /\ Record(w) /\ NoteOverlap)
          /\ WF_vars(Continue(w) /\ NoteOverlap)

FairSpec == Spec /\ Fairness

-----------------------------------------------------------------------------
(* Every variable has its type; a mail in progress has a key. *)
TypeOK ==
    /\ clock \in 1 .. MaxTime
    /\ known \subseteq Models
    /\ missing \in [Models -> 0 .. MaxTime]
    /\ alerts \in [Key -> Alert]
    /\ task \in [Workers -> Task]
    /\ \A w \in Workers : task[w].stage \in {"deliver", "record"} => task[w].key \in Key
    /\ delivered \subseteq Key
    /\ acknowledged \subseteq Key
    /\ overlapped \in BOOLEAN

(* A row that says a mail was sent is true: the notifier accepted one. *)
SentIsDelivered == \A k \in Key : alerts[k].result = "sent" => k \in delivered

(* A recorded delivery is not forgotten: no later attempt overwrites it,   *)
(* and retention removes it only when the absence it reports is over.      *)
SuccessSticks ==
    [][\A k \in Key : alerts[k].result = "sent" =>
          \/ alerts'[k] = alerts[k]
          \/ /\ alerts'[k] = NoAlert /\ alerts[k].sentAt < clock - Retention
             /\ k.type = "inactive" => ~Inactive(k.model)]_vars

(* docs/operations.md: "Model lifecycle alerts are deduplicated by alert   *)
(* key".  Until two tasks overlap, no mail is sent again once it was       *)
(* recorded as sent, not even after retention removed the record.  Tasks   *)
(* that overlap may both look a key up before either records it.           *)
Deduplicated ==
    [][\A w \in Workers :
          Deliver(w, TRUE) /\ ~overlapped => task[w].key \notin acknowledged]_vars

(* A failed delivery is retried by later snapshots until the absence is    *)
(* over or the mail went out and was recorded.                             *)
AlertedAbsence(m, t) ==
    missing[m] # t \/ alerts[ModelAlertKey("inactive", m, t)].result = "sent"

LongAbsenceIsReported ==
    \A m \in Models : \A t \in 1 .. MaxTime - AbsenceAlertAfter :
        missing[m] = t ~> AlertedAbsence(m, t)

(* What the mails are about, and what a snapshot's single step is taken    *)
(* from: the presence of models, which ModelStates implements.             *)
Table == INSTANCE Presence
ImplementsPresence == Table!Spec
=============================================================================
