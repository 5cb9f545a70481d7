--------------------------- MODULE Alerts_proofs ---------------------------
(***************************************************************************)
(* Theorems about Alerts, for any models, workers and times: the variables *)
(* keep their types, a row that says a mail was sent is true and sticks,   *)
(* and until two tasks overlap no mail is sent again.                      *)
(***************************************************************************)
EXTENDS Alerts, TLAPS

(* A worker that is idle holds nothing. *)
IdleOK == \A w \in Workers : task[w].stage = "idle" => task[w] = Idle

DeliveredOK ==
    /\ SentIsDelivered
    /\ \A w \in Workers : task[w].stage = "record" /\ task[w].ok => task[w].key \in delivered

(* Absences are those of known models and not dated ahead, nor are tasks. *)
AbsencesOK ==
    /\ \A m \in Models : missing[m] # NULL => m \in known /\ missing[m] <= clock
    /\ \A w \in Workers : task[w].at <= clock

InProgress(t) == t.stage \in {"deliver", "record"}
InHand(t) == t.pending \cup (IF InProgress(t) THEN {t.key} ELSE {})

(* The event that k reports has happened. *)
Happened(k) ==
    /\ k.at <= clock
    /\ k.type = "inactive" => k.at < clock
    /\ k.type = "first_seen" => k.model \in known
    /\ k.type = "returned" => k.at < clock \/ missing[k.model] \in {NULL, k.at}

(* It will not happen again: events have their time, absences end.         *)
Over(k) == k.at < clock /\ (k.type = "inactive" => missing[k.model] # k.at)

(* While nobody overlaps: what was recorded as sent still is, or it is     *)
(* over; what a task has in hand is not over, and events come once.        *)
RowOK(k) == alerts[k].result # "none" => k.at <= alerts[k].sentAt
SentOK(k) == Happened(k) /\ (alerts[k].result = "sent" \/ Over(k))
HeldOK(k) ==
    Happened(k) /\ IF k.type = "inactive" THEN missing[k.model] = k.at ELSE k \notin acknowledged
TaskOK(t) ==
    /\ \A k \in InHand(t) : HeldOK(k)
    /\ InProgress(t) => /\ t.key \notin acknowledged \cup t.pending
                       /\ t.key.at <= t.sentAt

OnceEach ==
    /\ OneAtATime
    /\ \A k \in Key : RowOK(k)
    /\ \A k \in acknowledged : SentOK(k)
    /\ \A w \in Workers : TaskOK(task[w])

DedupOK == ~overlapped => OnceEach

-----------------------------------------------------------------------------
(* Types *)

LEMMA Basics ==
    /\ MaxTime \in Nat \ {0} /\ AbsenceAlertAfter \in Nat \ {0} /\ Retention \in Nat
    /\ NULL \in 0 .. MaxTime /\ Idle \in Task /\ NoAlert \in Alert
<1>1. MaxTime \in Nat \ {0} /\ AbsenceAlertAfter \in Nat \ {0} /\ Retention \in Nat
  BY TimesAssumption, RetentionAssumption
<1>2. NULL \in 0 .. MaxTime
  BY <1>1 DEF NULL
<1>3. Idle \in Task
  BY <1>2, Zenon DEF Idle, Task, Stage
<1>4. NoAlert \in Alert
  BY <1>2 DEF NoAlert, Alert
<1> QED
  BY <1>1, <1>2, <1>3, <1>4

(* A task's step changes that task, and keeps its type. *)
LEMMA ChangesTask ==
    ASSUME TypeOK, NEW w \in Workers, NEW t \in Task, task' = [task EXCEPT ![w] = t],
           t.stage \in {"deliver", "record"} => t.key \in Key
    PROVE  /\ task' \in [Workers -> Task] /\ task'[w] = t
           /\ \A v \in Workers \ {w} : task'[v] = task[v]
           /\ \A v \in Workers : task'[v].stage \in {"deliver", "record"} => task'[v].key \in Key
BY DEF TypeOK

(* What begins when a snapshot is taken is typed, and so are its keys. *)
LEMMA EventKeysTyped ==
    ASSUME TypeOK, NEW present \in SUBSET Models
    PROVE  /\ EventKeys(present) \in SUBSET Key
           /\ \A k \in EventKeys(present) :
                 /\ k.at = clock /\ k.model \in present /\ k.type \in {"first_seen", "returned"}
                 /\ k.type = "first_seen" => k.model \notin known
                 /\ k.type = "returned" => ShouldAlertReturned(k.model)
<1>1. \A m \in Models : ModelAlertKey("first_seen", m, clock) \in Key
                        /\ ModelAlertKey("returned", m, clock) \in Key
  BY DEF ModelAlertKey, Key, AlertType, TypeOK
<1>2. \A m \in Models, type \in AlertType :
         LET k == ModelAlertKey(type, m, clock) IN k.at = clock /\ k.model = m /\ k.type = type
  BY DEF ModelAlertKey
<1> QED
  BY <1>1, <1>2 DEF EventKeys, AlertType

(* The absences that are loaded are long, and have a key each. *)
InactiveKeys(w) ==
    {ModelAlertKey("inactive", m, missing[m]) :
        m \in {n \in Models : Inactive(n) /\ missing[n] <= task[w].at - AbsenceAlertAfter}}

LEMMA InactiveKeysTyped ==
    ASSUME TypeOK, AbsencesOK, NEW w \in Workers
    PROVE  /\ InactiveKeys(w) \in SUBSET Key
           /\ \A k \in InactiveKeys(w) :
                 k.type = "inactive" /\ missing[k.model] = k.at /\ k.at < clock
<1>1. ASSUME NEW m \in Models, Inactive(m), missing[m] <= task[w].at - AbsenceAlertAfter
      PROVE  LET k == ModelAlertKey("inactive", m, missing[m])
             IN  k \in Key /\ k.type = "inactive" /\ k.model = m /\ missing[k.model] = k.at /\ k.at < clock
  <2>1. missing[m] \in 1 .. MaxTime /\ missing[m] \in Int /\ task[w].at \in Int /\ clock \in Int
    BY <1>1, Basics DEF TypeOK, Inactive, NULL, Task
  <2>2. missing[m] < clock
    BY <1>1, <2>1, Basics DEF AbsencesOK
  <2> QED
    BY <2>1, <2>2 DEF ModelAlertKey, Key, AlertType
<1> QED
  BY <1>1 DEF InactiveKeys

(* Each step of a task, by what it makes of the task. *)
LEMMA BeginTyped ==
    ASSUME TypeOK, NEW w \in Workers, Begin(w)
    PROVE  /\ missing' \in [Models -> 0 .. MaxTime] /\ known' \subseteq Models
           /\ alerts' \in [Key -> Alert] /\ UNCHANGED <<clock, delivered, acknowledged>>
           /\ \/ UNCHANGED task
              \/ \E keys \in SUBSET Key :
                    task' = [task EXCEPT ![w] = [Idle EXCEPT !.stage = "next", !.at = clock,
                                                             !.pending = keys]]
<1>0. clock \in 0 .. MaxTime /\ missing \in [Models -> 0 .. MaxTime]
  BY Basics DEF TypeOK
<1>1. ASSUME NEW present \in SUBSET Models, TakeSnapshot(w, present)
      PROVE  /\ missing' \in [Models -> 0 .. MaxTime] /\ known' \subseteq Models
             /\ alerts' \in [Key -> Alert] /\ UNCHANGED <<clock, delivered, acknowledged>>
             /\ \E keys \in SUBSET Key :
                   task' = [task EXCEPT ![w] = [Idle EXCEPT !.stage = "next", !.at = clock,
                                                            !.pending = keys]]
  <2>1. missing' \in [Models -> 0 .. MaxTime]
    BY <1>0, <1>1, Basics DEF TakeSnapshot
  <2>2. known' \subseteq Models /\ alerts' \in [Key -> Alert]
    BY <1>1 DEF TakeSnapshot, TypeOK
  <2>3. UNCHANGED <<clock, delivered, acknowledged>>
    BY <1>1 DEF TakeSnapshot
  <2>4. EventKeys(present) \in SUBSET Key
    BY EventKeysTyped
  <2>5. task' = [task EXCEPT ![w] = [Idle EXCEPT !.stage = "next", !.at = clock,
                                                 !.pending = EventKeys(present)]]
    BY <1>1 DEF TakeSnapshot
  <2> QED
    BY <2>1, <2>2, <2>3, <2>4, <2>5
<1>2. ASSUME NEW gone \in SUBSET known, FailInventory(w, gone)
      PROVE  /\ missing' \in [Models -> 0 .. MaxTime]
             /\ UNCHANGED <<clock, known, alerts, delivered, acknowledged>>
             /\ task' = [task EXCEPT ![w] = [Idle EXCEPT !.stage = "next", !.at = clock,
                                                          !.pending = {}]]
  <2>1. missing' \in [Models -> 0 .. MaxTime]
    BY <1>0, <1>2 DEF FailInventory
  <2>2. [Idle EXCEPT !.stage = "next", !.at = clock]
          = [Idle EXCEPT !.stage = "next", !.at = clock, !.pending = {}]
    <3>1. Idle \in Task /\ Idle.pending = {}
      BY Basics DEF Idle
    <3> QED
      BY <3>1 DEF Task
  <2> QED
    BY <1>2, <2>1, <2>2 DEF FailInventory
<1>3. CASE \E m \in Models : MarkInactive(w, m)
  BY <1>0, <1>3 DEF MarkInactive, TypeOK
<1>4. CASE Prune(w)
  BY <1>4, Basics DEF Prune, TypeOK
<1>5. {} \in SUBSET Key /\ known \subseteq Models /\ alerts \in [Key -> Alert]
  BY DEF TypeOK
<1> QED
  BY <1>1, <1>2, <1>3, <1>4, <1>5 DEF Begin

(* A task that goes on: what its next state is. *)
Continued(w, t) ==
    /\ task' = [task EXCEPT ![w] = t]
    /\ InProgress(t) => t.key \in Key
    /\ t.stage = "idle" => t = Idle
    /\ t.at \in {NULL, task[w].at}
    /\ t.stage = "record" => \E ok \in BOOLEAN : Deliver(w, ok)

LEMMA NextTaskTyped ==
    ASSUME TypeOK, AbsencesOK, NEW w \in Workers, Continue(w)
    PROVE  \E t \in Task : Continued(w, t)
<1>0. task[w] \in Task /\ clock \in 0 .. MaxTime /\ Idle \in Task /\ NULL \in 0 .. MaxTime
  BY Basics DEF TypeOK
<1>1. CASE LoadInactive(w)
  <2> DEFINE yes == TRUE
             t == [task[w] EXCEPT !.loaded = yes, !.at = NULL, !.pending = InactiveKeys(w)]
  <2>1. task' = [task EXCEPT ![w] = t]
    BY <1>1 DEF LoadInactive, InactiveKeys, TypeOK
  <2>2. yes \in BOOLEAN
    OBVIOUS
  <2>3. task[w].stage = "next"
    BY <1>1 DEF LoadInactive
  <2> HIDE DEF yes
  <2>4. t \in Task /\ t.stage = "next" /\ t.at = NULL
    BY <1>0, <2>2, <2>3, InactiveKeysTyped DEF Task
  <2> HIDE DEF t
  <2> QED
    BY <2>1, <2>4 DEF Continued, InProgress
<1>2. ASSUME NEW k \in task[w].pending, ConsiderAlert(w, k)
      PROVE  \E t \in Task : Continued(w, t)
  <2> DEFINE t == [task[w] EXCEPT !.stage = "deliver", !.pending = task[w].pending \ {k},
                                  !.key = k, !.sentAt = clock]
  <2>1. k \in Key
    BY <1>0 DEF Task
  <2>2. task' = [task EXCEPT ![w] = t]
    BY <1>2 DEF ConsiderAlert, TypeOK
  <2>3. t \in Task /\ t.stage = "deliver" /\ t.key = k /\ t.at = task[w].at
    BY <1>0, <2>1 DEF Task, Stage
  <2> HIDE DEF t
  <2> QED
    BY <2>1, <2>2, <2>3 DEF Continued
<1>3. ASSUME NEW k \in task[w].pending, SkipAlert(w, k)
      PROVE  \E t \in Task : Continued(w, t)
  <2> DEFINE t == [task[w] EXCEPT !.pending = task[w].pending \ {k}]
  <2>1. task' = [task EXCEPT ![w] = t] /\ task[w].stage = "next"
    BY <1>3 DEF SkipAlert, TypeOK
  <2>2. t \in Task /\ t.stage = "next" /\ t.at = task[w].at
    BY <1>0, <2>1 DEF Task
  <2> HIDE DEF t
  <2> QED
    BY <2>1, <2>2 DEF Continued, InProgress
<1>4. ASSUME NEW ok \in BOOLEAN, Deliver(w, ok)
      PROVE  \E t \in Task : Continued(w, t)
  <2> DEFINE t == [task[w] EXCEPT !.stage = "record", !.ok = ok]
  <2>1. task' = [task EXCEPT ![w] = t] /\ task[w].key \in Key
    BY <1>4 DEF Deliver, TypeOK
  <2>2. t \in Task /\ t.stage = "record" /\ t.key = task[w].key /\ t.at = task[w].at
    BY <1>0 DEF Task, Stage
  <2> HIDE DEF t
  <2> QED
    BY <1>4, <2>1, <2>2 DEF Continued
<1>5. CASE Record(w) \/ LoseRecord(w)
  <2> DEFINE no == FALSE
             t == [task[w] EXCEPT !.stage = "next", !.key = NoKey, !.sentAt = NULL, !.ok = no]
  <2>1. task' = [task EXCEPT ![w] = t]
    BY <1>5 DEF Record, LoseRecord, Forget
  <2>2. no \in BOOLEAN
    OBVIOUS
  <2> HIDE DEF no
  <2>3. t \in Task /\ t.stage = "next" /\ t.at = task[w].at
    BY <1>0, <2>2 DEF Task, Stage
  <2> HIDE DEF t
  <2> QED
    BY <2>1, <2>3 DEF Continued, InProgress
<1>6. CASE Finish(w) \/ Crash(w)
  <2>1. Idle.stage = "idle" /\ Idle.at = NULL
    BY DEF Idle
  <2> QED
    BY <1>0, <1>6, <2>1 DEF Finish, Crash, Continued, InProgress
<1> QED
  BY <1>1, <1>2, <1>3, <1>4, <1>5, <1>6 DEF Continue

(* Types are kept, and a worker that is idle holds nothing. *)
Typed == TypeOK /\ IdleOK /\ AbsencesOK

LEMMA NextTyped ==
    ASSUME Typed, [Next]_vars
    PROVE  Typed'
<1> USE DEF Typed
<1>0. /\ clock \in 1 .. MaxTime /\ NULL \in 0 .. MaxTime /\ MaxTime \in Nat
      /\ clock \in 0 .. MaxTime /\ NULL <= clock
      /\ \A v \in Workers : task[v].at \in 0 .. MaxTime
  BY Basics DEF TypeOK, Task, NULL
<1>1. CASE Tick /\ NoteOverlap
  <2>1. overlapped' \in BOOLEAN
    BY <1>1, Zenon DEF NoteOverlap, TypeOK
  <2>2. clock' \in 1 .. MaxTime /\ clock <= clock'
    BY <1>0, <1>1 DEF Tick
  <2>3. \A m \in Models : missing[m] \in 0 .. MaxTime
    BY DEF TypeOK
  <2>4. AbsencesOK'
    BY <1>0, <1>1, <2>2, <2>3 DEF Tick, AbsencesOK
  <2> QED
    BY <1>1, <2>1, <2>2, <2>4 DEF Tick, TypeOK, IdleOK
<1>2. ASSUME NEW w \in Workers, Begin(w), NoteOverlap
      PROVE  Typed'
  <2>1. overlapped' \in BOOLEAN
    BY <1>2, Zenon DEF NoteOverlap, TypeOK
  <2>2. /\ missing' \in [Models -> 0 .. MaxTime] /\ known' \subseteq Models
        /\ alerts' \in [Key -> Alert] /\ UNCHANGED <<clock, delivered, acknowledged>>
        /\ \/ UNCHANGED task
           \/ \E keys \in SUBSET Key :
                 task' = [task EXCEPT ![w] = [Idle EXCEPT !.stage = "next", !.at = clock,
                                                          !.pending = keys]]
    BY <1>2, BeginTyped
  <2>3. /\ task' \in [Workers -> Task]
        /\ \A v \in Workers : InProgress(task'[v]) => task'[v].key \in Key
        /\ \A v \in Workers : task'[v].stage = "idle" => task'[v] = Idle
        /\ \A v \in Workers : task'[v].at <= clock
    <3>1. CASE UNCHANGED task
      BY <3>1 DEF TypeOK, IdleOK, AbsencesOK, InProgress
    <3>2. CASE ~UNCHANGED task
      <4>0. PICK keys \in SUBSET Key :
               task' = [task EXCEPT ![w] = [Idle EXCEPT !.stage = "next", !.at = clock,
                                                        !.pending = keys]]
        BY <2>2, <3>2
      <4> DEFINE t == [Idle EXCEPT !.stage = "next", !.at = clock, !.pending = keys]
      <4>1. t \in Task /\ t.stage = "next" /\ t.at = clock
        BY <1>0, Basics DEF Task, Stage
      <4>2. task' = [task EXCEPT ![w] = t]
        BY <4>0
      <4> HIDE DEF t
      <4>3. /\ task' \in [Workers -> Task] /\ task'[w] = t
            /\ \A v \in Workers \ {w} : task'[v] = task[v]
            /\ \A v \in Workers : task'[v].stage \in {"deliver", "record"} => task'[v].key \in Key
        BY <4>1, <4>2, ChangesTask
      <4> QED
        BY <1>0, <4>1, <4>3 DEF InProgress, IdleOK, AbsencesOK
    <3> QED
      BY <3>1, <3>2
  <2>4. \A m \in Models : missing'[m] # NULL => m \in known' /\ missing'[m] <= clock
    <3>1. ASSUME NEW present \in SUBSET Models, TakeSnapshot(w, present), NEW m \in Models
          PROVE  missing'[m] # NULL => m \in known' /\ missing'[m] <= clock
      <4>1. missing'[m] = CASE m \in present -> NULL
                            [] m \in known \ present /\ missing[m] = NULL -> clock
                            [] OTHER -> missing[m]
        BY <3>1 DEF TakeSnapshot
      <4>2. missing'[m] \in {NULL, missing[m]} \/ (m \in known /\ missing'[m] = clock)
        BY <4>1
      <4>3. m \in known => m \in known'
        BY <3>1 DEF TakeSnapshot
      <4> QED
        BY <1>0, <4>2, <4>3 DEF AbsencesOK
    <3> QED
      BY <1>0, <1>2, <3>1 DEF Begin, FailInventory, MarkInactive, Prune, AbsencesOK, TypeOK
  <2> QED
    BY <2>1, <2>2, <2>3, <2>4 DEF TypeOK, IdleOK, AbsencesOK, InProgress
<1>3. ASSUME NEW w \in Workers, Continue(w), NoteOverlap
      PROVE  Typed'
  <2>1. overlapped' \in BOOLEAN
    BY <1>3, Zenon DEF NoteOverlap, TypeOK
  <2>2. PICK t \in Task : Continued(w, t)
    BY <1>3, NextTaskTyped
  <2>3. /\ task' \in [Workers -> Task] /\ task'[w] = t
        /\ \A v \in Workers \ {w} : task'[v] = task[v]
        /\ \A v \in Workers : task'[v].stage \in {"deliver", "record"} => task'[v].key \in Key
    BY <2>2, ChangesTask DEF Continued, InProgress
  <2>4. UNCHANGED <<clock, known, missing>>
    BY <1>3 DEF Continue, LoadInactive, ConsiderAlert, SkipAlert, Deliver, Record, LoseRecord,
                Finish, Crash
  <2>5. /\ alerts' \in [Key -> Alert] /\ delivered' \subseteq Key /\ acknowledged' \subseteq Key
    <3>1. CASE Record(w)
      <4>1. task[w] \in Task /\ task[w].key \in Key
        BY <3>1 DEF Record, TypeOK
      <4>2. RecordedAlert(task[w]) \in Alert
        BY <4>1 DEF RecordedAlert, Alert, Task, TypeOK
      <4> QED
        BY <3>1, <4>1, <4>2 DEF Record, TypeOK
    <3>2. CASE \E ok \in BOOLEAN : Deliver(w, ok)
      BY <3>2 DEF Deliver, TypeOK
    <3> QED
      BY <1>3, <3>1, <3>2 DEF Continue, LoadInactive, ConsiderAlert, SkipAlert, LoseRecord,
                              Finish, Crash, TypeOK
  <2>6. IdleOK'
    BY <2>2, <2>3 DEF IdleOK, Continued
  <2>7. AbsencesOK'
    <3>1. \A v \in Workers : task'[v].at <= clock
      BY <1>0, <2>2, <2>3 DEF AbsencesOK, Continued
    <3> QED
      BY <2>4, <3>1 DEF AbsencesOK
  <2> QED
    BY <2>1, <2>3, <2>4, <2>5, <2>6, <2>7 DEF TypeOK
<1>4. CASE UNCHANGED vars
  BY <1>4 DEF vars, TypeOK, IdleOK, AbsencesOK
<1> QED
  BY <1>1, <1>2, <1>3, <1>4 DEF Next, Step

LEMMA InitTyped == Init => Typed
<1>1. 1 \in 1 .. MaxTime /\ FALSE \in BOOLEAN /\ Idle.stage = "idle" /\ Idle.at = NULL /\ NULL <= 1
  BY Basics DEF Idle, NULL
<1> QED
  BY <1>1, Basics DEF Init, Typed, TypeOK, IdleOK, AbsencesOK

(* For any models, workers and times, the variables of the alert task keep *)
(* their types; the task that delivers or records a mail has its key.      *)
THEOREM TypeCorrect == Spec => []TypeOK
<1>1. Typed => TypeOK
  BY DEF Typed
<1> QED
  BY <1>1, InitTyped, NextTyped, PTL DEF Spec

-----------------------------------------------------------------------------
(* Sent means delivered *)

LEMMA NextDelivered ==
    ASSUME Typed, DeliveredOK, [Next]_vars
    PROVE  DeliveredOK'
<1>1. CASE Tick \/ UNCHANGED vars
  BY <1>1 DEF Tick, vars, DeliveredOK, SentIsDelivered
<1>2. ASSUME NEW w \in Workers, Begin(w)
      PROVE  DeliveredOK'
  <2>1. delivered' = delivered /\ \A k \in Key : alerts'[k].result = "sent" => alerts[k].result = "sent"
    <3>1. CASE Prune(w)
      BY <3>1 DEF Prune, NoAlert
    <3>2. CASE UNCHANGED <<alerts, delivered>>
      BY <3>2
    <3> QED
      BY <1>2, <3>1, <3>2 DEF Begin, TakeSnapshot, FailInventory, MarkInactive
  <2>2. \A v \in Workers : task'[v].stage = "record" => task'[v] = task[v]
    <3>1. UNCHANGED task
          \/ \E keys \in SUBSET Key :
                task' = [task EXCEPT ![w] = [Idle EXCEPT !.stage = "next", !.at = clock,
                                                         !.pending = keys]]
      BY <1>2, BeginTyped DEF Typed
    <3>2. Idle \in Task /\ task \in [Workers -> Task]
      BY Basics DEF Typed, TypeOK
    <3> QED
      BY <3>1, <3>2 DEF Task
  <2> QED
    BY <2>1, <2>2 DEF DeliveredOK, SentIsDelivered
<1>3. ASSUME NEW w \in Workers, Continue(w)
      PROVE  DeliveredOK'
  <2>0. task \in [Workers -> Task] /\ alerts \in [Key -> Alert]
    BY DEF Typed, TypeOK
  <2>1. ASSUME NEW ok \in BOOLEAN, Deliver(w, ok)
        PROVE  DeliveredOK'
    <3>1. task'[w].ok = ok /\ task'[w].key = task[w].key /\ \A v \in Workers \ {w} : task'[v] = task[v]
      BY <2>0, <2>1 DEF Deliver, Task
    <3>2. alerts' = alerts /\ delivered' = IF ok THEN delivered \cup {task[w].key} ELSE delivered
      BY <2>1 DEF Deliver
    <3>3. delivered \subseteq delivered' /\ (ok => task[w].key \in delivered')
      BY <3>2
    <3> QED
      BY <3>1, <3>2, <3>3 DEF DeliveredOK, SentIsDelivered
  <2>2. CASE Record(w)
    <3>1. task[w].key \in Key /\ task[w].stage = "record"
      BY <2>2 DEF Record, Typed, TypeOK
    <3>2. /\ delivered' = delivered
          /\ \A k \in Key \ {task[w].key} : alerts'[k] = alerts[k]
          /\ alerts'[task[w].key] = RecordedAlert(task[w])
      BY <2>0, <2>2, <3>1 DEF Record
    <3>3. RecordedAlert(task[w]).result = "sent" => task[w].key \in delivered
      BY <3>1 DEF RecordedAlert, DeliveredOK, SentIsDelivered
    <3>4. task'[w].stage = "next" /\ \A v \in Workers \ {w} : task'[v] = task[v]
      BY <2>0, <2>2 DEF Record, Forget, Task
    <3> QED
      BY <3>2, <3>3, <3>4 DEF DeliveredOK, SentIsDelivered
  <2>3. CASE ~(\E ok \in BOOLEAN : Deliver(w, ok)) /\ ~Record(w)
    <3>1. alerts' = alerts /\ delivered' = delivered
      BY <1>3, <2>3 DEF Continue, LoadInactive, ConsiderAlert, SkipAlert, LoseRecord, Finish, Crash
    <3>2. PICK t \in Task : Continued(w, t)
      BY <1>3, NextTaskTyped DEF Typed
    <3>3. task'[w].stage # "record" /\ \A v \in Workers \ {w} : task'[v] = task[v]
      BY <2>0, <2>3, <3>2 DEF Continued
    <3> QED
      BY <3>1, <3>3 DEF DeliveredOK, SentIsDelivered
  <2> QED
    BY <2>1, <2>2, <2>3
<1> QED
  BY <1>1, <1>2, <1>3 DEF Next, Step

(* A row of email_alerts that says a mail was sent is true, whatever       *)
(* overlaps, fails or crashes: RecordEmailAlert writes no error only after *)
(* Send has returned none.                                                 *)
THEOREM SentIsDeliveredAlways == Spec => []SentIsDelivered
<1>1. Init => DeliveredOK
  BY DEF Init, DeliveredOK, SentIsDelivered, NoAlert, Idle
<1>2. DeliveredOK => SentIsDelivered
  BY DEF DeliveredOK
<1> QED
  BY <1>1, <1>2, InitTyped, NextTyped, NextDelivered, PTL DEF Spec

(* A delivery that was recorded sticks: RecordEmailAlert's upsert replaces *)
(* failed attempts only, and PruneHistoryBefore spares what reports an     *)
(* absence that still lasts.                                               *)
THEOREM SuccessSticksAlways == Spec => SuccessSticks
<1> DEFINE Stuck(k) ==
              \/ alerts'[k] = alerts[k]
              \/ /\ alerts'[k] = NoAlert /\ alerts[k].sentAt < clock - Retention
                 /\ k.type = "inactive" => ~Inactive(k.model)
           Sticks == \A k \in Key : alerts[k].result = "sent" => Stuck(k)
<1>1. Typed /\ [Next]_vars => [Sticks]_vars
  <2> SUFFICES ASSUME Typed, Next, NEW k \in Key, alerts[k].result = "sent"
               PROVE  Stuck(k)
    OBVIOUS
  <2>1. ASSUME NEW w \in Workers, Prune(w)
        PROVE  Stuck(k)
    BY <2>1 DEF Prune, Prunable
  <2>2. ASSUME NEW w \in Workers, Record(w)
        PROVE  Stuck(k)
    <3>1. alerts' = [alerts EXCEPT ![task[w].key] = RecordedAlert(task[w])] /\ k \in DOMAIN alerts
      BY <2>2 DEF Record, Typed, TypeOK
    <3>2. k = task[w].key => RecordedAlert(task[w]) = alerts[k]
      BY DEF RecordedAlert
    <3> QED
      BY <3>1, <3>2
  <2>3. CASE UNCHANGED alerts
    BY <2>3
  <2> QED
    BY <2>1, <2>2, <2>3 DEF Next, Step, Tick, Begin, Continue, TakeSnapshot, FailInventory,
                            MarkInactive, LoadInactive, ConsiderAlert, SkipAlert, Deliver,
                            LoseRecord, Finish, Crash
<1> QED
  BY <1>1, InitTyped, NextTyped, PTL DEF Spec, SuccessSticks

-----------------------------------------------------------------------------
(* Once each *)

(* When one worker has a task at hand, the others hold nothing. *)
LEMMA OthersIdle ==
    ASSUME Typed, OneAtATime, NEW w \in Workers, task[w].stage # "idle"
    PROVE  \A v \in Workers \ {w} : task[v] = Idle
BY DEF Typed, IdleOK, OneAtATime

(* What an event of the past was, it stays; absences only end.  An absence *)
(* that begins does so now.                                                *)
Moves(m) == missing'[m] \in {NULL, missing[m]} \/ (missing[m] = NULL /\ missing'[m] = clock)

LEMMA PastStays ==
    ASSUME Typed, NEW k \in Key, clock' = clock, known \subseteq known', Moves(k.model)
    PROVE  (Happened(k) => Happened(k)') /\ (Over(k) => Over(k)')
<1>1. k.at \in 1 .. MaxTime /\ clock \in 1 .. MaxTime /\ NULL = 0 /\ MaxTime \in Nat /\ k.model \in Models
  BY Basics DEF Typed, TypeOK, Key, NULL
<1>2. missing[k.model] \in 0 .. MaxTime
  BY <1>1 DEF Typed, TypeOK
<1>3. ASSUME Happened(k) PROVE Happened(k)'
  BY <1>1, <1>2, <1>3 DEF Happened, Moves
<1>4. ASSUME Over(k) PROVE Over(k)'
  BY <1>1, <1>2, <1>4 DEF Over, Moves
<1> QED
  BY <1>3, <1>4

LEMMA TickOnceEach ==
    ASSUME Typed, OnceEach, Tick
    PROVE  OnceEach'
<1>0. clock \in Int /\ \A k \in Key : k.at \in Int
  BY Basics DEF Typed, TypeOK, Key
<1>1. clock' = clock + 1 /\ UNCHANGED <<known, missing, alerts, task, delivered, acknowledged>>
  BY DEF Tick
<1>2. \A k \in Key : Happened(k) => Happened(k)'
  BY <1>0, <1>1 DEF Happened
<1>3. \A k \in Key : Over(k) => Over(k)'
  BY <1>0, <1>1 DEF Over
<1>4. \A k \in acknowledged : SentOK(k)'
  BY <1>1, <1>2, <1>3 DEF SentOK, OnceEach, Typed, TypeOK
<1>5. ASSUME NEW w \in Workers PROVE TaskOK(task[w])'
  <2>1. InHand(task[w]) \subseteq Key
    BY DEF InHand, InProgress, Typed, TypeOK, Task
  <2> QED
    BY <1>1, <1>2, <2>1 DEF TaskOK, HeldOK, OnceEach, InHand
<1> QED
  BY <1>1, <1>4, <1>5 DEF OnceEach, OneAtATime, RowOK

(* A snapshot or a failed listing begins a task: its events are new, and   *)
(* nothing else is in hand.                                                *)
LEMMA BeginOnceEach ==
    ASSUME Typed, OnceEach, NEW w \in Workers, OneAtATime', NEW keys \in SUBSET Key,
           task[w].stage = "idle", UNCHANGED <<clock, alerts, acknowledged>>,
           task' = [task EXCEPT ![w] = [Idle EXCEPT !.stage = "next", !.at = clock, !.pending = keys]],
           known \subseteq known', \A m \in Models : Moves(m),
           \A k \in keys : Happened(k)' /\ k.type # "inactive" /\ k \notin acknowledged
    PROVE  OnceEach'
<1>0. task \in [Workers -> Task] /\ acknowledged \subseteq Key
  BY DEF Typed, TypeOK
<1>1. \A k \in Key : Happened(k) => Happened(k)'
  BY PastStays DEF Key
<1>2. \A k \in Key : Over(k) => Over(k)'
  BY PastStays DEF Key
<1>3. \A k \in acknowledged' : SentOK(k)'
  BY <1>0, <1>1, <1>2 DEF SentOK, OnceEach
<1> DEFINE t == [Idle EXCEPT !.stage = "next", !.at = clock, !.pending = keys]
<1>4. t.stage = "next" /\ t.pending = keys
  BY Basics DEF Task
<1>5. task'[w] = t /\ \A v \in Workers \ {w} : task'[v] = task[v]
  BY <1>0
<1> HIDE DEF t
<1>6. TaskOK(task[w])'
  <2>1. task'[w].stage = "next" /\ task'[w].pending = keys
    BY <1>4, <1>5
  <2>2. InHand(task[w])' = keys /\ ~InProgress(task[w])'
    BY <2>1 DEF InHand, InProgress
  <2> QED
    BY <2>2 DEF TaskOK, HeldOK
<1>7. \A v \in Workers \ {w} : task[v] = Idle
  BY <1>4, <1>5 DEF OneAtATime, Typed, IdleOK
<1>8. ASSUME NEW v \in Workers \ {w} PROVE TaskOK(task[v])'
  <2>1. task'[v] = Idle
    BY <1>5, <1>7
  <2> QED
    BY <2>1 DEF TaskOK, InHand, InProgress, Idle
<1>9. \A v \in Workers : TaskOK(task[v])'
  BY <1>6, <1>8
<1>10. \A k \in Key : RowOK(k)'
  BY DEF OnceEach, RowOK
<1> QED
  BY <1>3, <1>9, <1>10 DEF OnceEach

LEMMA SnapshotOnceEach ==
    ASSUME Typed, OnceEach, NEW w \in Workers, OneAtATime',
           NEW present \in SUBSET Models, TakeSnapshot(w, present)
    PROVE  OnceEach'
<1>0. /\ clock \in 1 .. MaxTime /\ MaxTime \in Nat /\ NULL = 0 /\ AbsenceAlertAfter \in Nat \ {0}
      /\ missing \in [Models -> 0 .. MaxTime]
  BY Basics DEF Typed, TypeOK, NULL
<1>1. ASSUME NEW m \in Models
      PROVE  Moves(m) /\ (m \in present => missing'[m] = NULL)
  <2>1. missing'[m] = CASE m \in present -> NULL
                        [] m \in known \ present /\ missing[m] = NULL -> clock
                        [] OTHER -> missing[m]
    BY DEF TakeSnapshot
  <2> QED
    BY <2>1 DEF Moves
<1>2. known \subseteq known' /\ present \subseteq known' /\ UNCHANGED <<clock, alerts, acknowledged>>
  BY DEF TakeSnapshot
<1>3. ASSUME NEW k \in EventKeys(present)
      PROVE  Happened(k)' /\ k.type # "inactive" /\ k \notin acknowledged
  <2>1. /\ k.at = clock /\ k.model \in present /\ k.type \in {"first_seen", "returned"}
        /\ k.type = "first_seen" => k.model \notin known
        /\ k.type = "returned" => ShouldAlertReturned(k.model)
    BY EventKeysTyped DEF Typed
  <2>2. k.type = "returned" => missing[k.model] \notin {NULL, k.at}
    BY <1>0, <2>1 DEF ShouldAlertReturned, Inactive
  <2>3. ~Happened(k)
    BY <1>0, <2>1, <2>2 DEF Happened
  <2>4. Happened(k)'
    BY <1>0, <1>1, <1>2, <2>1 DEF Happened
  <2> QED
    BY <2>1, <2>3, <2>4 DEF OnceEach, SentOK
<1>4. EventKeys(present) \in SUBSET Key
  BY EventKeysTyped DEF Typed
<1>5. /\ task[w].stage = "idle"
      /\ task' = [task EXCEPT ![w] = [Idle EXCEPT !.stage = "next", !.at = clock,
                                                  !.pending = EventKeys(present)]]
  BY DEF TakeSnapshot
<1> QED
  BY <1>1, <1>2, <1>3, <1>4, <1>5, BeginOnceEach

LEMMA FailureOnceEach ==
    ASSUME Typed, OnceEach, NEW w \in Workers, OneAtATime',
           NEW gone \in SUBSET known, FailInventory(w, gone)
    PROVE  OnceEach'
<1>1. \A m \in Models : Moves(m)
  BY DEF FailInventory, Moves
<1>2. Idle \in Task /\ Idle.pending = {}
  BY Basics DEF Idle
<1>3. [Idle EXCEPT !.stage = "next", !.at = clock]
        = [Idle EXCEPT !.stage = "next", !.at = clock, !.pending = {}]
  BY <1>2 DEF Task
<1>4. /\ task[w].stage = "idle" /\ UNCHANGED <<clock, known, alerts, acknowledged>>
      /\ task' = [task EXCEPT ![w] = [Idle EXCEPT !.stage = "next", !.at = clock, !.pending = {}]]
  BY <1>3 DEF FailInventory
<1> DEFINE none == {}
<1>5. none \in SUBSET Key /\ \A k \in none : Happened(k)' /\ k.type # "inactive" /\ k \notin acknowledged
  OBVIOUS
<1>6. task' = [task EXCEPT ![w] = [Idle EXCEPT !.stage = "next", !.at = clock, !.pending = none]]
  BY <1>4
<1>7. known \subseteq known'
  BY <1>4
<1> HIDE DEF none
<1> QED
  BY <1>1, <1>4, <1>5, <1>6, <1>7, BeginOnceEach

(* A mark dates an absence now: no key in hand reports an earlier one of   *)
(* the same model, which was there.                                        *)
LEMMA MarkOnceEach ==
    ASSUME Typed, OnceEach, NEW w \in Workers, NEW m \in Models, MarkInactive(w, m)
    PROVE  OnceEach'
<1>0. UNCHANGED <<clock, known, alerts, task, delivered, acknowledged>>
  BY DEF MarkInactive
<1>1. \A n \in Models : Moves(n)
  BY DEF MarkInactive, Moves, Typed, TypeOK
<1>2. \A k \in Key : (Happened(k) => Happened(k)') /\ (Over(k) => Over(k)')
  BY <1>0, <1>1, PastStays DEF Key
<1>3. \A k \in acknowledged' : SentOK(k)'
  BY <1>0, <1>2 DEF SentOK, OnceEach, Typed, TypeOK
<1>4. ASSUME NEW k \in Key, missing[k.model] = k.at
      PROVE  missing'[k.model] = k.at
  <2>1. missing[k.model] # NULL /\ k.model \in Models
    BY <1>4 DEF Key, NULL
  <2> QED
    BY <1>4, <2>1 DEF MarkInactive, Typed, TypeOK
<1>5. ASSUME NEW v \in Workers PROVE TaskOK(task[v])'
  <2>1. InHand(task[v]) \subseteq Key
    BY DEF InHand, InProgress, Typed, TypeOK, Task
  <2> QED
    BY <1>0, <1>2, <1>4, <2>1 DEF TaskOK, HeldOK, OnceEach, InHand
<1> QED
  BY <1>0, <1>3, <1>5 DEF OnceEach, OneAtATime, RowOK

(* What retention removes is over. *)
LEMMA PruneOnceEach ==
    ASSUME Typed, OnceEach, NEW w \in Workers, Prune(w)
    PROVE  OnceEach'
<1>0. /\ UNCHANGED <<clock, known, missing, task, delivered, acknowledged>>
      /\ \A k \in Key : alerts'[k] = IF Prunable(k) THEN NoAlert ELSE alerts[k]
  BY DEF Prune
<1>1. ASSUME NEW k \in Key PROVE RowOK(k)'
  BY <1>0 DEF RowOK, NoAlert, OnceEach
<1>2. ASSUME NEW k \in Key, Prunable(k) PROVE Over(k)
  <2>0. k.at \in 1 .. MaxTime /\ k.model \in Models /\ alerts[k] \in Alert /\ clock \in 1 .. MaxTime
    BY DEF Typed, TypeOK, Key
  <2>1. /\ k.at \in Int /\ clock \in Int /\ k.model \in Models /\ k.at \in 1 .. MaxTime
        /\ alerts[k].sentAt \in Int /\ Retention \in Nat
    BY <2>0, Basics DEF Alert
  <2>2. k.at < clock
    BY <1>2, <2>1 DEF Prunable, OnceEach, RowOK
  <2>3. k.type = "inactive" => missing[k.model] = NULL
    BY <1>2, <2>1 DEF Prunable, Inactive, Typed, AbsencesOK
  <2> QED
    BY <2>1, <2>2, <2>3 DEF Over, NULL
<1>3. ASSUME NEW k \in acknowledged PROVE SentOK(k)'
  <2>1. k \in Key
    BY DEF Typed, TypeOK
  <2>2. SentOK(k)
    BY DEF OnceEach
  <2>3. (Happened(k)' <=> Happened(k)) /\ (Over(k)' <=> Over(k))
    BY <1>0 DEF Happened, Over
  <2> QED
    BY <1>0, <1>2, <2>1, <2>2, <2>3 DEF SentOK
<1>4. ASSUME NEW v \in Workers PROVE TaskOK(task[v])'
  BY <1>0 DEF TaskOK, HeldOK, OnceEach, InHand, Happened
<1> QED
  BY <1>0, <1>1, <1>3, <1>4 DEF OnceEach, OneAtATime

(* A task goes on: no worker but its own has one, so the table is looked   *)
(* up, and the mail recorded, with nobody in between.                      *)
LEMMA ContinueOnceEach ==
    ASSUME Typed, OnceEach, NEW w \in Workers, Continue(w)
    PROVE  OnceEach'
<1>0. /\ UNCHANGED <<clock, known, missing>>
      /\ task \in [Workers -> Task] /\ alerts \in [Key -> Alert] /\ acknowledged \subseteq Key
      /\ clock \in 1 .. MaxTime
  BY DEF Continue, LoadInactive, ConsiderAlert, SkipAlert, Deliver, Record, LoseRecord,
         Finish, Crash, Typed, TypeOK
<1>1. task[w].stage # "idle" /\ task[w] \in Task
  BY <1>0 DEF Continue, LoadInactive, ConsiderAlert, SkipAlert, Deliver, Record, LoseRecord,
              Finish, Crash
<1>2. \A v \in Workers \ {w} : task[v] = Idle
  BY <1>1, OthersIdle DEF OnceEach
<1>3. PICK t \in Task : Continued(w, t)
  BY NextTaskTyped DEF Typed
<1>4. task'[w] = t /\ \A v \in Workers \ {w} : task'[v] = task[v]
  BY <1>0, <1>3 DEF Continued
<1>5. OneAtATime'
  BY <1>2, <1>4 DEF OneAtATime, Idle
<1>6. ASSUME NEW v \in Workers \ {w} PROVE TaskOK(task[v])'
  <2>1. task'[v] = Idle
    BY <1>2, <1>4
  <2> QED
    BY <2>1 DEF TaskOK, InHand, InProgress, Idle
<1>7. \A k : (Happened(k)' <=> Happened(k)) /\ (Over(k)' <=> Over(k))
  BY <1>0 DEF Happened, Over
<1>8. TaskOK(task[w])
  BY DEF OnceEach
<1>9. ASSUME UNCHANGED <<alerts, acknowledged>>, TaskOK(task[w])'
      PROVE  OnceEach'
  <2>1. (\A k \in Key : RowOK(k)') /\ \A k \in acknowledged' : SentOK(k)'
    BY <1>7, <1>9 DEF OnceEach, RowOK, SentOK
  <2>2. \A v \in Workers : TaskOK(task[v])'
    BY <1>6, <1>9
  <2> QED
    BY <1>5, <2>1, <2>2 DEF OnceEach
<1>10. CASE LoadInactive(w)
  <2>1. UNCHANGED <<alerts, acknowledged>> /\ t.stage = "next" /\ t.pending = InactiveKeys(w)
    BY <1>0, <1>1, <1>4, <1>10 DEF LoadInactive, InactiveKeys, Task
  <2>2. InHand(task[w])' = InactiveKeys(w) /\ ~InProgress(task[w])'
    BY <1>4, <2>1 DEF InHand, InProgress
  <2>3. \A k \in InactiveKeys(w) : k \in Key /\ k.type = "inactive" /\ missing[k.model] = k.at /\ k.at < clock
    BY InactiveKeysTyped DEF Typed
  <2>4. \A k \in InactiveKeys(w) : k.at <= clock
    <3>1. \A k \in Key : k.at \in Int
      BY DEF Key
    <3> QED
      BY <1>0, <2>3, <3>1, Basics
  <2>5. \A k \in InactiveKeys(w) : HeldOK(k)'
    BY <1>0, <2>1, <2>3, <2>4 DEF HeldOK, Happened
  <2> QED
    BY <1>9, <2>1, <2>2, <2>5 DEF TaskOK
<1>11. ASSUME NEW k \in task[w].pending, ConsiderAlert(w, k)
       PROVE  OnceEach'
  <2>1. /\ UNCHANGED <<alerts, acknowledged>> /\ ~EmailAlertExists(k) /\ task[w].stage = "next"
        /\ t.stage = "deliver" /\ t.pending = task[w].pending \ {k} /\ t.key = k /\ t.sentAt = clock
    BY <1>0, <1>1, <1>4, <1>11 DEF ConsiderAlert, Task
  <2>2. InHand(task[w])' = task[w].pending /\ InHand(task[w]) = task[w].pending
    BY <1>4, <2>1 DEF InHand, InProgress
  <2>3. \A j \in task[w].pending : HeldOK(j) /\ HeldOK(j)'
    BY <1>0, <1>7, <1>8, <2>1, <2>2 DEF TaskOK, HeldOK
  <2>4. k \notin acknowledged
    BY <2>1, <2>3 DEF HeldOK, OnceEach, SentOK, Over, EmailAlertExists
  <2>5. k.at <= clock
    BY <2>3 DEF HeldOK, Happened
  <2> QED
    BY <1>4, <1>9, <2>1, <2>2, <2>3, <2>4, <2>5 DEF TaskOK
<1>12. ASSUME NEW k \in task[w].pending, SkipAlert(w, k)
       PROVE  OnceEach'
  <2>1. /\ UNCHANGED <<alerts, acknowledged>> /\ task[w].stage = "next"
        /\ t.stage = "next" /\ t.pending = task[w].pending \ {k}
    BY <1>0, <1>1, <1>4, <1>12 DEF SkipAlert, Task
  <2>2. InHand(task[w])' \subseteq InHand(task[w]) /\ ~InProgress(task[w])'
    BY <1>4, <2>1 DEF InHand, InProgress
  <2> QED
    BY <1>0, <1>7, <1>8, <1>9, <2>1, <2>2 DEF TaskOK, HeldOK
<1>13. ASSUME NEW ok \in BOOLEAN, Deliver(w, ok)
       PROVE  OnceEach'
  <2>1. /\ UNCHANGED <<alerts, acknowledged>> /\ task[w].stage = "deliver" /\ t.stage = "record"
        /\ t.pending = task[w].pending /\ t.key = task[w].key /\ t.sentAt = task[w].sentAt
    BY <1>0, <1>1, <1>4, <1>13 DEF Deliver, Task
  <2>2. InHand(task[w])' = InHand(task[w]) /\ InProgress(task[w])
    BY <1>4, <2>1 DEF InHand, InProgress
  <2> QED
    BY <1>0, <1>4, <1>7, <1>8, <1>9, <2>1, <2>2 DEF TaskOK, HeldOK
<1>14. CASE Record(w)
  <2> DEFINE k == task[w].key
  <2>1. /\ k \in Key /\ InProgress(task[w]) /\ k \in InHand(task[w])
        /\ t.stage = "next" /\ t.pending = task[w].pending
    BY <1>0, <1>1, <1>4, <1>14 DEF Record, Forget, Task, InProgress, InHand, Typed, TypeOK
  <2>2. /\ alerts' = [alerts EXCEPT ![k] = RecordedAlert(task[w])]
        /\ acknowledged' = IF alerts'[k].result = "sent" THEN acknowledged \cup {k} ELSE acknowledged
    BY <1>14 DEF Record
  <2>3. HeldOK(k) /\ k \notin acknowledged /\ k \notin task[w].pending /\ k.at <= task[w].sentAt
    BY <1>8, <2>1 DEF TaskOK
  <2> HIDE DEF k
  <2>4. \A j \in Key \ {k} : alerts'[j] = alerts[j]
    BY <1>0, <2>2
  <2>5. \A j \in Key : RowOK(j)'
    <3>1. alerts'[k].sentAt = task[w].sentAt \/ alerts'[k] = alerts[k]
      BY <1>0, <2>1, <2>2 DEF RecordedAlert, k
    <3> QED
      BY <2>3, <2>4, <3>1 DEF RowOK, OnceEach
  <2>6. ASSUME NEW j \in acknowledged' PROVE SentOK(j)'
    <3>1. CASE j = k
      BY <1>7, <2>2, <2>3, <3>1 DEF SentOK, HeldOK
    <3>2. CASE j # k
      BY <1>0, <1>7, <2>2, <2>4, <3>2 DEF SentOK, OnceEach
    <3> QED
      BY <3>1, <3>2
  <2>7. TaskOK(task[w])'
    <3>1. InHand(task[w])' = task[w].pending /\ ~InProgress(task[w])'
      BY <1>4, <2>1 DEF InHand, InProgress
    <3>2. ASSUME NEW j \in task[w].pending PROVE HeldOK(j)'
      <4>1. HeldOK(j)
        BY <1>8 DEF TaskOK, InHand
      <4> QED
        BY <1>0, <1>7, <2>2, <2>3, <4>1 DEF HeldOK
    <3> QED
      BY <3>1, <3>2 DEF TaskOK
  <2>8. \A v \in Workers : TaskOK(task[v])'
    BY <1>6, <2>7
  <2> QED
    BY <1>5, <2>5, <2>6, <2>8 DEF OnceEach
<1>15. CASE LoseRecord(w)
  <2>1. UNCHANGED <<alerts, acknowledged>> /\ t.stage = "next" /\ t.pending = task[w].pending
    BY <1>0, <1>1, <1>4, <1>15 DEF LoseRecord, Forget, Task
  <2>2. InHand(task[w])' \subseteq InHand(task[w]) /\ ~InProgress(task[w])'
    BY <1>4, <2>1 DEF InHand, InProgress
  <2> QED
    BY <1>0, <1>7, <1>8, <1>9, <2>1, <2>2 DEF TaskOK, HeldOK
<1>16. CASE Finish(w) \/ Crash(w)
  <2>1. UNCHANGED <<alerts, acknowledged>> /\ task'[w] = Idle
    BY <1>0, <1>16 DEF Finish, Crash
  <2>2. TaskOK(task[w])'
    BY <2>1 DEF TaskOK, InHand, InProgress, Idle
  <2> QED
    BY <1>9, <2>1, <2>2
<1> QED
  BY <1>10, <1>11, <1>12, <1>13, <1>14, <1>15, <1>16 DEF Continue

LEMMA NextDedup ==
    ASSUME Typed, DedupOK, [Next]_vars
    PROVE  DedupOK'
<1>1. CASE UNCHANGED vars
  BY <1>1 DEF vars, DedupOK, OnceEach, OneAtATime, RowOK, SentOK, TaskOK, InHand, InProgress,
              HeldOK, Happened, Over
<1>2. CASE Next
  <2> SUFFICES ASSUME ~overlapped'
               PROVE  OnceEach'
    BY DEF DedupOK
  <2>1. OnceEach /\ OneAtATime'
    BY <1>2 DEF Next, NoteOverlap, DedupOK
  <2> QED
    BY <1>2, <2>1, TickOnceEach, SnapshotOnceEach, FailureOnceEach, MarkOnceEach, PruneOnceEach,
       ContinueOnceEach DEF Next, Step, Begin
<1> QED
  BY <1>1, <1>2

(* Until two tasks overlap, no mail is sent again once it was recorded as  *)
(* sent, not even after retention removed the record: what retention       *)
(* removes is over, and events have their time in their key.               *)
THEOREM DeduplicatedAlways == Spec => Deduplicated
<1> DEFINE Dedup == \A w \in Workers :
                       Deliver(w, TRUE) /\ ~overlapped => task[w].key \notin acknowledged
<1>1. DedupOK => Dedup
  BY DEF DedupOK, OnceEach, TaskOK, InProgress, Deliver
<1>2. DedupOK /\ [Next]_vars => [Dedup]_vars
  BY <1>1
<1>3. Init => DedupOK
  BY DEF Init, DedupOK, OnceEach, OneAtATime, RowOK, TaskOK, InHand, InProgress, Idle, NoAlert
<1> QED
  BY <1>2, <1>3, InitTyped, NextTyped, NextDedup, PTL DEF Spec, Deduplicated

-----------------------------------------------------------------------------
(* The presence of models *)

(* A snapshot is an observation, a failed inventory and a mark find models *)
(* gone, at the present time; no absence is dated ahead of it.             *)
LEMMA PresenceStep ==
    ASSUME Typed, [Next]_vars
    PROVE  [Table!Next]_(Table!vars)
<1> USE DEF NULL, Table!NULL
<1>1. clock \in 1 .. clock /\ Table!InOrder(clock)
  BY Basics DEF Typed, TypeOK, AbsencesOK, Table!InOrder
<1>2. CASE Tick
  BY <1>2 DEF Tick, Table!Tick, Table!Next
<1>3. ASSUME NEW w \in Workers, NEW present \in SUBSET Models, TakeSnapshot(w, present)
      PROVE  Table!Observe(present, clock)
  <2>1. missing' = [m \in Models |->
                      IF m \in present THEN NULL
                      ELSE IF m \in known /\ missing[m] = NULL THEN clock ELSE missing[m]]
    BY <1>3 DEF TakeSnapshot
  <2> QED
    BY <1>1, <1>3, <2>1 DEF TakeSnapshot, Table!Observe
<1>4. ASSUME NEW w \in Workers, NEW gone \in SUBSET known, FailInventory(w, gone)
      PROVE  Table!Miss(gone, clock)
  BY <1>1, <1>4 DEF FailInventory, Table!Miss
<1>5. ASSUME NEW w \in Workers, NEW m \in Models, MarkInactive(w, m)
      PROVE  {m} \in SUBSET known /\ Table!Miss({m}, clock)
  BY <1>1, <1>5 DEF MarkInactive, Table!Miss, Typed, TypeOK
<1>6. CASE UNCHANGED Table!vars
  BY <1>6
<1>7. \/ Tick
      \/ \E w \in Workers : \/ \E present \in SUBSET Models : TakeSnapshot(w, present)
                            \/ \E gone \in SUBSET known : FailInventory(w, gone)
                            \/ \E m \in Models : MarkInactive(w, m)
      \/ UNCHANGED <<clock, known, missing>>
  BY DEF Next, vars, Step, Begin, Continue, Prune, LoadInactive, ConsiderAlert, SkipAlert, Deliver,
         Record, LoseRecord, Finish, Crash
<1> QED
  BY <1>1, <1>2, <1>3, <1>4, <1>5, <1>6, <1>7 DEF Table!Next, Table!vars

(* The mails are sent about models that come and go as Presence says: what *)
(* a snapshot or a mark does here is what ModelStates does in several      *)
(* steps, until two tasks overlap.                                         *)
THEOREM AlertsFollowPresence == Spec => ImplementsPresence
<1>1. Init => Table!Init
  BY DEF Init, Table!Init, NULL, Table!NULL
<1> QED
  BY <1>1, InitTyped, NextTyped, PresenceStep, PTL DEF Spec, ImplementsPresence, Table!Spec
=============================================================================
