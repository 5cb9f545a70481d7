------------------------ MODULE HealthChecks_proofs ------------------------
(***************************************************************************)
(* Theorems about HealthChecks, for any number of workers: the variables   *)
(* keep their types, and a check that ran alone never misses a recovery.   *)
(***************************************************************************)
EXTENDS HealthChecks, TLAPS

(* A worker that starts afresh is typed. *)
LEMMA IdleTyped == Idle \in Task
BY DEF Idle, Task, CheckStage, Result

(* The variables but for the last part of TypeOK. *)
Typed ==
    /\ up \in BOOLEAN
    /\ newest \in Result
    /\ active \in BOOLEAN
    /\ queued \in 0 .. MaxQueued
    /\ task \in [Workers -> Task]

LaterAreChecking ==
    \A w \in Workers : task[w].later \subseteq {v \in Workers : Checking(v)} \ {w}

(* Initially both hold. *)
LEMMA InitTyped == Init => TypeOK /\ AloneIsCurrent
<1> SUFFICES ASSUME Init PROVE TypeOK /\ AloneIsCurrent
  OBVIOUS
<1>1. \A w \in Workers : task[w].later = {} /\ ~task[w].alone
  BY DEF Init, Idle
<1>2. 0 \in 0 .. MaxQueued
  BY QueueAssumption
<1>3. Typed
  BY <1>2, IdleTyped DEF Init, Typed, Result
<1> QED
  BY <1>1, <1>3 DEF Typed, TypeOK, AloneIsCurrent

(* The answers are results, and being alone is true or false. *)
LEMMA OperatorTypes ==
    /\ Answered \in Result
    /\ \A previous \in Result : Alone(previous) \in BOOLEAN
<1>1. Answered \in Result
  BY DEF Answered, Result
<1>2. ASSUME NEW previous \in Result PROVE Alone(previous) \in BOOLEAN
  BY Zenon DEF Alone
<1> QED
  BY <1>1, <1>2

(* Every action keeps the types of the variables. *)
LEMMA StepTyped ==
    ASSUME TypeOK, [Next]_vars
    PROVE  Typed'
<1> USE QueueAssumption, IdleTyped DEF Typed
<1>1. ASSUME NEW w \in Workers, ReadPrevious(w) PROVE Typed'
  <2>1. PICK previous \in Result :
          task' = [v \in Workers |->
            IF v = w THEN [Idle EXCEPT !.stage = "asked", !.previous = previous,
                                       !.alone = Alone(previous)]
            ELSE [task[v] EXCEPT !.alone = FALSE]]
    BY <1>1 DEF ReadPrevious, TypeOK, Result
  <2> DEFINE alone == Alone(previous)
             t == [Idle EXCEPT !.stage = "asked", !.previous = previous, !.alone = alone]
  <2>2. alone \in BOOLEAN
    BY OperatorTypes
  <2>3. t \in Task
    <3> HIDE DEF alone
    <3> QED
      BY <2>2 DEF Task, CheckStage
  <2>4. \A v \in Workers : [task[v] EXCEPT !.alone = FALSE] \in Task
    BY DEF TypeOK, Task
  <2>5. task' = [v \in Workers |-> IF v = w THEN t ELSE [task[v] EXCEPT !.alone = FALSE]]
    BY <2>1
  <2> HIDE DEF t
  <2>6. task' \in [Workers -> Task]
    BY <2>3, <2>4, <2>5
  <2> QED
    BY <1>1, <2>6 DEF ReadPrevious, TypeOK
<1>2. ASSUME NEW w \in Workers, BeginRequest(w) PROVE Typed'
  BY <1>2 DEF BeginRequest, TypeOK, Task, CheckStage, Result
<1>3. ASSUME NEW w \in Workers, Answer(w) PROVE Typed'
  <2>1. [task[w] EXCEPT !.stage = "answered", !.result = Answered] \in Task
    BY OperatorTypes DEF TypeOK, Task, CheckStage
  <2>2. task' = [task EXCEPT ![w] = [task[w] EXCEPT !.stage = "answered", !.result = Answered]]
    BY <1>3 DEF Answer, TypeOK
  <2> QED
    BY <1>3, <2>1, <2>2 DEF Answer, TypeOK
<1>4. ASSUME NEW w \in Workers, Record(w) PROVE Typed'
  <2>1. task'[w] \in Task
    <3>1. \/ task'[w] = Idle
          \/ \E stage \in {"failed", "turned"} : task'[w] = [Idle EXCEPT !.stage = stage]
      BY <1>4 DEF Record
    <3> QED
      BY <3>1 DEF Task, Idle, CheckStage, Result
  <2>2. ASSUME NEW v \in Workers \ {w} PROVE task'[v] \in Task
    <3> DEFINE late == Without(task[v], w).overtaken \/ w \in task[v].later
    <3>1. task'[v] = [Without(task[v], w) EXCEPT !.overtaken = late]
      BY <1>4, Zenon DEF Record
    <3>2. Without(task[v], w) \in Task
      BY DEF Without, TypeOK, Task
    <3>3. late \in BOOLEAN
      BY <3>2, Zenon DEF Task
    <3> HIDE DEF late
    <3> QED
      BY <3>1, <3>2, <3>3 DEF Task
  <2>3. task' \in [Workers -> Task]
    BY <1>4, <2>1, <2>2 DEF Record
  <2> QED
    BY <1>4, <2>3 DEF Record, NewestAfter, TypeOK, Task
<1>5. ASSUME NEW w \in Workers, MarkAllModelsInactive(w) PROVE Typed'
  BY <1>5 DEF MarkAllModelsInactive, TypeOK
<1>6. ASSUME NEW w \in Workers, TriggerModelRecovery(w) PROVE Typed'
  BY <1>6 DEF TriggerModelRecovery, TypeOK
<1>7. ASSUME NEW w \in Workers, ListModels(w) PROVE Typed'
  BY <1>7 DEF ListModels, Answered, TypeOK, Task, Idle, CheckStage, Result
<1>8. ASSUME NEW w \in Workers, CommitListing(w) PROVE Typed'
  BY <1>8 DEF CommitListing, StatusAfter, TypeOK
<1>9. ASSUME NEW w \in Workers, Abandon(w) PROVE Typed'
  BY <1>9 DEF Abandon, Without, TypeOK, Task, Idle, CheckStage, Result
<1>10. CASE Turn
  BY <1>10 DEF Turn, TypeOK
<1>11. CASE ExpireRecovery
  BY <1>11 DEF ExpireRecovery, TypeOK
<1>12. CASE UNCHANGED vars
  BY <1>12 DEF vars, TypeOK
<1> QED
  BY <1>1, <1>2, <1>3, <1>4, <1>5, <1>6, <1>7, <1>8, <1>9, <1>10, <1>11, <1>12 DEF Next, Continue

(* Every action keeps a check from waiting for what is not in flight. *)
LEMMA StepLater ==
    ASSUME TypeOK, [Next]_vars
    PROVE  LaterAreChecking'
<1> USE DEF TypeOK, LaterAreChecking, Checking, CheckStage, Task, Idle
<1>1. ASSUME NEW w \in Workers, ReadPrevious(w) PROVE LaterAreChecking'
  <2>1. task'[w].stage = "asked" /\ task'[w].later = {}
    <3>1. PICK previous \in {newest, "none"} :
            task'[w] = [Idle EXCEPT !.stage = "asked", !.previous = previous,
                                    !.alone = Alone(previous)]
      BY <1>1 DEF ReadPrevious
    <3> QED
      BY <3>1
  <2>2. \A v \in Workers \ {w} : task'[v].stage = task[v].stage /\ task'[v].later = task[v].later
    BY <1>1 DEF ReadPrevious
  <2>3. ~Checking(w)
    BY <1>1 DEF ReadPrevious
  <2>4. \A v \in Workers : w \notin task[v].later
    BY <2>3
  <2> QED
    BY <2>1, <2>2, <2>4
<1>2. ASSUME NEW w \in Workers, BeginRequest(w) PROVE LaterAreChecking'
  BY <1>2 DEF BeginRequest
<1>3. ASSUME NEW w \in Workers, Answer(w) PROVE LaterAreChecking'
  BY <1>3 DEF Answer
<1>4. ASSUME NEW w \in Workers, Record(w) PROVE LaterAreChecking'
  <2>1. task'[w].later = {}
    BY <1>4 DEF Record
  <2>2. ASSUME NEW v \in Workers \ {w}
        PROVE  task'[v].stage = task[v].stage /\ task'[v].later = task[v].later \ {w}
    <3> DEFINE late == Without(task[v], w).overtaken \/ w \in task[v].later
    <3>1. task'[v] = [Without(task[v], w) EXCEPT !.overtaken = late]
      BY <1>4, Zenon DEF Record
    <3> HIDE DEF late
    <3> QED
      BY <3>1 DEF Without
  <2> QED
    BY <2>1, <2>2
<1>5. ASSUME NEW w \in Workers, MarkAllModelsInactive(w) PROVE LaterAreChecking'
  BY <1>5 DEF MarkAllModelsInactive
<1>6. ASSUME NEW w \in Workers, TriggerModelRecovery(w) PROVE LaterAreChecking'
  BY <1>6 DEF TriggerModelRecovery
<1>7. ASSUME NEW w \in Workers, ListModels(w) PROVE LaterAreChecking'
  BY <1>7 DEF ListModels
<1>8. ASSUME NEW w \in Workers, CommitListing(w) PROVE LaterAreChecking'
  BY <1>8 DEF CommitListing
<1>9. ASSUME NEW w \in Workers, Abandon(w) PROVE LaterAreChecking'
  BY <1>9 DEF Abandon, Without
<1>10. ASSUME Turn \/ ExpireRecovery \/ UNCHANGED vars PROVE LaterAreChecking'
  BY <1>10 DEF Turn, ExpireRecovery, vars
<1> QED
  BY <1>1, <1>2, <1>3, <1>4, <1>5, <1>6, <1>7, <1>8, <1>9, <1>10 DEF Next, Continue

(* Every action keeps a check that is alone current.  Only a check that    *)
(* starts or records could disturb it: a start ends the solitude of the    *)
(* others, and a record is that of the check itself.                       *)
LEMMA StepAlone ==
    ASSUME TypeOK, AloneIsCurrent, [Next]_vars
    PROVE  AloneIsCurrent'
<1> USE DEF TypeOK, AloneIsCurrent, Checking, CheckStage, Task, Idle
<1>1. ASSUME NEW w \in Workers, ReadPrevious(w) PROVE AloneIsCurrent'
  <2>1. PICK previous \in Result :
          /\ task'[w].previous = previous
          /\ task'[w].alone = Alone(previous)
          /\ ~task'[w].overtaken
    BY <1>1 DEF ReadPrevious, Result
  <2>2. \A v \in Workers \ {w} : ~task'[v].alone /\ task'[v].stage = task[v].stage
    BY <1>1 DEF ReadPrevious
  <2>3. newest' = newest
    BY <1>1 DEF ReadPrevious
  <2>4. ASSUME task'[w].alone
        PROVE  task'[w].previous = newest /\ \A v \in Workers : ~Checking(v)
    BY <2>1, <2>4 DEF Alone
  <2> QED
    BY <2>1, <2>2, <2>3, <2>4
<1>2. ASSUME NEW w \in Workers, BeginRequest(w) PROVE AloneIsCurrent'
  BY <1>2 DEF BeginRequest
<1>3. ASSUME NEW w \in Workers, Answer(w) PROVE AloneIsCurrent'
  BY <1>3 DEF Answer
<1>4. ASSUME NEW w \in Workers, Record(w) PROVE AloneIsCurrent'
  <2>1. ~task'[w].alone
    BY <1>4 DEF Record
  <2>2. ASSUME NEW v \in Workers \ {w} PROVE task'[v].alone = task[v].alone
    <3> DEFINE late == Without(task[v], w).overtaken \/ w \in task[v].later
    <3>1. task'[v] = [Without(task[v], w) EXCEPT !.overtaken = late]
      BY <1>4, Zenon DEF Record
    <3> HIDE DEF late
    <3> QED
      BY <3>1 DEF Without
  <2>3. \A v \in Workers \ {w} : ~task[v].alone
    BY <1>4 DEF Record
  <2> QED
    BY <2>1, <2>2, <2>3
<1>5. ASSUME NEW w \in Workers, MarkAllModelsInactive(w) PROVE AloneIsCurrent'
  BY <1>5 DEF MarkAllModelsInactive
<1>6. ASSUME NEW w \in Workers, TriggerModelRecovery(w) PROVE AloneIsCurrent'
  BY <1>6 DEF TriggerModelRecovery
<1>7. ASSUME NEW w \in Workers, ListModels(w) PROVE AloneIsCurrent'
  BY <1>7 DEF ListModels
<1>8. ASSUME NEW w \in Workers, CommitListing(w) PROVE AloneIsCurrent'
  BY <1>8 DEF CommitListing
<1>9. ASSUME NEW w \in Workers, Abandon(w) PROVE AloneIsCurrent'
  BY <1>9 DEF Abandon, Without
<1>10. ASSUME Turn \/ ExpireRecovery \/ UNCHANGED vars PROVE AloneIsCurrent'
  BY <1>10 DEF Turn, ExpireRecovery, vars
<1> QED
  BY <1>1, <1>2, <1>3, <1>4, <1>5, <1>6, <1>7, <1>8, <1>9, <1>10 DEF Next, Continue

(* Every variable of the system keeps its type. *)
THEOREM HealthTypeCorrect == Spec => []TypeOK
<1>1. TypeOK /\ [Next]_vars => TypeOK'
  BY StepTyped, StepLater DEF Typed, LaterAreChecking, TypeOK
<1> QED
  BY InitTyped, <1>1, PTL DEF Spec

(* While a check is alone, the row it read is the newest, and it is not    *)
(* overtaken by a later one.                                               *)
THEOREM AloneIsCurrentAlways == Spec => []AloneIsCurrent
<1>1. TypeOK /\ AloneIsCurrent /\ [Next]_vars => AloneIsCurrent'
  BY StepAlone
<1> QED
  BY InitTyped, HealthTypeCorrect, <1>1, PTL DEF Spec

(* A check that ran alone enqueues recovery work exactly when it puts an   *)
(* OK row after a failed one.                                              *)
THEOREM TurnIsNoticedAlways == Spec => TurnIsNoticed
<1>1. ASSUME TypeOK, AloneIsCurrent, NEW w \in Workers, Record(w), task[w].alone
      PROVE  task'[w].stage = "turned" <=> newest = "failed" /\ newest' = "ok"
  <2>1. newest' = task[w].result /\ task[w].previous = newest
    BY <1>1 DEF Record, NewestAfter, AloneIsCurrent
  <2>2. task'[w].stage = "turned" <=> task[w].result = "ok" /\ task[w].previous = "failed"
    BY <1>1 DEF Record, Turned, Idle
  <2> QED
    BY <2>1, <2>2
<1>2. TypeOK /\ AloneIsCurrent /\ [Next]_vars
        => [\A w \in Workers : Record(w) /\ task[w].alone =>
              (task'[w].stage = "turned" <=> newest = "failed" /\ newest' = "ok")]_vars
  BY <1>1
<1> QED
  BY HealthTypeCorrect, AloneIsCurrentAlways, <1>2, PTL DEF Spec, TurnIsNoticed
=============================================================================
