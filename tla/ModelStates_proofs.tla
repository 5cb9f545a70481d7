------------------------- MODULE ModelStates_proofs -------------------------
(***************************************************************************)
(* Theorems about ModelStates, for every set of models and workers and     *)
(* every value of the bounds.                                              *)
(***************************************************************************)
EXTENDS ModelStates, TLAPS

-----------------------------------------------------------------------------
(* What the transactions write *)

(* Every row a transaction writes is a row. *)
LEMMA RowTypes ==
  ASSUME NEW r \in Row, NEW cap \in Capability, NEW at \in Nat
  PROVE  /\ MarkedRow(r, at) \in Row
         /\ InsertedRow(cap, at) \in Row
         /\ RefreshedRow(r, cap, at) \in Row
         /\ ReturnedRow(r, cap, at) \in Row
         /\ DisappearedRow(r, at) \in Row
  BY DEF Row, MarkedRow, InsertedRow, RefreshedRow, ReturnedRow, DisappearedRow,
         Capability, Reason, Status, NULL, DetectionReason, Runnable

(* An idle worker's record is a task. *)
LEMMA IdleType == BlankRow \in Row /\ Idle \in Task
  <1>1. BlankRow \in Row
    BY DEF BlankRow, Row, Capability, Reason, Status, NULL
  <1>2. Idle \in Task
    BY <1>1 DEF Idle, Task, TaskKind, NULL
  <1>3. QED
    BY <1>1, <1>2

(* The row an observation leaves for a model is a row. *)
LEMMA ObservedRowType ==
  ASSUME NEW t \in Task, row \in [Models -> Row], NEW m \in Models
  PROVE  ObservedRow(t, m) \in Row
  <1>1. m \in Seen(t) => t.listing[m] \in Capability
    BY DetectionsAssumption DEF Seen, Task, Absent
  <1>2. t.at \in Nat
    BY DEF Task
  <1>3. row[m] \in Row
    OBVIOUS
  <1>4. m \in Fresh(t) => InsertedRow(t.listing[m], t.at) \in Row
    BY <1>1, <1>2, <1>3, RowTypes DEF Fresh
  <1>5. m \in Returning(t) => ReturnedRow(row[m], t.listing[m], t.at) \in Row
    BY <1>1, <1>2, <1>3, RowTypes DEF Returning
  <1>6. m \in Refreshed(t) => RefreshedRow(row[m], t.listing[m], t.at) \in Row
    BY <1>1, <1>2, <1>3, RowTypes DEF Refreshed
  <1>7. DisappearedRow(row[m], t.at) \in Row
    BY <1>2, <1>3, RowTypes, "unknown" \in Capability DEF Capability
  <1>8. QED
    BY <1>3, <1>4, <1>5, <1>6, <1>7 DEF ObservedRow

-----------------------------------------------------------------------------
(* Type correctness *)

(* Every step keeps the types. *)
LEMMA TypeStep ==
  ASSUME TypeOK, [Next]_vars
  PROVE  TypeOK'
  <1>0. overlapped' \in BOOLEAN
    BY DEF TypeOK, Next, vars
  <1>1. CASE Tick
    BY <1>0, <1>1, TimesAssumption DEF Tick, TypeOK
  <1>2. ASSUME NEW w \in Workers, FinishDetection(w) PROVE TypeOK'
    <2>1. PICK listing \in [Models -> Detections \cup {Absent}] :
            task' = [task EXCEPT ![w] = [Idle EXCEPT !.kind = "observed", !.at = clock,
                                                     !.listing = listing]]
      BY <1>2 DEF FinishDetection
    <2>2. [Idle EXCEPT !.kind = "observed", !.at = clock, !.listing = listing] \in Task
      BY IdleType DEF Task, TaskKind, TypeOK
    <2>3. QED
      BY <1>0, <1>2, <2>1, <2>2, IdleType DEF FinishDetection, TypeOK, NULL, Task
  <1>3. ASSUME NEW w \in Workers, LoadModelStates(w) PROVE TypeOK'
    <2> DEFINE t == [task[w] EXCEPT !.kind = "loaded", !.loaded = known, !.loadedRow = row]
    <2>1. t \in Task /\ t.kind # "idle" /\ t.at # NULL
      BY <1>3 DEF LoadModelStates, TypeOK, Task, TaskKind
    <2>2. task' = [task EXCEPT ![w] = t]
      BY <1>3 DEF LoadModelStates, TypeOK
    <2> HIDE DEF t
    <2>3. QED
      BY <1>0, <1>3, <2>1, <2>2 DEF LoadModelStates, TypeOK
  <1>4. ASSUME NEW w \in Workers, CommitObservation(w) PROVE TypeOK'
    <2>1. task[w] \in Task
      BY DEF TypeOK
    <2>2. row' \in [Models -> Row]
      BY <1>4, <2>1, ObservedRowType DEF CommitObservation, TypeOK
    <2>3. known' \in SUBSET Models
      BY <1>4 DEF CommitObservation, TypeOK, Fresh, Seen
    <2>4. added' \in [Models -> Nat]
      BY <1>4 DEF CommitObservation, TypeOK
    <2>5. lastEvent' \in [Models -> {"none", "added", "returned", "inactive"}]
      BY <1>4 DEF CommitObservation, TypeOK, ObservedEvent
    <2>6. task' \in [Workers -> Task] /\ \A v \in Workers : task'[v].kind # "idle" => task'[v].at # NULL
      BY <1>4, IdleType DEF CommitObservation, TypeOK, Idle
    <2>7. QED
      BY <1>0, <1>4, <2>2, <2>3, <2>4, <2>5, <2>6 DEF CommitObservation, TypeOK
  <1>5. ASSUME NEW w \in Workers, NEW m \in Models, StartProbe(w, m) PROVE TypeOK'
    <2>1. [Idle EXCEPT !.kind = "probed", !.at = clock, !.targets = {m}] \in Task
      BY IdleType DEF Task, TaskKind, TypeOK
    <2>2. QED
      BY <1>0, <1>5, <2>1, IdleType DEF StartProbe, TypeOK, NULL, Task
  <1>6. ASSUME NEW w \in Workers, StartOutage(w) PROVE TypeOK'
    <2>1. [Idle EXCEPT !.kind = "failed", !.at = clock] \in Task
      BY IdleType DEF Task, TaskKind, TypeOK
    <2>2. QED
      BY <1>0, <1>6, <2>1, IdleType DEF StartOutage, TypeOK, NULL, Task
  <1>7. ASSUME NEW w \in Workers, ScanMarkable(w) PROVE TypeOK'
    <2> DEFINE t == [task[w] EXCEPT !.kind = "scanned",
                                    !.targets = {m \in known : Markable(row[m])}]
    <2>1. t \in Task /\ t.kind # "idle" /\ t.at # NULL
      BY <1>7 DEF ScanMarkable, TypeOK, Task, TaskKind
    <2>2. task' = [task EXCEPT ![w] = t]
      BY <1>7 DEF ScanMarkable, TypeOK
    <2> HIDE DEF t
    <2>3. QED
      BY <1>0, <1>7, <2>1, <2>2 DEF ScanMarkable, TypeOK
  <1>8. ASSUME NEW w \in Workers, CommitMark(w) PROVE TypeOK'
    <2>1. row' \in [Models -> Row]
      BY <1>8, RowTypes, "unknown" \in Capability DEF CommitMark, TypeOK, Task, Capability
    <2>2. lastEvent' \in [Models -> {"none", "added", "returned", "inactive"}]
      BY <1>8 DEF CommitMark, TypeOK
    <2>3. QED
      BY <1>0, <1>8, <2>1, <2>2, IdleType DEF CommitMark, TypeOK, Idle
  <1>9. ASSUME NEW w \in Workers, Abandon(w) PROVE TypeOK'
    BY <1>0, <1>9, IdleType DEF Abandon, TypeOK, Idle
  <1>10. CASE UNCHANGED vars
    BY <1>10 DEF vars, TypeOK
  <1>11. QED
    BY <1>1, <1>2, <1>3, <1>4, <1>5, <1>6, <1>7, <1>8, <1>9, <1>10 DEF Next, Step

(* Every reachable state has the types of TypeOK. *)
THEOREM TypeCorrect == Spec => []TypeOK
  <1>1. Init => TypeOK
    <2> SUFFICES ASSUME Init PROVE TypeOK
      OBVIOUS
    <2>1. overlapped \in BOOLEAN
      BY DEF Init
    <2>2. QED
      BY <2>1, IdleType DEF Init, TypeOK, Idle, Task
  <1>2. TypeOK /\ [Next]_vars => TypeOK'
    BY TypeStep
  <1>3. QED
    BY <1>1, <1>2, PTL DEF Spec

-----------------------------------------------------------------------------
(* How one commit changes one row *)

(* A committed observation either inserts a model nobody inserted, or      *)
(* changes a row by the branch the loaded copy selected, or leaves it.     *)
LEMMA ObservedCases ==
  ASSUME NEW t, NEW m \in Models
  PROVE  \/ /\ m \in Fresh(t)
            /\ ObservedRow(t, m) = InsertedRow(t.listing[m], t.at)
            /\ ObservedEvent(t, m) = "added"
         \/ /\ m \in Returning(t) /\ m \notin Fresh(t)
            /\ ObservedRow(t, m) = ReturnedRow(row[m], t.listing[m], t.at)
            /\ ObservedEvent(t, m) = "returned"
         \/ /\ m \in Refreshed(t) /\ m \notin Fresh(t)
            /\ ObservedRow(t, m) = RefreshedRow(row[m], t.listing[m], t.at)
            /\ ObservedEvent(t, m) = lastEvent[m]
         \/ /\ m \in Disappeared(t) /\ m \notin Fresh(t)
            /\ ObservedRow(t, m) = DisappearedRow(row[m], t.at)
            /\ ObservedEvent(t, m) = "inactive"
         \/ /\ m \notin Fresh(t)
            /\ ObservedRow(t, m) = row[m]
            /\ ObservedEvent(t, m) = lastEvent[m]
  BY DEF ObservedRow, ObservedEvent, Fresh, Returning, Refreshed, Disappeared

(* The columns of the rows that transactions write. *)
LEMMA WrittenColumns ==
  ASSUME NEW r \in Row, NEW cap, NEW at
  PROVE  /\ InsertedRow(cap, at).status = "active"
         /\ InsertedRow(cap, at).reason # "mark"
         /\ InsertedRow(cap, at).last = at
         /\ InsertedRow(cap, at).missing = NULL
         /\ RefreshedRow(r, cap, at).status = "active"
         /\ RefreshedRow(r, cap, at).reason # "mark"
         /\ RefreshedRow(r, cap, at).first = r.first
         /\ RefreshedRow(r, cap, at).last = at
         /\ RefreshedRow(r, cap, at).missing = r.missing
         /\ ReturnedRow(r, cap, at).status = "active"
         /\ ReturnedRow(r, cap, at).reason # "mark"
         /\ ReturnedRow(r, cap, at).first = r.first
         /\ ReturnedRow(r, cap, at).last = at
         /\ ReturnedRow(r, cap, at).missing = NULL
         /\ DisappearedRow(r, at).status = "inactive"
         /\ DisappearedRow(r, at).cap = r.cap
         /\ DisappearedRow(r, at).reason = r.reason
         /\ DisappearedRow(r, at).first = r.first
         /\ DisappearedRow(r, at).last = r.last
         /\ DisappearedRow(r, at).missing = at
         /\ MarkedRow(r, at).cap = r.cap
         /\ MarkedRow(r, at).first = r.first
         /\ MarkedRow(r, at).last = r.last
         /\ MarkedRow(r, at).missing = IF r.missing = NULL THEN at ELSE r.missing
  BY DEF InsertedRow, RefreshedRow, ReturnedRow, DisappearedRow, MarkedRow,
         DetectionReason, Row

-----------------------------------------------------------------------------
(* The safety properties that need no more than types *)

(* The parts of a state that the steps of CommitObservation and CommitMark *)
(* change; every other step leaves the table and the history alone.        *)
TableStep == (\E w \in Workers : CommitObservation(w)) \/ (\E w \in Workers : CommitMark(w))

(* Every step is a commit or leaves the table and the history as they are. *)
LEMMA StepKinds ==
  ASSUME [Next]_vars
  PROVE  TableStep \/ UNCHANGED <<known, row, added, lastEvent>>
  BY DEF Next, Step, Tick, FinishDetection, LoadModelStates, StartProbe, StartOutage,
         ScanMarkable, Abandon, vars, TableStep

(* A model is announced as new exactly once. *)
THEOREM DiscoveredOnceAlways == Spec => []DiscoveredOnce
  <1>1. Init => DiscoveredOnce
    BY DEF Init, DiscoveredOnce
  <1>2. TypeOK /\ DiscoveredOnce /\ [Next]_vars => DiscoveredOnce'
    <2> SUFFICES ASSUME TypeOK, DiscoveredOnce, [Next]_vars PROVE DiscoveredOnce'
      OBVIOUS
    <2>1. ASSUME NEW w \in Workers, CommitObservation(w) PROVE DiscoveredOnce'
      BY <2>1 DEF CommitObservation, NoConflict, Fresh, Seen, TypeOK, DiscoveredOnce
    <2>2. ASSUME NEW w \in Workers, CommitMark(w) PROVE DiscoveredOnce'
      BY <2>2 DEF CommitMark, DiscoveredOnce
    <2>3. CASE UNCHANGED <<known, row, added, lastEvent>>
      BY <2>3 DEF DiscoveredOnce
    <2>4. QED
      BY <2>1, <2>2, <2>3, StepKinds DEF TableStep
  <1>3. QED
    BY <1>1, <1>2, TypeCorrect, PTL DEF Spec

(* An inactive row always has its missing_since and its event. *)
THEOREM InactiveIsAnnouncedAlways == Spec => []InactiveIsAnnounced
  <1>1. Init => InactiveIsAnnounced
    BY DEF Init, InactiveIsAnnounced
  <1>2. TypeOK /\ InactiveIsAnnounced /\ [Next]_vars => InactiveIsAnnounced'
    <2> SUFFICES ASSUME TypeOK, InactiveIsAnnounced, [Next]_vars PROVE InactiveIsAnnounced'
      OBVIOUS
    <2>1. ASSUME NEW w \in Workers, CommitObservation(w) PROVE InactiveIsAnnounced'
      <3>1. task[w].at # NULL
        BY <2>1 DEF CommitObservation, TypeOK
      <3>2. SUFFICES ASSUME NEW m \in known', row'[m].status = "inactive"
                     PROVE  row'[m].missing # NULL /\ lastEvent'[m] = "inactive"
        BY DEF InactiveIsAnnounced
      <3>3. m \in Models /\ (m \in known \/ m \in Fresh(task[w]))
        BY <2>1 DEF CommitObservation, TypeOK, Fresh, Seen
      <3>4. row'[m] = ObservedRow(task[w], m) /\ lastEvent'[m] = ObservedEvent(task[w], m)
        BY <2>1, <3>3 DEF CommitObservation
      <3>5. row[m] \in Row
        BY <3>3 DEF TypeOK
      <3>6. CASE m \in Disappeared(task[w]) /\ row'[m] = DisappearedRow(row[m], task[w].at)
                 /\ lastEvent'[m] = "inactive"
        BY <3>1, <3>5, <3>6, WrittenColumns
      <3>7. CASE m \in known /\ row'[m] = row[m] /\ lastEvent'[m] = lastEvent[m]
        BY <3>2, <3>7 DEF InactiveIsAnnounced
      <3>8. CASE \E cap : row'[m] \in {InsertedRow(cap, task[w].at),
                                       ReturnedRow(row[m], cap, task[w].at),
                                       RefreshedRow(row[m], cap, task[w].at)}
        BY <3>2, <3>5, <3>8, WrittenColumns
      <3>9. QED
        BY <3>3, <3>4, <3>6, <3>7, <3>8, ObservedCases
    <2>2. ASSUME NEW w \in Workers, CommitMark(w) PROVE InactiveIsAnnounced'
      <3>1. task[w].at # NULL
        BY <2>2 DEF CommitMark, TypeOK
      <3>2. SUFFICES ASSUME NEW m \in known, row'[m].status = "inactive"
                     PROVE  row'[m].missing # NULL /\ lastEvent'[m] = "inactive"
        BY <2>2 DEF InactiveIsAnnounced, CommitMark
      <3>3. m \in Models /\ row[m] \in Row
        BY DEF TypeOK
      <3>4. CASE m \in MarkNow(task[w])
        <4>1. row'[m] = MarkedRow(row[m], task[w].at) /\ lastEvent'[m] = "inactive"
          BY <2>2, <3>3, <3>4 DEF CommitMark
        <4>2. row'[m].missing = IF row[m].missing = NULL THEN task[w].at ELSE row[m].missing
          BY <3>3, <4>1, WrittenColumns
        <4>3. QED
          BY <3>1, <4>1, <4>2
      <3>5. CASE m \notin MarkNow(task[w])
        BY <2>2, <3>2, <3>3, <3>5 DEF CommitMark, InactiveIsAnnounced
      <3>6. QED
        BY <3>4, <3>5
    <2>3. CASE UNCHANGED <<known, row, added, lastEvent>>
      BY <2>3 DEF InactiveIsAnnounced
    <2>4. QED
      BY <2>1, <2>2, <2>3, StepKinds DEF TableStep
  <1>3. QED
    BY <1>1, <1>2, TypeCorrect, PTL DEF Spec

(* No mark ever lands on a model whose capability is skip. *)
THEOREM SkipIsNeverMarkedAlways == Spec => []SkipIsNeverMarked
  <1>1. Init => SkipIsNeverMarked
    BY DEF Init, SkipIsNeverMarked
  <1>2. TypeOK /\ SkipIsNeverMarked /\ [Next]_vars => SkipIsNeverMarked'
    <2> SUFFICES ASSUME TypeOK, SkipIsNeverMarked, [Next]_vars PROVE SkipIsNeverMarked'
      OBVIOUS
    <2>1. ASSUME NEW w \in Workers, CommitObservation(w) PROVE SkipIsNeverMarked'
      <3>1. SUFFICES ASSUME NEW m \in known', row'[m].reason = "mark"
                     PROVE  row'[m].cap # "skip"
        BY DEF SkipIsNeverMarked
      <3>2. m \in Models /\ (m \in known \/ m \in Fresh(task[w]))
        BY <2>1 DEF CommitObservation, TypeOK, Fresh, Seen
      <3>3. row'[m] = ObservedRow(task[w], m)
        BY <2>1, <3>2 DEF CommitObservation
      <3>4. row[m] \in Row
        BY <3>2 DEF TypeOK
      <3>5. QED
        BY <3>1, <3>2, <3>3, <3>4, ObservedCases, WrittenColumns DEF SkipIsNeverMarked
    <2>2. ASSUME NEW w \in Workers, CommitMark(w) PROVE SkipIsNeverMarked'
      <3>1. SUFFICES ASSUME NEW m \in known, row'[m].reason = "mark"
                     PROVE  row'[m].cap # "skip"
        BY <2>2 DEF SkipIsNeverMarked, CommitMark
      <3>2. m \in Models /\ row[m] \in Row
        BY DEF TypeOK
      <3>3. QED
        BY <2>2, <3>1, <3>2, WrittenColumns DEF CommitMark, SkipIsNeverMarked, MarkNow, Markable
    <2>3. CASE UNCHANGED <<known, row, added, lastEvent>>
      BY <2>3 DEF SkipIsNeverMarked
    <2>4. QED
      BY <2>1, <2>2, <2>3, StepKinds DEF TableStep
  <1>3. QED
    BY <1>1, <1>2, TypeCorrect, PTL DEF Spec

(* No transaction removes a row or moves its first_seen_at. *)
THEOREM FirstSeenIsKeptAlways == Spec => FirstSeenIsKept
  <1>1. TypeOK /\ [Next]_vars => [\A m \in known : m \in known' /\ row'[m].first = row[m].first]_vars
    <2> SUFFICES ASSUME TypeOK, [Next]_vars, NEW m \in known
                 PROVE  m \in known' /\ row'[m].first = row[m].first
      OBVIOUS
    <2>1. m \in Models /\ row[m] \in Row
      BY DEF TypeOK
    <2>2. ASSUME NEW w \in Workers, CommitObservation(w)
          PROVE  m \in known' /\ row'[m].first = row[m].first
      <3>1. m \notin Fresh(task[w])
        BY <2>2 DEF CommitObservation, NoConflict
      <3>2. row'[m] = ObservedRow(task[w], m)
        BY <2>1, <2>2 DEF CommitObservation
      <3>3. QED
        BY <2>1, <2>2, <3>1, <3>2, ObservedCases, WrittenColumns DEF CommitObservation
    <2>3. ASSUME NEW w \in Workers, CommitMark(w)
          PROVE  m \in known' /\ row'[m].first = row[m].first
      BY <2>1, <2>3, WrittenColumns DEF CommitMark
    <2>4. QED
      BY <2>2, <2>3, StepKinds DEF TableStep
  <1>2. QED
    BY <1>1, TypeCorrect, PTL DEF Spec, FirstSeenIsKept

-----------------------------------------------------------------------------
(* An inactive alert means a long absence *)

(* The context of a task that commits still lives. *)
LEMMA CommitInTime ==
  ASSUME TypeOK, TaskTimesPassed, NEW w \in Workers, ContextAlive(task[w])
  PROVE  /\ task[w].at \in Nat
         /\ task[w].at <= clock
         /\ clock <= task[w].at + TaskTimeout
  BY DEF TypeOK, TaskTimesPassed, ContextAlive, Task

(* A step of one worker leaves the clock and the other workers alone, and  *)
(* its own time is kept, read from the clock, or dropped with the task.    *)
LEMMA WorkerStep ==
  ASSUME TypeOK, NEW w \in Workers, Step(w)
  PROVE  /\ clock' = clock
         /\ \A v \in Workers \ {w} : task'[v] = task[v]
         /\ task'[w].at \in {task[w].at, clock, NULL}
         /\ LoadModelStates(w) \/ task'[w].kind # "loaded"
         /\ \/ task'[w].kind = "idle"
            \/ task'[w].at = clock
            \/ task'[w].at = task[w].at /\ task[w].kind # "idle"
  <1>1. Idle \in Task /\ Idle.at = NULL /\ Idle.kind = "idle"
    BY IdleType DEF Idle
  <1>2. task \in [Workers -> Task] /\ task[w] \in Task
    BY DEF TypeOK
  <1>3. CASE FinishDetection(w)
    <2>1. PICK listing : task' = [task EXCEPT ![w] = [Idle EXCEPT !.kind = "observed",
                                                    !.at = clock, !.listing = listing]]
      BY <1>3 DEF FinishDetection
    <2>2. task'[w] = [Idle EXCEPT !.kind = "observed", !.at = clock, !.listing = listing]
      BY <1>2, <2>1
    <2>3. task'[w].at = clock /\ task'[w].kind = "observed"
      BY <1>1, <2>2 DEF Task
    <2>4. QED
      BY <1>2, <1>3, <2>1, <2>3 DEF FinishDetection
  <1>4. CASE LoadModelStates(w)
    <2> DEFINE t == [task[w] EXCEPT !.kind = "loaded", !.loaded = known, !.loadedRow = row]
    <2>1. t.at = task[w].at
      BY <1>2 DEF Task
    <2>2. task' = [task EXCEPT ![w] = t]
      BY <1>2, <1>4 DEF LoadModelStates
    <2> HIDE DEF t
    <2>3. QED
      BY <1>2, <1>4, <2>1, <2>2 DEF LoadModelStates
  <1>5. CASE CommitObservation(w)
    BY <1>1, <1>2, <1>5 DEF CommitObservation
  <1>6. ASSUME NEW m \in Models, StartProbe(w, m)
        PROVE  /\ clock' = clock
               /\ \A v \in Workers \ {w} : task'[v] = task[v]
               /\ task'[w].at = clock /\ task'[w].kind = "probed"
    <2> DEFINE t == [Idle EXCEPT !.kind = "probed", !.at = clock, !.targets = {m}]
    <2>1. t.at = clock /\ t.kind = "probed"
      BY <1>1 DEF Task
    <2>2. task' = [task EXCEPT ![w] = t]
      BY <1>6 DEF StartProbe
    <2> HIDE DEF t
    <2>3. QED
      BY <1>2, <1>6, <2>1, <2>2 DEF StartProbe
  <1>7. CASE StartOutage(w)
    <2> DEFINE t == [Idle EXCEPT !.kind = "failed", !.at = clock]
    <2>1. t.at = clock /\ t.kind = "failed"
      BY <1>1 DEF Task
    <2>2. task' = [task EXCEPT ![w] = t]
      BY <1>7 DEF StartOutage
    <2> HIDE DEF t
    <2>3. QED
      BY <1>2, <1>7, <2>1, <2>2 DEF StartOutage
  <1>8. CASE ScanMarkable(w)
    <2> DEFINE t == [task[w] EXCEPT !.kind = "scanned",
                                    !.targets = {m \in known : Markable(row[m])}]
    <2>1. t.at = task[w].at /\ t.kind = "scanned"
      BY <1>2 DEF Task
    <2>2. task' = [task EXCEPT ![w] = t]
      BY <1>2, <1>8 DEF ScanMarkable
    <2> HIDE DEF t
    <2>3. QED
      BY <1>2, <1>8, <2>1, <2>2 DEF ScanMarkable
  <1>9. CASE CommitMark(w)
    BY <1>1, <1>2, <1>9 DEF CommitMark
  <1>10. CASE Abandon(w)
    BY <1>1, <1>2, <1>10 DEF Abandon
  <1>11. QED
    BY <1>3, <1>4, <1>5, <1>6, <1>7, <1>8, <1>9, <1>10 DEF Step

(* The clock and every task's time stay in order in each step. *)
LEMMA TaskTimesStep ==
  ASSUME TypeOK, TaskTimesPassed, [Next]_vars
  PROVE  TaskTimesPassed' /\ clock <= clock'
  <1>1. CASE Tick
    BY <1>1 DEF Tick, TypeOK, TaskTimesPassed, Task
  <1>2. ASSUME NEW w \in Workers, Step(w)
        PROVE  TaskTimesPassed' /\ clock <= clock'
    BY <1>2, WorkerStep DEF TaskTimesPassed, TypeOK, NULL
  <1>3. CASE UNCHANGED vars
    BY <1>3 DEF vars, TaskTimesPassed, TypeOK
  <1>4. QED
    BY <1>1, <1>2, <1>3 DEF Next

(* How a step can change the time of an absence: only a commit within its  *)
(* time limit starts one, at the committing task's time.                   *)
LEMMA AbsenceStarts ==
  ASSUME TypeOK, SightingInv, [Next]_vars, NEW m \in known, row'[m].missing # NULL
  PROVE  \/ row'[m].missing = row[m].missing
         \/ clock <= row'[m].missing + TaskTimeout
  <1>1. m \in Models /\ row[m] \in Row
    BY DEF TypeOK
  <1>2. ASSUME NEW w \in Workers, CommitObservation(w)
        PROVE  \/ row'[m].missing = row[m].missing
               \/ clock <= row'[m].missing + TaskTimeout
    <2>1. row'[m] = ObservedRow(task[w], m) /\ m \notin Fresh(task[w])
      BY <1>1, <1>2 DEF CommitObservation, NoConflict
    <2>2. clock <= task[w].at + TaskTimeout
      BY <1>2 DEF CommitObservation, ContextAlive
    <2>3. row'[m].missing \in {row[m].missing, NULL, task[w].at}
      <3>1. CASE \E cap : row'[m] \in {ReturnedRow(row[m], cap, task[w].at),
                                       RefreshedRow(row[m], cap, task[w].at)}
        BY <1>1, <3>1, WrittenColumns
      <3>2. CASE row'[m] \in {row[m], DisappearedRow(row[m], task[w].at)}
        BY <1>1, <3>2, WrittenColumns
      <3>3. QED
        BY <1>1, <2>1, <3>1, <3>2, ObservedCases
    <2>4. QED
      BY <2>2, <2>3
  <1>3. ASSUME NEW w \in Workers, CommitMark(w)
        PROVE  \/ row'[m].missing = row[m].missing
               \/ clock <= row'[m].missing + TaskTimeout
    <2>1. row'[m] \in {row[m], MarkedRow(row[m], task[w].at)}
      BY <1>1, <1>3 DEF CommitMark
    <2>2. clock <= task[w].at + TaskTimeout
      BY <1>3 DEF CommitMark, ContextAlive
    <2>3. QED
      BY <1>1, <2>1, <2>2, WrittenColumns
  <1>4. QED
    BY <1>2, <1>3, StepKinds DEF TableStep

(* A row's last sighting stays before its absence, within a time limit. *)
LEMMA SightedStep ==
  ASSUME TypeOK, SightingInv, [Next]_vars
  PROVE  SightedBeforeGone'
  <1>1. clock <= clock' /\ clock \in Nat /\ clock' \in Nat /\ TaskTimeout \in Nat
    BY TaskTimesStep, TypeStep, TimesAssumption DEF SightingInv, TypeOK
  <1>2. ASSUME NEW w \in Workers, CommitObservation(w), NEW m \in known'
        PROVE  /\ row'[m].last <= clock'
               /\ row'[m].missing # NULL => row'[m].last <= row'[m].missing + TaskTimeout
    <2> DEFINE t == task[w]
    <2>1. m \in Models /\ row[m] \in Row /\ (m \in known \/ m \in Fresh(t))
      BY <1>2 DEF CommitObservation, TypeOK, Fresh, Seen
    <2>2. row'[m] = ObservedRow(t, m)
      BY <1>2, <2>1 DEF CommitObservation
    <2>3. t.at \in Nat /\ t.at <= clock /\ clock <= t.at + TaskTimeout
      BY <1>2, CommitInTime DEF CommitObservation, SightingInv
    <2>4. row[m].last \in Nat /\ row[m].missing \in Nat
      BY <2>1 DEF Row
    <2>5. CASE \E cap : row'[m] \in {InsertedRow(cap, t.at), ReturnedRow(row[m], cap, t.at)}
      BY <1>1, <2>1, <2>3, <2>5, WrittenColumns
    <2>6. CASE m \in Refreshed(t) /\ \E cap : row'[m] = RefreshedRow(row[m], cap, t.at)
      <3>1. row'[m].last = t.at /\ row'[m].missing = row[m].missing
        BY <2>1, <2>6, WrittenColumns
      <3>2. m \in t.loaded /\ t.loadedRow[m].missing = NULL
        BY <2>6 DEF Refreshed, Returning
      <3>3. row[m].missing # NULL => t.at <= row[m].missing + TaskTimeout
        BY <1>2, <3>2 DEF SightingInv, StaleLoadIsRecent, CommitObservation
      <3>4. QED
        BY <1>1, <2>3, <3>1, <3>3
    <2>7. CASE m \in known /\ row'[m] = DisappearedRow(row[m], t.at)
      <3>1. row'[m].last = row[m].last /\ row'[m].missing = t.at
        BY <2>1, <2>7, WrittenColumns
      <3>2. row[m].last <= clock
        BY <2>7 DEF SightingInv, SightedBeforeGone
      <3>3. QED
        BY <1>1, <2>3, <2>4, <3>1, <3>2
    <2>8. CASE m \in known /\ row'[m] = row[m]
      BY <1>1, <2>4, <2>8 DEF SightingInv, SightedBeforeGone
    <2>9. QED
      BY <2>1, <2>2, <2>5, <2>6, <2>7, <2>8, ObservedCases
  <1>3. ASSUME NEW w \in Workers, CommitMark(w), NEW m \in known
        PROVE  /\ row'[m].last <= clock'
               /\ row'[m].missing # NULL => row'[m].last <= row'[m].missing + TaskTimeout
    <2>1. m \in Models /\ row[m] \in Row /\ row[m].last \in Nat /\ row[m].missing \in Nat
      BY DEF TypeOK, Row
    <2>2. row'[m] \in {row[m], MarkedRow(row[m], task[w].at)}
      BY <1>3, <2>1 DEF CommitMark
    <2>3. task[w].at \in Nat /\ clock <= task[w].at + TaskTimeout
      BY <1>3, CommitInTime DEF CommitMark, SightingInv
    <2>4. row'[m].last = row[m].last /\ row'[m].missing \in {row[m].missing, task[w].at}
      BY <2>1, <2>2, WrittenColumns
    <2>5. /\ row[m].last <= clock
          /\ row[m].missing # NULL => row[m].last <= row[m].missing + TaskTimeout
      BY DEF SightingInv, SightedBeforeGone
    <2>6. QED
      BY <1>1, <2>1, <2>3, <2>4, <2>5
  <1>4. CASE UNCHANGED <<known, row, added, lastEvent>>
    BY <1>1, <1>4 DEF SightingInv, SightedBeforeGone, TypeOK, Row
  <1>5. ASSUME NEW w \in Workers, CommitMark(w) PROVE known' = known
    BY <1>5 DEF CommitMark
  <1>6. QED
    BY <1>2, <1>3, <1>4, <1>5, StepKinds DEF TableStep, SightedBeforeGone

(* A task that loaded a row before it went is still within a time limit of *)
(* the moment the row went.                                                *)
LEMMA StaleLoadStep ==
  ASSUME TypeOK, SightingInv, [Next]_vars
  PROVE  StaleLoadIsRecent'
  <1>1. SUFFICES ASSUME NEW w \in Workers, task'[w].kind = "loaded", NEW m \in task'[w].loaded
                 PROVE  /\ m \in known'
                        /\ (task'[w].loadedRow[m].missing = NULL /\ row'[m].missing # NULL)
                               => task'[w].at <= row'[m].missing + TaskTimeout
    BY DEF StaleLoadIsRecent
  <1>2. CASE LoadModelStates(w)
    BY <1>1, <1>2 DEF LoadModelStates, TypeOK, Task
  <1>3. CASE task'[w] = task[w]
    <2>1. m \in known /\ (task[w].loadedRow[m].missing = NULL /\ row[m].missing # NULL
                             => task[w].at <= row[m].missing + TaskTimeout)
      BY <1>1, <1>3 DEF SightingInv, StaleLoadIsRecent
    <2>2. m \in known'
      BY <2>1, StepKinds DEF TableStep, CommitObservation, CommitMark
    <2>3. task[w].at \in Nat /\ task[w].at <= clock /\ clock \in Nat /\ TaskTimeout \in Nat
      BY TimesAssumption DEF TypeOK, Task, SightingInv, TaskTimesPassed
    <2>4. row'[m].missing \in Nat
      <3>1. TypeOK'
        BY TypeStep
      <3>2. QED
        BY <2>2, <3>1 DEF TypeOK, Row
    <2>5. QED
      BY <1>3, <2>1, <2>2, <2>3, <2>4, AbsenceStarts
  <1>4. LoadModelStates(w) \/ task'[w] = task[w]
    BY <1>1, WorkerStep DEF Next, Tick, vars
  <1>5. QED
    BY <1>2, <1>3, <1>4

(* The strengthening that keeps AlertMeansLongAbsence inductive holds. *)
THEOREM SightingInvAlways == Spec => []SightingInv
  <1>1. Init => SightingInv
    BY DEF Init, SightingInv, TaskTimesPassed, SightedBeforeGone, StaleLoadIsRecent, Idle, NULL
  <1>2. TypeOK /\ SightingInv /\ [Next]_vars => SightingInv'
    <2> SUFFICES ASSUME TypeOK, SightingInv, [Next]_vars PROVE SightingInv'
      OBVIOUS
    <2>1. TaskTimesPassed'
      BY TaskTimesStep DEF SightingInv
    <2>2. QED
      BY <2>1, SightedStep, StaleLoadStep DEF SightingInv
  <1>3. QED
    BY <1>1, <1>2, TypeCorrect, PTL DEF Spec

(* A model the inactive-alert query returns was last sighted longer ago    *)
(* than the threshold, less the time limit of a task, however snapshots,   *)
(* probes and outages overlapped.                                          *)
THEOREM AlertMeansLongAbsenceAlways == Spec => []AlertMeansLongAbsence
  <1>1. TypeOK /\ SightingInv => AlertMeansLongAbsence
    <2> SUFFICES ASSUME TypeOK, SightingInv, NEW m \in InactiveModelsForAlert(clock)
                 PROVE  row[m].last <= clock - AbsenceAlertAfter + TaskTimeout
      BY DEF AlertMeansLongAbsence
    <2>1. /\ m \in known
          /\ row[m].missing # NULL
          /\ row[m].missing <= clock - AbsenceAlertAfter
      BY DEF InactiveModelsForAlert
    <2>2. row[m].last \in Nat /\ row[m].missing \in Nat /\ clock \in Nat
      BY <2>1 DEF TypeOK, Row
    <2>3. row[m].last <= row[m].missing + TaskTimeout
      BY <2>1 DEF SightingInv, SightedBeforeGone
    <2>4. QED
      BY <2>1, <2>2, <2>3, TimesAssumption
  <1>2. QED
    BY <1>1, TypeCorrect, SightingInvAlways, PTL
-----------------------------------------------------------------------------
(* What holds until two tasks overlap *)

(* A task that commits alone decided from the rows that are still there,   *)
(* so the branch it takes fits them, and no row is newer than the task.    *)
LEMMA AloneCommits ==
  ASSUME TypeOK, TaskTimesPassed, AloneInv, ~overlapped,
         NEW w \in Workers, CommitObservation(w), NEW m \in known'
  PROVE  StoryOf(m)'
  <1> DEFINE t == task[w]
  <1>1. /\ t \in Task /\ t.kind = "loaded" /\ t.at \in Nat \ {0} /\ t.at <= clock
        /\ clock \in Nat /\ clock' = clock
    BY DEF CommitObservation, TypeOK, TaskTimesPassed, NULL, Task
  <1>2. t.loaded = known /\ t.loadedRow = row
    BY <1>1 DEF AloneInv, CopyIsCurrent
  <1>3. m \in Models /\ (m \in known \/ m \in Fresh(t))
    BY DEF CommitObservation, TypeOK, Fresh, Seen
  <1>4. row'[m] = ObservedRow(t, m) /\ lastEvent'[m] = ObservedEvent(t, m) /\ row[m] \in Row
    BY <1>3 DEF CommitObservation, TypeOK
  <1>5. m \in known => StoryOf(m) /\ row[m].last <= t.at /\ row[m].missing <= t.at
    BY <1>1 DEF AloneInv, RowsPrecedeTask
  <1> HIDE DEF t
  <1>6. row[m].first \in Nat /\ row[m].last \in Nat /\ row[m].missing \in Nat
    BY <1>4 DEF Row
  <1>7. CASE /\ m \in Fresh(t) /\ row'[m] = InsertedRow(t.listing[m], t.at)
             /\ lastEvent'[m] = "added"
    BY <1>1, <1>7 DEF InsertedRow, StoryOf, NULL
  <1>8. CASE /\ m \in Returning(t) /\ m \notin Fresh(t) /\ lastEvent'[m] = "returned"
             /\ row'[m] = ReturnedRow(row[m], t.listing[m], t.at)
    BY <1>1, <1>3, <1>4, <1>5, <1>6, <1>8, WrittenColumns DEF StoryOf, NULL
  <1>9. CASE /\ m \in Refreshed(t) /\ m \notin Fresh(t) /\ lastEvent'[m] = lastEvent[m]
             /\ row'[m] = RefreshedRow(row[m], t.listing[m], t.at)
    <2>1. row[m].missing = NULL
      BY <1>2, <1>9 DEF Refreshed, Returning
    <2>2. QED
      BY <1>1, <1>3, <1>4, <1>5, <1>6, <1>9, <2>1, WrittenColumns DEF StoryOf, NULL
  <1>10. CASE /\ m \in Disappeared(t) /\ m \notin Fresh(t) /\ lastEvent'[m] = "inactive"
              /\ row'[m] = DisappearedRow(row[m], t.at)
    BY <1>1, <1>3, <1>4, <1>5, <1>6, <1>10, WrittenColumns DEF StoryOf, NULL
  <1>11. CASE m \notin Fresh(t) /\ row'[m] = row[m] /\ lastEvent'[m] = lastEvent[m]
    BY <1>1, <1>3, <1>5, <1>11 DEF StoryOf
  <1>12. QED
    BY <1>3, <1>4, <1>7, <1>8, <1>9, <1>10, <1>11, ObservedCases

(* A mark made alone tells the same story. *)
LEMMA AloneMarks ==
  ASSUME TypeOK, TaskTimesPassed, AloneInv, ~overlapped,
         NEW w \in Workers, CommitMark(w), NEW m \in known'
  PROVE  StoryOf(m)'
  <1> DEFINE t == task[w]
  <1>1. /\ t \in Task /\ t.kind # "idle" /\ t.at \in Nat \ {0} /\ t.at <= clock
        /\ clock \in Nat /\ clock' = clock
    BY DEF CommitMark, TypeOK, TaskTimesPassed, NULL, Task
  <1>2. m \in known /\ m \in Models /\ row[m] \in Row
    BY DEF CommitMark, TypeOK
  <1>3. StoryOf(m) /\ row[m].last <= t.at
    BY <1>1, <1>2 DEF AloneInv, RowsPrecedeTask
  <1>4. row[m].first \in Nat /\ row[m].last \in Nat /\ row[m].missing \in Nat
    BY <1>2 DEF Row
  <1>5. CASE m \in MarkNow(t)
    <2>1. row'[m] = MarkedRow(row[m], t.at) /\ lastEvent'[m] = "inactive"
      BY <1>2, <1>5 DEF CommitMark
    <2>2. row[m].missing = NULL
      BY <1>3, <1>5 DEF MarkNow, Markable, StoryOf
    <2> HIDE DEF t
    <2>3. /\ row'[m].status = "inactive" /\ row'[m].missing = t.at
          /\ row'[m].first = row[m].first /\ row'[m].last = row[m].last
      BY <1>2, <2>1, <2>2 DEF MarkedRow, Row
    <2>4. QED
      BY <1>1, <1>3, <1>4, <2>1, <2>3 DEF StoryOf, NULL
  <1>6. CASE m \notin MarkNow(t)
    BY <1>1, <1>2, <1>3, <1>6 DEF CommitMark, StoryOf
  <1>7. QED
    BY <1>5, <1>6

(* A step of one worker that commits nothing leaves its copy current. *)
LEMMA AloneGoesOn ==
  ASSUME TypeOK, TaskTimesPassed, AloneInv, ~overlapped,
         NEW w \in Workers, Step(w), UNCHANGED <<known, row, added, lastEvent>>
  PROVE  CopyIsCurrent' /\ RowsPrecedeTask' /\ \A m \in known' : StoryOf(m)'
  <1>1. clock' = clock /\ clock \in Nat
    BY WorkerStep DEF TypeOK
  <1>2. CopyIsCurrent'
    <2>1. SUFFICES ASSUME NEW v \in Workers, task'[v].kind = "loaded"
                   PROVE  task'[v].loaded = known /\ task'[v].loadedRow = row
      BY DEF CopyIsCurrent
    <2>2. CASE v # w
      BY <2>1, <2>2, WorkerStep DEF AloneInv, CopyIsCurrent
    <2>3. CASE v = w
      <3> DEFINE t == [task[w] EXCEPT !.kind = "loaded", !.loaded = known, !.loadedRow = row]
      <3>1. LoadModelStates(w)
        BY <2>1, <2>3, WorkerStep
      <3>2. t.loaded = known /\ t.loadedRow = row
        BY DEF TypeOK, Task
      <3>3. task'[w] = t
        BY <3>1 DEF LoadModelStates, TypeOK
      <3> HIDE DEF t
      <3>4. QED
        BY <2>3, <3>2, <3>3
    <2>4. QED
      BY <2>2, <2>3
  <1>3. RowsPrecedeTask'
    <2>1. SUFFICES ASSUME NEW v \in Workers, task'[v].kind # "idle", NEW m \in known
                   PROVE  row[m].last <= task'[v].at /\ row[m].missing <= task'[v].at
      BY DEF RowsPrecedeTask
    <2>2. CASE v # w
      BY <2>1, <2>2, WorkerStep DEF AloneInv, RowsPrecedeTask
    <2>3. CASE v = w
      BY <2>1, <2>3, WorkerStep DEF AloneInv, RowsPrecedeTask, StoryOf
    <2>4. QED
      BY <2>2, <2>3
  <1>4. QED
    BY <1>1, <1>2, <1>3 DEF AloneInv, StoryOf

(* Until two tasks overlap, the task in progress knows the table.          *)
THEOREM AloneInvAlways == Spec => []AloneInv
  <1>1. Init => AloneInv
    BY DEF Init, AloneInv, OneAtATime, CopyIsCurrent, RowsPrecedeTask, Idle
  <1>2. TypeOK /\ TaskTimesPassed /\ AloneInv /\ [Next]_vars => AloneInv'
    <2> SUFFICES ASSUME TypeOK, TaskTimesPassed, AloneInv, [Next]_vars, ~overlapped'
                 PROVE  /\ OneAtATime' /\ CopyIsCurrent' /\ RowsPrecedeTask'
                        /\ \A m \in known' : StoryOf(m)'
      BY DEF AloneInv
    <2>1. CASE UNCHANGED vars
      BY <2>1 DEF vars, AloneInv, OneAtATime, CopyIsCurrent, RowsPrecedeTask, StoryOf
    <2>2. CASE Next
      <3>1. OneAtATime' /\ ~overlapped
        BY <2>2 DEF Next
      <3>2. CASE Tick
        BY <3>1, <3>2 DEF Tick, AloneInv, CopyIsCurrent, RowsPrecedeTask, StoryOf, TypeOK, Row
      <3>3. ASSUME NEW w \in Workers, Step(w)
            PROVE  CopyIsCurrent' /\ RowsPrecedeTask' /\ \A m \in known' : StoryOf(m)'
        <4>1. CASE CommitObservation(w) \/ CommitMark(w)
          <5>1. \A v \in Workers : task'[v].kind = "idle"
            BY <3>1, <4>1 DEF CommitObservation, CommitMark, AloneInv, OneAtATime, TypeOK, Idle
          <5>2. \A m \in known' : StoryOf(m)'
            BY <3>1, <4>1, AloneCommits, AloneMarks
          <5>3. QED
            BY <5>1, <5>2 DEF CopyIsCurrent, RowsPrecedeTask
        <4>2. CASE ~(CommitObservation(w) \/ CommitMark(w))
          <5>1. UNCHANGED <<known, row, added, lastEvent>>
            BY <3>3, <4>2 DEF Step, FinishDetection, LoadModelStates, StartProbe, StartOutage,
                              ScanMarkable, Abandon
          <5>2. QED
            BY <3>1, <3>3, <5>1, AloneGoesOn
        <4>3. QED
          BY <4>1, <4>2
      <3>4. QED
        BY <2>2, <3>1, <3>2, <3>3 DEF Next
    <2>3. QED
      BY <2>1, <2>2
  <1>3. QED
    BY <1>1, <1>2, TypeCorrect, SightingInvAlways, PTL DEF Spec, SightingInv

(* Until two tasks overlap, status, missing_since and the events agree. *)
THEOREM StatusMatchesHistoryAlways == Spec => []StatusMatchesHistory
  <1>1. AloneInv => StatusMatchesHistory
    BY DEF AloneInv, StatusMatchesHistory, StoryOf
  <1>2. QED
    BY <1>1, AloneInvAlways, PTL

(* Until two tasks overlap, the times of a row are in order. *)
THEOREM TimesInOrderAlways == Spec => []TimesInOrder
  <1>1. AloneInv => TimesInOrder
    BY DEF AloneInv, TimesInOrder, StoryOf
  <1>2. QED
    BY <1>1, AloneInvAlways, PTL

(* Until two tasks overlap, the start of an absence does not move. *)
THEOREM AbsenceStartIsKeptAlways == Spec => AbsenceStartIsKept
  <1>1. TypeOK /\ TaskTimesPassed /\ AloneInv /\ [Next]_vars
          => [~overlapped' =>
                \A m \in known : row[m].status = "inactive" /\ row'[m].status = "inactive"
                    => row'[m].missing = row[m].missing]_vars
    <2> SUFFICES ASSUME TypeOK, TaskTimesPassed, AloneInv, Next, ~overlapped', NEW m \in known,
                        row[m].status = "inactive", row'[m].status = "inactive"
                 PROVE  row'[m].missing = row[m].missing
      BY DEF vars
    <2>1. ~overlapped /\ m \in Models /\ row[m] \in Row
      BY DEF Next, TypeOK
    <2>2. row[m].missing # NULL
      BY <2>1 DEF AloneInv, StoryOf
    <2>3. ASSUME NEW w \in Workers, CommitObservation(w)
          PROVE  row'[m].missing = row[m].missing
      <3>1. row'[m] = ObservedRow(task[w], m) /\ task[w].loaded = known /\ task[w].loadedRow = row
        BY <2>1, <2>3 DEF CommitObservation, AloneInv, CopyIsCurrent
      <3>2. m \notin Fresh(task[w]) /\ m \notin Disappeared(task[w]) /\ m \notin Refreshed(task[w])
        BY <2>2, <3>1 DEF Fresh, Disappeared, Refreshed, Returning
      <3>3. row'[m] = row[m] \/ row'[m] = ReturnedRow(row[m], task[w].listing[m], task[w].at)
        BY <2>1, <3>1, <3>2, ObservedCases
      <3>4. QED
        BY <2>1, <3>3, WrittenColumns
    <2>4. ASSUME NEW w \in Workers, CommitMark(w)
          PROVE  row'[m].missing = row[m].missing
      BY <2>1, <2>4 DEF CommitMark, MarkNow, Markable
    <2>5. QED
      BY <2>3, <2>4, StepKinds DEF TableStep, vars
  <1>2. QED
    BY <1>1, TypeCorrect, AloneInvAlways, SightingInvAlways, PTL DEF Spec, SightingInv, AbsenceStartIsKept

-----------------------------------------------------------------------------
(* The table is the abstract one until two tasks overlap *)

(* The time of a task that commits alone: it has come, and nothing on      *)
(* record is later.                                                        *)
LEMMA AloneInOrder ==
  ASSUME TypeOK, TaskTimesPassed, AloneInv, ~overlapped,
         NEW w \in Workers, task[w].kind # "idle"
  PROVE  task[w].at \in 1 .. clock /\ Table!InOrder(task[w].at)
  <1>1. task[w].at \in Nat \ {0} /\ task[w].at <= clock /\ clock \in Nat
    BY DEF TypeOK, TaskTimesPassed, NULL, Task
  <1>2. \A m \in known : row[m].missing <= task[w].at
    BY DEF AloneInv, RowsPrecedeTask
  <1>3. QED
    BY <1>1, <1>2 DEF Table!InOrder, MissingSince, NULL

(* The branches exclude each other. *)
LEMMA ObservedBranches ==
  ASSUME NEW t, NEW m \in Models
  PROVE  /\ m \in Fresh(t) => ObservedRow(t, m) = InsertedRow(t.listing[m], t.at)
         /\ m \in Returning(t) => ObservedRow(t, m) = ReturnedRow(row[m], t.listing[m], t.at)
         /\ m \in Refreshed(t) => ObservedRow(t, m) = RefreshedRow(row[m], t.listing[m], t.at)
         /\ m \in Disappeared(t) => ObservedRow(t, m) = DisappearedRow(row[m], t.at)
         /\ m \notin Fresh(t) \cup Returning(t) \cup Refreshed(t) \cup Disappeared(t)
               => ObservedRow(t, m) = row[m]
  BY DEF ObservedRow, Fresh, Returning, Refreshed, Disappeared

(* A snapshot committed alone is an observation of what it has seen: what  *)
(* it takes for new, returned or disappeared is so.                        *)
LEMMA AloneObserves ==
  ASSUME TypeOK, TaskTimesPassed, AloneInv, ~overlapped,
         NEW w \in Workers, CommitObservation(w)
  PROVE  Table!Observe(Seen(task[w]), task[w].at)
  <1> DEFINE t == task[w]
  <1>1. t \in Task /\ t.kind = "loaded" /\ t.at \in Nat \ {0} /\ UNCHANGED clock
    BY DEF CommitObservation, TypeOK, Task, NULL
  <1>2. t.loaded = known /\ t.loadedRow = row
    BY <1>1 DEF AloneInv, CopyIsCurrent
  <1>3. Table!InOrder(t.at)
    BY <1>1, AloneInOrder
  <1>4. known' = known \cup Fresh(t) /\ Fresh(t) = Seen(t) \ known /\ Seen(t) \subseteq Models
    BY <1>2 DEF CommitObservation, Fresh, Seen
  <1>5. ASSUME NEW m \in Models
        PROVE  MissingSince(m)' = IF m \in Seen(t) THEN NULL
                                  ELSE IF m \in known /\ MissingSince(m) = NULL THEN t.at
                                  ELSE MissingSince(m)
    <2>1. row'[m] = ObservedRow(t, m) /\ row[m] \in Row
      BY DEF CommitObservation, TypeOK
    <2>2. m \in known => ((row[m].status = "inactive") = (row[m].missing # NULL))
      BY DEF AloneInv, StoryOf
    <2> HIDE DEF t
    <2>3. CASE m \in Fresh(t)
      <3>1. row'[m].missing = NULL
        BY <2>1, <2>3, ObservedBranches, WrittenColumns
      <3>2. QED
        BY <1>4, <2>3, <3>1 DEF MissingSince
    <2>4. CASE m \in Returning(t) \/ m \in Refreshed(t)
      <3>1. m \in known /\ m \in Seen(t) /\ m \notin Fresh(t)
        BY <1>2, <1>4, <2>4 DEF Returning, Refreshed
      <3>2. m \in Refreshed(t) => row[m].missing = NULL /\ m \notin Returning(t)
        BY <1>2, <3>1 DEF Refreshed, Returning
      <3>3. row'[m].missing = NULL
        BY <2>1, <2>4, <3>2, ObservedBranches, WrittenColumns
      <3>4. QED
        BY <1>4, <3>1, <3>3 DEF MissingSince
    <2>5. CASE m \in known \ Seen(t)
      <3>1. m \in Disappeared(t) <=> row[m].missing = NULL
        BY <1>2, <2>2, <2>5 DEF Disappeared
      <3>2. m \notin Fresh(t) /\ m \notin Returning(t) /\ m \notin Refreshed(t)
        BY <2>5 DEF Fresh, Returning, Refreshed
      <3>3. row'[m].missing = IF row[m].missing = NULL THEN t.at ELSE row[m].missing
        BY <2>1, <3>1, <3>2, ObservedBranches, WrittenColumns
      <3>4. QED
        BY <1>4, <2>5, <3>3 DEF MissingSince
    <2>6. CASE m \notin known \cup Seen(t)
      BY <1>4, <2>6 DEF MissingSince
    <2>7. m \in Seen(t) => m \in Fresh(t) \/ m \in Returning(t) \/ m \in Refreshed(t)
      BY <1>2 DEF Fresh, Returning, Refreshed
    <2>8. QED
      BY <2>3, <2>4, <2>5, <2>6, <2>7
  <1>6. QED
    BY <1>1, <1>3, <1>4, <1>5 DEF Table!Observe, NULL, Table!NULL

(* A mark made alone finds models gone that were there. *)
LEMMA AloneMisses ==
  ASSUME TypeOK, TaskTimesPassed, AloneInv, ~overlapped,
         NEW w \in Workers, CommitMark(w)
  PROVE  MarkNow(task[w]) \subseteq known /\ Table!Miss(MarkNow(task[w]), task[w].at)
  <1> DEFINE t == task[w]
  <1>1. t.kind # "idle" /\ UNCHANGED <<clock, known>>
    BY DEF CommitMark
  <1>2. Table!InOrder(t.at)
    BY <1>1, AloneInOrder
  <1>3. \A m \in MarkNow(t) : m \in known /\ m \in Models /\ row[m].missing = NULL
    BY DEF MarkNow, Markable, AloneInv, StoryOf, TypeOK
  <1>4. ASSUME NEW m \in Models
        PROVE  MissingSince(m)' = IF m \in MarkNow(t) THEN t.at ELSE MissingSince(m)
    <2>1. row'[m] = IF m \in MarkNow(t) THEN MarkedRow(row[m], t.at) ELSE row[m]
      BY DEF CommitMark
    <2>2. row[m] \in Row
      BY DEF TypeOK
    <2> HIDE DEF t
    <2>3. m \in MarkNow(t) => MarkedRow(row[m], t.at).missing = t.at
      BY <1>3, <2>2, WrittenColumns
    <2>4. QED
      BY <1>1, <1>3, <2>1, <2>3 DEF MissingSince
  <1>5. QED
    BY <1>1, <1>2, <1>3, <1>4 DEF Table!Miss, MissingSince, NULL, Table!NULL

(* Until two tasks overlap, every step of the table is one of the abstract *)
(* table, or leaves it alone.                                              *)
THEOREM PresenceUntilOverlapAlways == Spec => PresenceUntilOverlap
  <1>1. TypeOK /\ TaskTimesPassed /\ AloneInv /\ [Next]_vars
          => [~overlapped' => [Table!Next]_(Table!vars)]_vars
    <2> SUFFICES ASSUME TypeOK, TaskTimesPassed, AloneInv, Next, ~overlapped'
                 PROVE  [Table!Next]_(Table!vars)
      OBVIOUS
    <2>1. ~overlapped
      BY DEF Next
    <2>2. ASSUME NEW w \in Workers, CommitObservation(w) PROVE Table!Next
      <3>1. task[w].at \in 1 .. clock
        BY <2>1, <2>2, AloneInOrder DEF CommitObservation
      <3>2. Seen(task[w]) \in SUBSET Models
        BY DEF Seen
      <3>3. QED
        BY <2>1, <2>2, <3>1, <3>2, AloneObserves DEF Table!Next
    <2>3. ASSUME NEW w \in Workers, CommitMark(w) PROVE Table!Next
      <3>1. task[w].at \in 1 .. clock
        BY <2>1, <2>3, AloneInOrder DEF CommitMark
      <3>2. QED
        BY <2>1, <2>3, <3>1, AloneMisses DEF Table!Next
    <2>4. CASE UNCHANGED <<known, row>> /\ clock' \in {clock, clock + 1}
      <3>1. \A m \in Models : MissingSince(m)' = MissingSince(m)
        BY <2>4 DEF MissingSince
      <3>2. QED
        BY <2>4, <3>1 DEF Table!Next, Table!Tick, Table!vars
    <2>5. \/ \E w \in Workers : CommitObservation(w) \/ CommitMark(w)
          \/ UNCHANGED <<known, row>> /\ clock' \in {clock, clock + 1}
      BY DEF Next, Step, Tick, FinishDetection, LoadModelStates, StartProbe, StartOutage,
             ScanMarkable, Abandon
    <2>6. QED
      BY <2>2, <2>3, <2>4, <2>5
  <1>2. QED
    BY <1>1, TypeCorrect, AloneInvAlways, SightingInvAlways, PTL
    DEF Spec, SightingInv, PresenceUntilOverlap
=============================================================================
