-------------------------- MODULE Schedule_proofs --------------------------
(***************************************************************************)
(* Theorems about Schedule, for any models, intervals, overrides and       *)
(* spacing: the variables keep their types, a task has one entry and each  *)
(* model a delay of its own, and syncs put off only the runs of models     *)
(* behind one that came or went.                                           *)
(***************************************************************************)
EXTENDS Schedule, FiniteSetTheorems, WellFoundedInduction, TLAPS

Table == [Models -> Capability \cup {None}]

(* What is registered is what the last sync saw. *)
RegisteredOK ==
    /\ up => DOMAIN left = GetConfigs(synced)
    /\ ~up => left = NoEntries

-----------------------------------------------------------------------------
(* The list of models *)

LEMMA NatMin ==
    ASSUME NEW S \in SUBSET Nat, S # {}
    PROVE  Min(S) \in S /\ \A y \in S : Min(S) <= y
<1>1. PICK x \in S : \A y \in S : ~(<<y, x>> \in OpToRel(<, Nat))
  BY NatLessThanWellFounded, WFMin
<1>2. \A y \in S : y < x <=> <<y, x>> \in OpToRel(<, Nat)
  BY Zenon DEF OpToRel
<1>3. \A y \in S : x <= y
  <2>1. \A y \in S : ~(y < x)
    BY <1>1, <1>2, Zenon
  <2> QED
    BY <2>1
<1> QED
  BY <1>3 DEF Min

LEMMA ListFacts ==
    /\ ListOrder \in [1 .. Len(ListOrder) -> Models] /\ Len(ListOrder) \in Nat
    /\ DOMAIN ListOrder = 1 .. Len(ListOrder)
    /\ \A m \in Models : \E i \in 1 .. Len(ListOrder) : ListOrder[i] = m
    /\ \A i, j \in 1 .. Len(ListOrder) : ListOrder[i] = ListOrder[j] => i = j
    /\ Models \cap FixedTasks = {}
<1>1. ListOrder \in Seq(Models)
  BY ListAssumption
<1>2. /\ ListOrder \in [1 .. Len(ListOrder) -> Models] /\ Len(ListOrder) \in Nat
      /\ DOMAIN ListOrder = 1 .. Len(ListOrder)
  BY <1>1
<1> QED
  BY <1>2, ListAssumption

LEMMA ModelsFinite == IsFiniteSet(Models)
<1>1. IsFiniteSet(1 .. Len(ListOrder))
  BY ListFacts, FS_Interval
<1>2. ListOrder \in Surjection(1 .. Len(ListOrder), Models)
  BY ListFacts DEF Surjection
<1> QED
  BY <1>1, <1>2, FS_Surjection

(* The list orders the models. *)
LEMMA BeforeFacts ==
    ASSUME NEW q \in Models, NEW m \in Models
    PROVE  /\ ~Before(q, q)
           /\ q # m => Before(q, m) \/ Before(m, q)
           /\ Before(q, m) => \A r \in Models : Before(r, q) => Before(r, m)
<1>1. ~Before(q, q)
  BY ListFacts DEF Before
<1>2. ASSUME q # m PROVE Before(q, m) \/ Before(m, q)
  <2>1. PICK i \in 1 .. Len(ListOrder), j \in 1 .. Len(ListOrder) : ListOrder[i] = q /\ ListOrder[j] = m
    BY ListFacts
  <2>2. i < j \/ j < i
    BY <1>2, <2>1, ListFacts
  <2> QED
    BY <2>1, <2>2, ListFacts DEF Before
<1>3. ASSUME Before(q, m), NEW r \in Models, Before(r, q)
      PROVE  Before(r, m)
  <2>1. PICK i \in 1 .. Len(ListOrder), j \in 1 .. Len(ListOrder) :
           i < j /\ ListOrder[i] = q /\ ListOrder[j] = m
    BY <1>3, ListFacts DEF Before
  <2>2. PICK h \in 1 .. Len(ListOrder), k \in 1 .. Len(ListOrder) :
           h < k /\ ListOrder[h] = r /\ ListOrder[k] = q
    BY <1>3, ListFacts DEF Before
  <2>3. k = i /\ h < j
    BY <2>1, <2>2, ListFacts
  <2> QED
    BY <2>1, <2>2, <2>3, ListFacts DEF Before
<1> QED
  BY <1>1, <1>2, <1>3

Predecessors(table, m) == {q \in RunnableModels(table) : Before(q, m)}

LEMMA IndexFacts ==
    ASSUME NEW table
    PROVE  /\ \A m \in Models : Index(table, m) \in Nat
           /\ \A q, m \in RunnableModels(table) :
                 Before(q, m) => Index(table, q) < Index(table, m)
<1>1. ASSUME NEW m \in Models
      PROVE  IsFiniteSet(Predecessors(table, m)) /\ Index(table, m) = Cardinality(Predecessors(table, m))
  BY ModelsFinite, FS_Subset DEF Predecessors, RunnableModels, Index
<1>2. \A m \in Models : Index(table, m) \in Nat
  BY <1>1, FS_CardinalityType
<1>3. ASSUME NEW q \in RunnableModels(table), NEW m \in RunnableModels(table), Before(q, m)
      PROVE  Index(table, q) < Index(table, m)
  <2>1. q \in Models /\ m \in Models
    BY DEF RunnableModels
  <2>2. /\ Predecessors(table, q) \subseteq Predecessors(table, m)
        /\ q \in Predecessors(table, m) \ Predecessors(table, q)
    BY <1>3, <2>1, BeforeFacts DEF Predecessors, RunnableModels
  <2>3. /\ Cardinality(Predecessors(table, q)) <= Cardinality(Predecessors(table, m))
        /\ Cardinality(Predecessors(table, q)) # Cardinality(Predecessors(table, m))
    BY <1>1, <2>1, <2>2, FS_Subset
  <2> QED
    BY <1>1, <1>2, <2>1, <2>3
<1> QED
  BY <1>2, <1>3

-----------------------------------------------------------------------------
(* The schedules *)

LEMMA IntervalTyped ==
    ASSUME NEW m \in Models
    PROVE  ModelInterval(m) \in Nat
<1> DEFINE Override == [exact : BOOLEAN, models : SUBSET Models, every : Nat]
<1>1. Overrides \in Seq(Override) /\ \A o \in Override : o.every \in Nat
  BY IntervalAssumption
<1> HIDE DEF Override
<1>2. /\ DOMAIN Overrides = 1 .. Len(Overrides) /\ Len(Overrides) \in Nat
      /\ \A i \in DOMAIN Overrides : Overrides[i].every \in Nat
  BY <1>1
<1>3. ASSUME NEW exact, About(m, exact) # {}
      PROVE  Overrides[Min(About(m, exact))].every \in Nat
  <2>1. About(m, exact) \in SUBSET Nat
    BY <1>2 DEF About
  <2>2. Min(About(m, exact)) \in DOMAIN Overrides
    BY <1>3, <2>1, NatMin DEF About
  <2> QED
    BY <1>2, <2>2
<1>4. ModelRuns \in Nat
  BY IntervalAssumption
<1> QED
  BY <1>3, <1>4 DEF ModelInterval

LEMMA ConfigsTyped ==
    ASSUME NEW table \in Table
    PROVE  \A c \in GetConfigs(table) : c \in Config
<1>0. ModelRunSpacing \in Nat /\ FixedInterval \in [FixedTasks -> Nat \ {0}] /\ NoTime \in Nat
  BY IntervalAssumption DEF NoTime
<1>1. ASSUME NEW m \in RunnableModels(table)
      PROVE  ModelConfig(table, m) \in Config
  <2>1. m \in Models /\ table[m] \in Capability \cup {None}
    BY DEF RunnableModels, Table
  <2> DEFINE delay == Index(table, m) * ModelRunSpacing
             every == ModelInterval(m)
  <2>2. delay \in Nat
    BY <1>0, <2>1, IndexFacts
  <2>3. every \in Nat
    BY <2>1, IntervalTyped
  <2> HIDE DEF delay, every
  <2>4. ModelConfig(table, m)
          = [task |-> m, capability |-> table[m], requestedAt |-> NoTime, every |-> every, delay |-> delay]
    BY DEF ModelConfig, RequestedAt, every, delay
  <2> QED
    BY <1>0, <2>1, <2>2, <2>3, <2>4 DEF Config, Task
<1>2. ASSUME NEW t \in FixedTasks
      PROVE  [task |-> t, capability |-> None, requestedAt |-> NoTime,
              every |-> FixedInterval[t], delay |-> 0] \in Config
  <2>1. FixedInterval[t] \in Nat
    BY <1>0
  <2> QED
    BY <1>0, <2>1 DEF Config, Task
<1> QED
  BY <1>1, <1>2 DEF GetConfigs, FixedConfigs

(* A task has one schedule, and a model's delay is its own. *)
LEMMA ConfigsApart ==
    ASSUME NEW table \in Table, NEW c \in GetConfigs(table), NEW d \in GetConfigs(table), c # d
    PROVE  /\ c.task # d.task
           /\ {c.task, d.task} \subseteq Models /\ ModelRunSpacing > 0 => c.delay # d.delay
<1>0. Models \cap FixedTasks = {}
  BY ListAssumption
<1>1. /\ \A x \in FixedConfigs : x.task \in FixedTasks
      /\ \A x, y \in FixedConfigs : x.task = y.task => x = y
  BY DEF FixedConfigs
<1>2. \A m \in RunnableModels(table) :
         ModelConfig(table, m).task = m /\ ModelConfig(table, m).delay = Index(table, m) * ModelRunSpacing
  BY DEF ModelConfig
<1>3. RunnableModels(table) \subseteq Models
  BY DEF RunnableModels
<1>4. CASE c \in FixedConfigs \/ d \in FixedConfigs
  BY <1>0, <1>1, <1>2, <1>3, <1>4 DEF GetConfigs
<1>5. CASE c \notin FixedConfigs /\ d \notin FixedConfigs
  <2>1. PICK m \in RunnableModels(table), n \in RunnableModels(table) :
           c = ModelConfig(table, m) /\ d = ModelConfig(table, n)
    BY <1>5 DEF GetConfigs
  <2>2. m # n
    BY <2>1
  <2>3. Index(table, m) \in Nat /\ Index(table, n) \in Nat /\ Index(table, m) # Index(table, n)
    BY <1>3, <2>2, BeforeFacts, IndexFacts
  <2>4. ModelRunSpacing > 0 => Index(table, m) * ModelRunSpacing # Index(table, n) * ModelRunSpacing
    <3>1. ModelRunSpacing \in Nat
      BY IntervalAssumption
    <3>2. \A i, j, s \in Nat : s > 0 /\ i # j => i * s # j * s
      OBVIOUS
    <3> QED
      BY <2>3, <3>1, <3>2
  <2> QED
    BY <1>2, <2>1, <2>2, <2>4
<1> QED
  BY <1>4, <1>5

-----------------------------------------------------------------------------
(* The state *)

LEMMA RegisteredTyped ==
    ASSUME TypeOK
    PROVE  LET new == Registered(GetConfigs(capability))
           IN  /\ DOMAIN new = GetConfigs(capability)
               /\ \A c \in DOMAIN new : c \in Config /\ new[c] \in 0 .. c.every
<1>1. capability \in Table
  BY DEF TypeOK, Table
<1>2. \A c \in GetConfigs(capability) : c \in Config
  BY <1>1, ConfigsTyped
<1>3. \A c \in Config : c.every \in 0 .. c.every
  BY DEF Config
<1> QED
  BY <1>2, <1>3 DEF Registered, TypeOK

(* The schedules of a table depend on nothing else. *)
LEMMA ConfigsPrimed == GetConfigs(synced)' = GetConfigs(synced')
BY DEF GetConfigs, FixedConfigs, ModelConfig, RunnableModels, Index, RequestedAt, Before

LEMMA NextTyped ==
    ASSUME TypeOK, RegisteredOK, [Next]_vars
    PROVE  TypeOK' /\ RegisteredOK'
<1>0. SyncInterval \in Nat \ {0}
  BY IntervalAssumption
<1>1. ASSUME NEW new \in [Models -> Capability \cup {None}], CommitModels(new)
      PROVE  TypeOK' /\ RegisteredOK'
  BY <1>1, ConfigsPrimed DEF CommitModels, TypeOK, RegisteredOK
<1>2. CASE Tick
  <2>1. /\ UNCHANGED <<capability, up, synced>> /\ up /\ DOMAIN left' = DOMAIN left
        /\ untilSync' = untilSync - 1 /\ untilSync > 0
    BY <1>2 DEF Tick
  <2>2. untilSync' \in 0 .. SyncInterval
    BY <1>0, <2>1 DEF TypeOK
  <2>3. ASSUME NEW c \in DOMAIN left' PROVE c \in Config /\ left'[c] \in 0 .. c.every
    <3>1. c \in DOMAIN left /\ c \in Config /\ left[c] \in 0 .. c.every
      BY <2>1, <2>3 DEF TypeOK
    <3>2. left'[c] = left[c] - 1 /\ left[c] > 0
      BY <1>2, <3>1 DEF Tick
    <3>3. c.every \in Nat
      BY <3>1 DEF Config
    <3> QED
      BY <3>1, <3>2, <3>3
  <2> QED
    BY <2>1, <2>2, <2>3, ConfigsPrimed DEF TypeOK, RegisteredOK
<1>3. ASSUME Start \/ Sync(TRUE)
      PROVE  TypeOK' /\ RegisteredOK'
  <2>1. /\ up' = TRUE /\ untilSync' = SyncInterval
        /\ left' = Registered(GetConfigs(capability)) /\ synced' = capability /\ UNCHANGED capability
    BY <1>3 DEF Start, Sync, TypeOK
  <2>2. /\ DOMAIN left' = GetConfigs(capability)
        /\ \A c \in DOMAIN left' : c \in Config /\ left'[c] \in 0 .. c.every
    BY <2>1, RegisteredTyped
  <2> QED
    BY <1>0, <2>1, <2>2, ConfigsPrimed DEF TypeOK, RegisteredOK
<1>4. CASE Sync(FALSE)
  BY <1>0, <1>4, ConfigsPrimed DEF Sync, TypeOK, RegisteredOK
<1>5. ASSUME NEW t \in Task, Enqueue(t)
      PROVE  TypeOK' /\ RegisteredOK'
  <2>1. PICK c \in DOMAIN left : left' = [left EXCEPT ![c] = c.every]
    BY <1>5 DEF Enqueue
  <2>2. c.every \in 0 .. c.every
    BY DEF TypeOK, Config
  <2>3. DOMAIN left' = DOMAIN left /\ \A d \in DOMAIN left : d \in Config /\ left'[d] \in 0 .. d.every
    BY <2>1, <2>2 DEF TypeOK
  <2> QED
    BY <1>5, <2>3, ConfigsPrimed DEF Enqueue, TypeOK, RegisteredOK
<1>6. CASE Stop
  <2>1. DOMAIN left' = {}
    BY <1>6 DEF Stop, NoEntries
  <2>2. ~up' /\ up' \in BOOLEAN /\ untilSync' = SyncInterval /\ UNCHANGED <<capability, synced>>
    BY <1>6 DEF Stop
  <2>3. left' = NoEntries
    BY <1>6 DEF Stop
  <2>4. TypeOK'
    BY <1>0, <2>1, <2>2 DEF TypeOK
  <2>5. RegisteredOK'
    BY <2>2, <2>3 DEF RegisteredOK, NoEntries
  <2> QED
    BY <2>4, <2>5
<1>7. CASE UNCHANGED vars
  BY <1>7, ConfigsPrimed DEF vars, TypeOK, RegisteredOK, NoEntries
<1> QED
  BY <1>1, <1>2, <1>3, <1>4, <1>5, <1>6, <1>7 DEF Next

LEMMA InitTyped == Init => TypeOK /\ RegisteredOK
<1>1. SyncInterval \in 0 .. SyncInterval
  BY IntervalAssumption
<1>2. DOMAIN NoEntries = {}
  BY DEF NoEntries
<1> QED
  BY <1>1, <1>2 DEF Init, TypeOK, RegisteredOK

(* The variables keep their types, and no entry waits longer than its      *)
(* interval.                                                               *)
THEOREM TypeCorrect == Spec => []TypeOK
BY InitTyped, NextTyped, PTL DEF Spec

(* Through every change of the models and every sync, a task has one entry *)
(* at most and no two models the same delay: GetConfigs gives each model   *)
(* its place in the list, and a sync replaces what changed.                *)
THEOREM EntriesAreApartAlways == Spec => []EntriesAreApart
<1>1. ASSUME TypeOK, RegisteredOK
      PROVE  EntriesAreApart
  <2>1. CASE up
    <3>1. synced \in Table /\ DOMAIN left = GetConfigs(synced)
      BY <1>1, <2>1 DEF TypeOK, RegisteredOK, Table
    <3> QED
      BY <3>1, ConfigsApart DEF EntriesAreApart
  <2>2. CASE ~up
    BY <1>1, <2>2 DEF RegisteredOK, NoEntries, EntriesAreApart
  <2> QED
    BY <2>1, <2>2
<1> QED
  BY <1>1, InitTyped, NextTyped, PTL DEF Spec

-----------------------------------------------------------------------------
(* Next runs *)

(* The schedule of a model that has not moved is the same as at the last   *)
(* sync.                                                                   *)
LEMMA SteadyConfig ==
    ASSUME TypeOK, NEW t \in Task, t \in FixedTasks \/ Unmoved(t),
           NEW c \in GetConfigs(synced), c.task = t
    PROVE  c \in GetConfigs(capability)
<1>1. CASE c \in FixedConfigs
  BY <1>1 DEF GetConfigs
<1>2. CASE c \notin FixedConfigs
  <2>1. PICK m \in RunnableModels(synced) : c = ModelConfig(synced, m)
    BY <1>2 DEF GetConfigs
  <2>2. m = t /\ m \in Models /\ m \notin FixedTasks
    BY <2>1, ListAssumption DEF ModelConfig, RunnableModels
  <2>3. capability[m] = synced[m] /\ \A q \in Models : Before(q, m) => capability[q] = synced[q]
    BY <2>2 DEF Unmoved
  <2>4. {q \in RunnableModels(capability) : Before(q, m)} = {q \in RunnableModels(synced) : Before(q, m)}
    BY <2>3 DEF RunnableModels
  <2>5. ModelConfig(capability, m) = c
    BY <2>1, <2>3, <2>4 DEF ModelConfig, Index, RequestedAt
  <2>6. m \in RunnableModels(capability)
    BY <2>1, <2>3 DEF RunnableModels
  <2> QED
    BY <2>5, <2>6 DEF GetConfigs
<1> QED
  BY <1>1, <1>2

(* An entry's next run. *)
LEMMA NextCheckOf ==
    ASSUME NEW t, NEW c, EntriesOf(t) = {c}, left[c] + c.delay \in Int
    PROVE  NextCheck(t) = left[c] + c.delay
<1>1. {left[d] + d.delay : d \in EntriesOf(t)} = {left[c] + c.delay}
  OBVIOUS
<1> QED
  BY <1>1 DEF NextCheck, Min

(* While the scheduler runs, syncs put off neither the run of a fixed task *)
(* nor that of a model whose predecessors in the list stay: its entry is   *)
(* still listed, and asynq's manager keeps it.                             *)
THEOREM NextRunsComeNearerAlways == Spec => NextRunsComeNearer
<1> DEFINE Nearer(t) ==
              /\ EntriesOf(t)' # {}
              /\ \/ NextCheck(t)' \in {NextCheck(t), NextCheck(t) - 1}
                 \/ \E c \in EntriesOf(t) :
                       left[c] = 0 /\ NextCheck(t)' = NextCheck(t) + c.every
           Steady(t) == up /\ up' /\ (t \in FixedTasks \/ Unmoved(t)) /\ EntriesOf(t) # {}
           ComeNearer == \A t \in Task : Steady(t) => Nearer(t)
<1>1. ASSUME TypeOK, RegisteredOK, TypeOK', RegisteredOK', Next, NEW t \in Task, Steady(t)
      PROVE  Nearer(t)
  <2> USE <1>1
  <2>1. PICK c \in EntriesOf(t) : TRUE
    OBVIOUS
  <2>2. /\ c \in DOMAIN left /\ c.task = t /\ c \in Config /\ DOMAIN left = GetConfigs(synced)
        /\ left[c] \in 0 .. c.every
    BY <2>1 DEF EntriesOf, RegisteredOK, TypeOK
  <2>3. c.every \in Nat /\ c.delay \in Nat /\ left[c] \in Nat
    BY <2>2 DEF Config
  <2>4. EntriesOf(t) = {c}
    <3>1. synced \in Table
      BY DEF TypeOK, Table
    <3> QED
      BY <2>2, <3>1, ConfigsApart DEF EntriesOf
  <2>5. NextCheck(t) = left[c] + c.delay
    BY <2>3, <2>4, NextCheckOf
  <2> DEFINE Kept(n) == c \in DOMAIN left' /\ left'[c] = n
  <2>6. ASSUME NEW n \in Int, Kept(n)
        PROVE  EntriesOf(t)' # {} /\ NextCheck(t)' = n + c.delay
    <3>1. synced' \in Table /\ DOMAIN left' = GetConfigs(synced')
      BY ConfigsPrimed DEF TypeOK, Table, RegisteredOK
    <3>2. EntriesOf(t)' = {c}
      BY <2>2, <2>6, <3>1, ConfigsApart DEF EntriesOf
    <3>3. {left'[d] + d.delay : d \in EntriesOf(t)'} = {n + c.delay}
      BY <2>6, <3>2
    <3>4. n + c.delay \in Int
      BY <2>3
    <3>5. NextCheck(t)' = Min({n + c.delay})
      BY <3>3 DEF NextCheck
    <3> QED
      BY <3>2, <3>4, <3>5 DEF Min
  <2>7. CASE \E new \in [Models -> Capability \cup {None}] : CommitModels(new)
    <3>1. Kept(left[c])
      BY <2>2, <2>7 DEF CommitModels
    <3> QED
      BY <2>3, <2>5, <2>6, <3>1
  <2>8. CASE Tick
    <3>1. Kept(left[c] - 1)
      BY <2>2, <2>8 DEF Tick
    <3>2. NextCheck(t)' = NextCheck(t) - 1
      BY <2>3, <2>5, <2>6, <3>1
    <3> QED
      BY <2>3, <2>6, <3>1, <3>2
  <2>9. CASE Sync(TRUE)
    <3>1. c \in GetConfigs(capability)
      BY <2>2, SteadyConfig
    <3>2. left' = Registered(GetConfigs(capability))
      BY <2>9 DEF Sync
    <3>3. Kept(left[c])
      BY <2>2, <3>1, <3>2 DEF Registered
    <3> QED
      BY <2>3, <2>5, <2>6, <3>3
  <2>10. CASE Sync(FALSE)
    <3>1. Kept(left[c])
      BY <2>2, <2>10 DEF Sync
    <3> QED
      BY <2>3, <2>5, <2>6, <3>1
  <2>11. ASSUME NEW u \in Task, Enqueue(u)
         PROVE  Nearer(t)
    <3>1. PICK d \in DOMAIN left : left[d] = 0 /\ left' = [left EXCEPT ![d] = d.every]
      BY <2>11 DEF Enqueue
    <3>2. CASE d = c
      <4>1. Kept(c.every)
        BY <2>2, <3>1, <3>2
      <4>2. NextCheck(t)' = NextCheck(t) + c.every
        BY <2>3, <2>5, <2>6, <3>1, <3>2, <4>1
      <4> QED
        BY <2>1, <2>3, <2>6, <3>1, <3>2, <4>1, <4>2
    <3>3. CASE d # c
      <4>1. Kept(left[c])
        BY <2>2, <3>1, <3>3
      <4> QED
        BY <2>3, <2>5, <2>6, <4>1
    <3> QED
      BY <3>2, <3>3
  <2> QED
    BY <2>7, <2>8, <2>9, <2>10, <2>11 DEF Next, Start, Stop
<1>2. TypeOK /\ RegisteredOK /\ [Next]_vars => [ComeNearer]_vars
  <2> SUFFICES ASSUME TypeOK, RegisteredOK, [Next]_vars
               PROVE  [ComeNearer]_vars
    OBVIOUS
  <2>1. TypeOK' /\ RegisteredOK'
    BY NextTyped
  <2> HIDE DEF Nearer, Steady
  <2>2. CASE Next
    BY <1>1, <2>1, <2>2
  <2> QED
    BY <2>2
<1> QED
  BY <1>2, InitTyped, NextTyped, PTL DEF Spec, NextRunsComeNearer
=============================================================================
