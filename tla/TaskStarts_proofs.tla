-------------------------- MODULE TaskStarts_proofs --------------------------
(***************************************************************************)
(* Theorems about the two ways in which a task is started: on schedule, at *)
(* a reserved time (TaskSpacing, for any runs, providers, clocks and       *)
(* limits), and by hand (ManualChecks, for any spinners, jobs and polls).  *)
(***************************************************************************)
EXTENDS TaskSpacing, ManualChecks, FiniteSetTheorems, TLAPS

(* A slot is a time, and not before the run asked for it. *)
LEMMA SlotType ==
    ASSUME SpacingTypeOK, NEW r \in Runs, phase[r] = "reserving"
    PROVE  /\ Slot(r) \in Nat
           /\ Slot(r) # NULL
           /\ Slot(r) >= earliest[r]
           /\ Slot(r) >= nextAllowed[ProviderOf[r]]
           /\ ProviderOf[r] \in Providers
  BY ProviderOfAssumption DEF SpacingTypeOK, Slot, NULL, Phase

(* Every action keeps the types. *)
LEMMA TypeStep == SpacingTypeOK /\ [SpacingNext]_spacingVars => SpacingTypeOK'
  <1> SUFFICES ASSUME SpacingTypeOK, [SpacingNext]_spacingVars PROVE SpacingTypeOK'
    OBVIOUS
  <1>1. CASE Tick
    BY <1>1 DEF SpacingTypeOK, Tick
  <1>2. ASSUME NEW r \in Runs, NEW skew \in Skews, StartTask(r, skew) PROVE SpacingTypeOK'
    <2>1. clock + skew \in Nat /\ clock + skew # NULL
      BY ClockAssumption DEF SpacingTypeOK, NULL
    <2> QED
      BY <1>2, <2>1 DEF SpacingTypeOK, StartTask, Phase, NULL
  <1>3. ASSUME NEW r \in Runs, Reserve(r) PROVE SpacingTypeOK'
    <2>1. Slot(r) + Spacing \in Nat /\ Slot(r) \in Nat
      BY <1>3, SlotType, SpacingAssumption DEF Reserve
    <2>2. PICK next \in {"waiting", "failed"} : phase' = [phase EXCEPT ![r] = next]
      BY <1>3 DEF Reserve
    <2> QED
      BY <1>3, <2>1, <2>2 DEF SpacingTypeOK, Reserve, Phase
  <1>4. ASSUME NEW r \in Runs, FailToReserve(r) PROVE SpacingTypeOK'
    BY <1>4 DEF SpacingTypeOK, FailToReserve, Phase
  <1>5. ASSUME NEW r \in Runs, StartProbe(r) PROVE SpacingTypeOK'
    BY <1>5 DEF SpacingTypeOK, StartProbe, Phase
  <1>6. ASSUME NEW r \in Runs, Expire(r) PROVE SpacingTypeOK'
    BY <1>6 DEF SpacingTypeOK, Expire, Phase
  <1>7. CASE UNCHANGED spacingVars
    BY <1>7 DEF SpacingTypeOK, spacingVars
  <1> QED
    BY <1>1, <1>2, <1>3, <1>4, <1>5, <1>6, <1>7 DEF SpacingNext, Step

(* The variables of TaskSpacing always have their types. *)
THEOREM SpacingTypeCorrect == SpacingSpec => []SpacingTypeOK
  <1>1. SpacingInit => SpacingTypeOK
    BY DEF SpacingInit, SpacingTypeOK, Phase, NULL
  <1> QED
    BY <1>1, TypeStep, PTL DEF SpacingSpec

-----------------------------------------------------------------------------
(* Only a reservation hands out a slot or moves the row of a key. *)
LEMMA SlotSteps ==
    ASSUME SpacingTypeOK, [SpacingNext]_spacingVars
    PROVE  \/ \E r \in Runs : Reserve(r)
           \/ /\ UNCHANGED <<nextAllowed, reservedAt>>
              /\ \A q \in Runs : phase'[q] \in {"queued", "reserving"}
                                    => phase[q] \in {"queued", "reserving"}
              /\ \A q \in Runs : HasSlot(q) => earliest'[q] = earliest[q] \/ phase[q] = "queued"
  BY DEF SpacingTypeOK, SpacingNext, Step, spacingVars, Tick, StartTask, FailToReserve, StartProbe, Expire,
         Phase, HasSlot

(* A reservation gives one run, which had none, a slot past all the slots  *)
(* of its provider, and moves the row one spacing past it.                 *)
LEMMA ReserveStep ==
    ASSUME SpacingTypeOK, SpacingInv, NEW r \in Runs, Reserve(r)
    PROVE  /\ ~HasSlot(r)
           /\ Slot(r) \in Nat /\ Slot(r) # NULL
           /\ ProviderOf[r] \in Providers
           /\ reservedAt' = [reservedAt EXCEPT ![r] = Slot(r)]
           /\ nextAllowed' = [nextAllowed EXCEPT ![ProviderOf[r]] = Slot(r) + Spacing]
           /\ UNCHANGED earliest
           /\ \A q \in Runs : (HasSlot(q) /\ ProviderOf[q] = ProviderOf[r])
                                 => reservedAt[q] + Spacing <= Slot(r)
           /\ \A q \in Runs : phase'[q] \in {"queued", "reserving"}
                                 => q # r /\ phase[q] \in {"queued", "reserving"}
  <1>1. phase[r] = "reserving" /\ UNCHANGED earliest
    BY DEF Reserve
  <1>2. /\ Slot(r) \in Nat /\ Slot(r) # NULL /\ Slot(r) >= nextAllowed[ProviderOf[r]]
        /\ ProviderOf[r] \in Providers
    BY <1>1, SlotType
  <1>3. ~HasSlot(r)
    BY <1>1 DEF SpacingInv, NoSlotYet
  <1>4. /\ reservedAt' = [reservedAt EXCEPT ![r] = Slot(r)]
        /\ nextAllowed' = [nextAllowed EXCEPT ![ProviderOf[r]] = Slot(r) + Spacing]
    BY DEF Reserve
  <1>5. ASSUME NEW q \in Runs, HasSlot(q), ProviderOf[q] = ProviderOf[r]
        PROVE  reservedAt[q] + Spacing <= Slot(r)
    <2>1. reservedAt[q] + Spacing <= nextAllowed[ProviderOf[r]]
      BY <1>5 DEF SpacingInv, NextAllowedIsAhead
    <2> QED
      BY <2>1, <1>2, SpacingAssumption DEF SpacingTypeOK
  <1>6. ASSUME NEW q \in Runs, phase'[q] \in {"queued", "reserving"}
        PROVE  q # r /\ phase[q] \in {"queued", "reserving"}
    <2>1. PICK next \in {"waiting", "failed"} : phase' = [phase EXCEPT ![r] = next]
      BY DEF Reserve
    <2> QED
      BY <1>6, <2>1 DEF SpacingTypeOK
  <1> QED
    BY <1>1, <1>2, <1>3, <1>4, <1>5, <1>6

(* The inductive step of the spacing invariant. *)
LEMMA SpacingStep == SpacingTypeOK /\ SpacingInv /\ [SpacingNext]_spacingVars => SpacingInv'
  <1> SUFFICES ASSUME SpacingTypeOK, SpacingInv, [SpacingNext]_spacingVars PROVE SpacingInv'
    OBVIOUS
  <1>1. ASSUME NEW r \in Runs, Reserve(r) PROVE SpacingInv'
    <2> DEFINE s == Slot(r)
               p == ProviderOf[r]
    <2>1. /\ ~HasSlot(r) /\ s \in Nat /\ s # NULL /\ p \in Providers
          /\ reservedAt' = [reservedAt EXCEPT ![r] = s]
          /\ nextAllowed' = [nextAllowed EXCEPT ![p] = s + Spacing]
          /\ UNCHANGED earliest
          /\ \A q \in Runs : (HasSlot(q) /\ ProviderOf[q] = p) => reservedAt[q] + Spacing <= s
          /\ \A q \in Runs : phase'[q] \in {"queued", "reserving"}
                                => q # r /\ phase[q] \in {"queued", "reserving"}
      BY <1>1, ReserveStep
    <2>2. s = earliest[r] \/ (s = nextAllowed[p] /\ nextAllowed[p] # NULL)
      BY ProviderOfAssumption DEF Slot, SpacingTypeOK, NULL
    <2> HIDE DEF s, p
    <2>3. \A q \in Runs : ProviderOf[q] \in Providers /\ (q = r => ProviderOf[q] = p)
      BY ProviderOfAssumption DEF p
    <2>4. \A q \in Runs : /\ q # r => reservedAt'[q] = reservedAt[q] /\ (HasSlot(q)' <=> HasSlot(q))
                          /\ q = r => reservedAt'[q] = s /\ HasSlot(q)'
      BY <2>1 DEF SpacingTypeOK, HasSlot
    <2>5. NoSlotYet'
      BY <2>1, <2>4 DEF SpacingInv, NoSlotYet
    <2>6. NextAllowedIsAhead'
      BY <2>1, <2>3, <2>4, SpacingAssumption
      DEF SpacingInv, NextAllowedIsAhead, SpacingTypeOK
    <2>7. NextAllowedIsEarned'
      <3> SUFFICES ASSUME NEW k \in Providers, nextAllowed'[k] # NULL
                   PROVE  \E q \in Runs : /\ ProviderOf[q] = k
                                          /\ HasSlot(q)'
                                          /\ nextAllowed'[k] = reservedAt'[q] + Spacing
        BY DEF NextAllowedIsEarned
      <3>1. CASE k = p
        BY <3>1, <2>1, <2>3, <2>4 DEF SpacingTypeOK
      <3>2. CASE k # p
        <4>1. PICK q \in Runs : /\ ProviderOf[q] = k
                                /\ HasSlot(q)
                                /\ nextAllowed[k] = reservedAt[q] + Spacing
          BY <3>2, <2>1 DEF SpacingInv, NextAllowedIsEarned, SpacingTypeOK
        <4> QED
          BY <4>1, <3>2, <2>1, <2>3, <2>4 DEF SpacingTypeOK
      <3> QED
        BY <3>1, <3>2
    <2>8. SlotsAreSpaced'
      <3> SUFFICES ASSUME NEW a \in Runs, NEW b \in Runs, a # b,
                          ProviderOf[a] = ProviderOf[b], HasSlot(a)', HasSlot(b)'
                   PROVE  \/ reservedAt'[a] + Spacing <= reservedAt'[b]
                          \/ reservedAt'[b] + Spacing <= reservedAt'[a]
        BY DEF SlotsAreSpaced
      <3>1. CASE a # r /\ b # r
        BY <3>1, <2>4 DEF SpacingInv, SlotsAreSpaced
      <3>2. CASE a = r
        BY <3>2, <2>1, <2>3, <2>4
      <3>3. CASE b = r
        BY <3>3, <2>1, <2>3, <2>4
      <3> QED
        BY <3>1, <3>2, <3>3
    <2>9. NoIdleSlot'
      <3> SUFFICES ASSUME NEW a \in Runs, HasSlot(a)', reservedAt'[a] # earliest'[a]
                   PROVE  \E b \in Runs \ {a} : /\ ProviderOf[b] = ProviderOf[a]
                                                /\ HasSlot(b)'
                                                /\ reservedAt'[a] = reservedAt'[b] + Spacing
        BY DEF NoIdleSlot
      <3>1. CASE a = r
        <4>1. PICK q \in Runs : /\ ProviderOf[q] = p
                                /\ HasSlot(q)
                                /\ s = reservedAt[q] + Spacing
          BY <3>1, <2>1, <2>2, <2>4 DEF SpacingInv, NextAllowedIsEarned
        <4> QED
          BY <4>1, <3>1, <2>1, <2>3, <2>4
      <3>2. CASE a # r
        <4>1. PICK b \in Runs \ {a} : /\ ProviderOf[b] = ProviderOf[a]
                                      /\ HasSlot(b)
                                      /\ reservedAt[a] = reservedAt[b] + Spacing
          BY <3>2, <2>1, <2>4 DEF SpacingInv, NoIdleSlot
        <4> QED
          BY <4>1, <3>2, <2>1, <2>4
      <3> QED
        BY <3>1, <3>2
    <2> QED
      BY <2>5, <2>6, <2>7, <2>8, <2>9 DEF SpacingInv
  <1>2. ASSUME UNCHANGED <<nextAllowed, reservedAt>>,
               \A q \in Runs : phase'[q] \in {"queued", "reserving"}
                                  => phase[q] \in {"queued", "reserving"},
               \A q \in Runs : HasSlot(q) => earliest'[q] = earliest[q] \/ phase[q] = "queued"
        PROVE  SpacingInv'
    <2>1. \A q \in Runs : HasSlot(q) => earliest'[q] = earliest[q]
      BY <1>2 DEF SpacingInv, NoSlotYet
    <2> QED
      BY <1>2, <2>1 DEF SpacingInv, NoSlotYet, NextAllowedIsAhead, NextAllowedIsEarned,
                        SlotsAreSpaced, NoIdleSlot, HasSlot
  <1> QED
    BY <1>1, <1>2, SlotSteps

(* The spacing invariant holds in every reachable state. *)
THEOREM SpacingInvAlways == SpacingSpec => []SpacingInv
  <1>1. SpacingInit => SpacingInv
    BY DEF SpacingInit, SpacingInv, NoSlotYet, NextAllowedIsAhead, NextAllowedIsEarned,
           SlotsAreSpaced, NoIdleSlot, HasSlot
  <1> QED
    BY <1>1, SpacingTypeCorrect, SpacingStep, PTL DEF SpacingSpec

(* Slots of one provider are always at least the spacing apart. *)
THEOREM SlotsAreSpacedAlways == SpacingSpec => []SlotsAreSpaced
  <1>1. SpacingInv => SlotsAreSpaced
    BY DEF SpacingInv
  <1> QED
    BY <1>1, SpacingInvAlways, PTL

(* A run is only ever delayed by the run in the slot before its own. *)
THEOREM NoIdleSlotAlways == SpacingSpec => []NoIdleSlot
  <1>1. SpacingInv => NoIdleSlot
    BY DEF SpacingInv
  <1> QED
    BY <1>1, SpacingInvAlways, PTL

-----------------------------------------------------------------------------
(* The queue ahead of a run *)

(* Of any time, not only that of a request. *)
QueueSince(t) ==
    \A r \in Runs :
        HasSlot(r) /\ (\A q \in UpTo(r) : earliest[q] <= t)
            => reservedAt[r] <= t + Spacing * Cardinality(AheadSince(t, r))

Holders == {r \in Runs : HasSlot(r)}

QueueInv == IsFiniteSet(Holders) /\ \A t \in Nat : QueueSince(t)

(* One more run ahead is one spacing more. *)
LEMMA OneSpacingMore ==
    ASSUME NEW m \in Nat, NEW n \in Nat, m + 1 <= n
    PROVE  Spacing * m \in Nat /\ Spacing * n \in Nat /\ Spacing * m + Spacing <= Spacing * n
  <1>1. PICK k \in Nat : n = (m + 1) + k
    BY n - (m + 1) \in Nat /\ n = (m + 1) + (n - (m + 1))
  <1>2. Spacing * n = (Spacing * m + Spacing) + Spacing * k
    BY <1>1, SpacingAssumption
  <1>3. Spacing * m \in Nat /\ Spacing * k \in Nat /\ Spacing * n \in Nat
    BY SpacingAssumption
  <1> QED
    BY <1>2, <1>3, SpacingAssumption

(* Who is ahead of a run are finitely many. *)
LEMMA AheadCount ==
    ASSUME IsFiniteSet(Holders), NEW t, NEW r \in Runs
    PROVE  IsFiniteSet(AheadSince(t, r)) /\ Cardinality(AheadSince(t, r)) \in Nat
  <1>1. AheadSince(t, r) \in SUBSET Holders
    BY DEF AheadSince, UpTo, Holders
  <1>2. IsFiniteSet(AheadSince(t, r))
    BY <1>1, FS_Subset
  <1> QED
    BY <1>2, FS_CardinalityType

(* A slot handed out behind all others changes nothing for those ahead of  *)
(* it: a run that held a slot waits for the same runs as before.           *)
LEMMA SameQueue ==
    ASSUME SpacingTypeOK, SpacingInv, NEW r \in Runs, Reserve(r), NEW a \in Runs, HasSlot(a)
    PROVE  /\ a # r /\ reservedAt'[a] = reservedAt[a]
           /\ UpTo(a)' = UpTo(a)
           /\ \A t : AheadSince(t, a)' = AheadSince(t, a)
  <1> DEFINE s == Slot(r)
  <1>1. /\ ~HasSlot(r) /\ s \in Nat /\ reservedAt' = [reservedAt EXCEPT ![r] = s]
        /\ \A q \in Runs : (HasSlot(q) /\ ProviderOf[q] = ProviderOf[r])
                              => reservedAt[q] + Spacing <= s
    BY ReserveStep
  <1> HIDE DEF s
  <1>2. \A q \in Runs : q # r => reservedAt'[q] = reservedAt[q]
    BY <1>1 DEF SpacingTypeOK
  <1>3. a # r /\ reservedAt'[a] = reservedAt[a] /\ reservedAt'[r] = s
    BY <1>1, <1>2 DEF SpacingTypeOK
  <1>4. r \notin UpTo(a) /\ r \notin UpTo(a)'
    BY <1>1, <1>3, SpacingAssumption DEF UpTo, SpacingTypeOK
  <1>5. UpTo(a)' = UpTo(a)
    BY <1>2, <1>3, <1>4 DEF UpTo, HasSlot
  <1>6. \A t : AheadSince(t, a)' = AheadSince(t, a)
    BY <1>2, <1>4, <1>5 DEF AheadSince, UpTo
  <1> QED
    BY <1>3, <1>5, <1>6

(* A new slot in the future lies one spacing past that of another run: its *)
(* queue is the queue of that run, and the run itself.                     *)
LEMMA JoinsQueue ==
    ASSUME SpacingTypeOK, SpacingInv, QueueInv, NEW r \in Runs, Reserve(r), IsFiniteSet(Holders)',
           NEW t \in Nat, \A q \in UpTo(r)' : earliest[q] <= t, Slot(r) > t
    PROVE  Slot(r) <= t + Spacing * Cardinality(AheadSince(t, r)')
  <1> DEFINE s == Slot(r)
             n == Cardinality(AheadSince(t, r)')
  <1>1. /\ ~HasSlot(r) /\ s \in Nat /\ s # NULL /\ reservedAt' = [reservedAt EXCEPT ![r] = s]
        /\ ProviderOf[r] \in Providers /\ s > t
    BY ReserveStep
  <1>2. reservedAt'[r] = s /\ \A q \in Runs : q # r => reservedAt'[q] = reservedAt[q]
    BY <1>1 DEF SpacingTypeOK
  <1>3. earliest[r] <= t
    BY <1>1, <1>2 DEF UpTo, HasSlot, SpacingTypeOK
  <1>4. s = nextAllowed[ProviderOf[r]] /\ s # NULL
    BY <1>1, <1>3 DEF Slot, SpacingTypeOK
  <1>5. PICK b \in Runs : /\ ProviderOf[b] = ProviderOf[r]
                          /\ HasSlot(b)
                          /\ s = reservedAt[b] + Spacing
    BY <1>1, <1>4 DEF SpacingInv, NextAllowedIsEarned
  <1> HIDE DEF s
  <1>6. b # r /\ reservedAt[b] \in Nat /\ reservedAt[b] < s
    BY <1>1, <1>5, SpacingAssumption DEF SpacingTypeOK
  <1>7. b \in AheadSince(t, r)' /\ b \notin AheadSince(t, b)
    <2>1. reservedAt'[b] = reservedAt[b] /\ reservedAt[b] + Spacing > t
      BY <1>1, <1>2, <1>5, <1>6
    <2>2. b \in UpTo(r)'
      BY <1>1, <1>2, <1>5, <1>6, <2>1 DEF UpTo, HasSlot, SpacingTypeOK
    <2> QED
      BY <1>6, <2>1, <2>2 DEF AheadSince
  <1>8. \A q \in UpTo(b) : q \in UpTo(r)' /\ q # r /\ reservedAt'[q] = reservedAt[q]
    BY <1>1, <1>2, <1>5, <1>6 DEF UpTo, HasSlot, SpacingTypeOK
  <1>9. IsFiniteSet(AheadSince(t, r)') /\ n \in Nat
    <2>1. AheadSince(t, r)' \in SUBSET (Holders')
      BY DEF AheadSince, UpTo, Holders
    <2>2. IsFiniteSet(AheadSince(t, r)')
      BY <2>1, FS_Subset
    <2> QED
      BY <2>2, FS_CardinalityType
  <1>10. Cardinality(AheadSince(t, b)) \in Nat /\ Cardinality(AheadSince(t, b)) + 1 <= n
    <2>1. AheadSince(t, b) \cup {b} \in SUBSET (AheadSince(t, r)')
      BY <1>7, <1>8 DEF AheadSince
    <2>2. IsFiniteSet(AheadSince(t, b)) /\ Cardinality(AheadSince(t, b)) \in Nat
      BY AheadCount DEF QueueInv
    <2>3. Cardinality(AheadSince(t, b) \cup {b}) = Cardinality(AheadSince(t, b)) + 1
      BY <1>7, <2>2, FS_AddElement
    <2> QED
      BY <1>9, <2>1, <2>2, <2>3, FS_Subset
  <1>11. reservedAt[b] <= t + Spacing * Cardinality(AheadSince(t, b))
    <2>1. \A q \in UpTo(b) : earliest[q] <= t
      BY <1>8
    <2> QED
      BY <1>5, <2>1 DEF QueueInv, QueueSince
  <1>12. Spacing * Cardinality(AheadSince(t, b)) + Spacing <= Spacing * n
         /\ Spacing * Cardinality(AheadSince(t, b)) \in Nat /\ Spacing * n \in Nat
    BY <1>9, <1>10, OneSpacingMore
  <1> HIDE DEF n
  <1>13. s <= t + Spacing * n
    BY <1>5, <1>6, <1>11, <1>12, SpacingAssumption
  <1> QED
    BY <1>13 DEF s, n

(* The inductive step. *)
LEMMA QueueStep ==
    SpacingTypeOK /\ SpacingInv /\ QueueInv /\ [SpacingNext]_spacingVars => QueueInv'
  <1> SUFFICES ASSUME SpacingTypeOK, SpacingInv, QueueInv, [SpacingNext]_spacingVars PROVE QueueInv'
    OBVIOUS
  <1>1. ASSUME NEW r \in Runs, Reserve(r) PROVE QueueInv'
    <2>1. /\ Slot(r) \in Nat /\ Slot(r) # NULL /\ UNCHANGED earliest
          /\ reservedAt' = [reservedAt EXCEPT ![r] = Slot(r)]
      BY <1>1, ReserveStep
    <2>2. IsFiniteSet(Holders)'
      <3>1. Holders' = Holders \cup {r}
        BY <2>1 DEF Holders, HasSlot, SpacingTypeOK
      <3> QED
        BY <3>1, FS_AddElement DEF QueueInv
    <2>3. ASSUME NEW t \in Nat, NEW a \in Runs, HasSlot(a)', \A q \in UpTo(a)' : earliest[q] <= t
          PROVE  reservedAt'[a] <= t + Spacing * Cardinality(AheadSince(t, a)')
      <3>1. CASE HasSlot(a)
        BY <1>1, <2>3, <3>1, SameQueue DEF QueueInv, QueueSince
      <3>2. CASE ~HasSlot(a)
        <4>1. a = r /\ reservedAt'[a] = Slot(r)
          BY <2>1, <2>3, <3>2 DEF HasSlot, SpacingTypeOK
        <4>2. CASE Slot(r) > t
          BY <1>1, <2>2, <2>3, <4>1, <4>2, JoinsQueue
        <4>3. CASE Slot(r) <= t
          <5>1. AheadSince(t, r)' = {}
            BY <2>1, <4>1, <4>3, <1>1, ReserveStep, SpacingAssumption
            DEF AheadSince, UpTo, HasSlot, SpacingTypeOK
          <5>2. Spacing * Cardinality(AheadSince(t, r)') = 0
            BY <5>1, FS_EmptySet, SpacingAssumption
          <5> QED
            BY <2>1, <4>1, <4>3, <5>2
        <4> QED
          BY <2>1, <4>2, <4>3
      <3> QED
        BY <3>1, <3>2
    <2> QED
      BY <2>1, <2>2, <2>3 DEF QueueInv, QueueSince
  <1>2. ASSUME UNCHANGED <<nextAllowed, reservedAt>>,
               \A q \in Runs : HasSlot(q) => earliest'[q] = earliest[q] \/ phase[q] = "queued"
        PROVE  QueueInv'
    <2>1. \A q \in Runs : HasSlot(q) => earliest'[q] = earliest[q]
      BY <1>2 DEF SpacingInv, NoSlotYet
    <2>2. /\ Holders' = Holders
          /\ \A q \in Runs : HasSlot(q)' = HasSlot(q)
          /\ \A q \in Runs : UpTo(q)' = UpTo(q)
          /\ \A t, q : AheadSince(t, q)' = AheadSince(t, q)
      BY <1>2 DEF Holders, HasSlot, UpTo, AheadSince
    <2>3. \A q, r \in Runs : q \in UpTo(r) => earliest'[q] = earliest[q]
      BY <2>1 DEF UpTo
    <2> QED
      BY <1>2, <2>2, <2>3 DEF QueueInv, QueueSince, UpTo
  <1> QED
    BY <1>1, <1>2, SlotSteps

(* A run is kept waiting by those who hold the slots ahead of it, one      *)
(* spacing each, counted from the time of the last of their requests.      *)
THEOREM DelayIsQueueAlways == SpacingSpec => []DelayIsQueue
  <1>1. SpacingInit => QueueInv
    <2> SUFFICES ASSUME SpacingInit PROVE QueueInv
      OBVIOUS
    <2>1. \A r \in Runs : ~HasSlot(r)
      BY DEF SpacingInit, HasSlot
    <2>2. Holders = {}
      BY <2>1 DEF Holders
    <2> QED
      BY <2>1, <2>2, FS_EmptySet DEF QueueInv, QueueSince
  <1>2. SpacingTypeOK /\ QueueInv => DelayIsQueue
    BY DEF SpacingTypeOK, QueueInv, QueueSince, DelayIsQueue
  <1> QED
    BY <1>1, <1>2, QueueStep, SpacingTypeCorrect, SpacingInvAlways, PTL DEF SpacingSpec

-----------------------------------------------------------------------------
(* A reservation grants one slot of the abstract specification, and every  *)
(* other step leaves its slots alone.                                      *)
LEMMA PromiseStep ==
    SpacingTypeOK /\ SpacingInv /\ [SpacingNext]_spacingVars => [Promise!Next]_([p \in Providers |-> SlotsOf(p)])
  <1> SUFFICES ASSUME SpacingTypeOK, SpacingInv, [SpacingNext]_spacingVars
               PROVE  Promise!Next \/ UNCHANGED [p \in Providers |-> SlotsOf(p)]
    OBVIOUS
  <1>1. ASSUME NEW r \in Runs, Reserve(r) PROVE Promise!Next
    <2> DEFINE s == Slot(r)
               k == ProviderOf[r]
    <2>1. /\ ~HasSlot(r) /\ s \in Nat /\ s # NULL /\ k \in Providers
          /\ reservedAt' = [reservedAt EXCEPT ![r] = s]
          /\ \A q \in Runs : (HasSlot(q) /\ ProviderOf[q] = k) => reservedAt[q] + Spacing <= s
      BY <1>1, ReserveStep
    <2> HIDE DEF s
    <2>2. \A q \in Runs : /\ q # r => reservedAt'[q] = reservedAt[q] /\ (HasSlot(q)' <=> HasSlot(q))
                          /\ q = r => reservedAt'[q] = s /\ HasSlot(q)'
      BY <2>1 DEF SpacingTypeOK, HasSlot
    <2>3. SlotsOf(k)' = SlotsOf(k) \cup {s}
      BY <2>1, <2>2 DEF SlotsOf
    <2>4. \A p \in Providers : p # k => SlotsOf(p)' = SlotsOf(p)
      BY <2>2 DEF SlotsOf
    <2>5. \A t \in SlotsOf(k) : t + Spacing <= s
      BY <2>1 DEF SlotsOf
    <2> DEFINE mapped == [p \in Providers |-> SlotsOf(p)]
    <2>6. mapped' = [mapped EXCEPT ![k] = @ \cup {s}]
      BY <2>1, <2>3, <2>4
    <2>7. s \in mapped'[k] /\ \A t \in mapped[k] : t + Spacing <= s
      BY <2>1, <2>3, <2>5
    <2>8. Promise!Grant(k)
      BY <2>6, <2>7 DEF Promise!Grant
    <2> QED
      BY <2>1, <2>8 DEF Promise!Next
  <1>2. CASE UNCHANGED <<nextAllowed, reservedAt>>
    BY <1>2 DEF SlotsOf, HasSlot
  <1> QED
    BY <1>1, <1>2, SlotSteps

(* The table of start times implements the slots it promises: they are     *)
(* handed out in order, spaced, and never taken back.                      *)
THEOREM SpacingRefines == SpacingSpec => ImplementsSpacedSlots
  <1>1. SpacingInit => Promise!Init
    BY DEF SpacingInit, Promise!Init, SlotsOf, HasSlot
  <1> QED
    BY <1>1, PromiseStep, SpacingTypeCorrect, SpacingInvAlways, PTL
    DEF SpacingSpec, ImplementsSpacedSlots, Promise!Spec

-----------------------------------------------------------------------------
(* Manual checks *)

LEMMA NoPollTyped ==
    /\ NoPoll \in Poll
    /\ NoPoll.stage = "idle" /\ NoPoll.ids = {} /\ NoPoll.doomed = {} /\ NoPoll.done = {}
    /\ \A j \in Jobs : NoPoll.state[j] = Unanswered
  BY DEF NoPoll, Poll, Answer, Unanswered

(* One poll changes at a time. *)
LEMMA OnePollChanges ==
    ASSUME TypeOK, NEW q \in Polls, NEW new \in Poll, poll' = [poll EXCEPT ![q] = new]
    PROVE  /\ poll' \in [Polls -> Poll]
           /\ poll'[q] = new
           /\ \A p \in Polls \ {q} : poll'[p] = poll[p]
  BY DEF TypeOK

(* A poll ends: it is idle again, and another one is due if groups are left. *)
LEMMA PollEnds ==
    ASSUME TypeOK, NEW q \in Polls, EndPoll(q)
    PROVE  /\ poll' \in [Polls -> Poll]
           /\ poll'[q] = NoPoll
           /\ \A p \in Polls \ {q} : poll'[p] = poll[p]
           /\ timer' \in BOOLEAN
           /\ tracked # {} => timer'
  <1>1. poll' = [poll EXCEPT ![q] = NoPoll]
    BY DEF EndPoll
  <1>2. timer' = (timer \/ tracked # {})
    BY DEF EndPoll, TimerAfterPoll
  <1> QED
    BY <1>1, <1>2, NoPollTyped, OnePollChanges

(* The timer fires. *)
LEMMA StartPollEffect ==
    ASSUME TypeOK, NEW q \in Polls, StartPoll(q)
    PROVE  /\ poll' \in [Polls -> Poll]
           /\ \A p \in Polls : /\ poll'[p].state = poll[p].state
                               /\ poll'[p].doomed = poll[p].doomed
                               /\ poll'[p].done = poll[p].done
           /\ \A p \in Polls \ {q} : poll'[p] = poll[p]
           /\ poll'[q].ids \in {poll[q].ids, JobIDs}
           /\ JobIDs # {} => poll'[q].stage = "asked"
  <1>1. CASE JobIDs = {}
    BY <1>1 DEF StartPoll, TypeOK
  <1>2. CASE JobIDs # {}
    <2> DEFINE new == [poll[q] EXCEPT !.stage = "asked", !.ids = JobIDs]
    <2>1. JobIDs \subseteq Jobs
      BY DEF JobIDs, TypeOK
    <2>2. /\ new \in Poll /\ new.stage = "asked" /\ new.state = poll[q].state
          /\ new.doomed = poll[q].doomed /\ new.done = poll[q].done /\ new.ids = JobIDs
      BY <2>1 DEF TypeOK, Poll
    <2>3. poll' = [poll EXCEPT ![q] = new]
      BY <1>2 DEF StartPoll, TypeOK
    <2> HIDE DEF new
    <2> QED
      BY <2>2, <2>3, OnePollChanges
  <1> QED
    BY <1>1, <1>2

(* What InspectJobs does to the poll q when it comes to the job j: it finds *)
(* it expired, or notes its state.                                         *)
LEMMA InspectEffect ==
    ASSUME TypeOK, AnswersOK, NEW q \in Polls, NEW j \in Jobs, Inspect(q, j)
    PROVE  /\ poll' \in [Polls -> Poll]
           /\ \A p \in Polls \ {q} : poll'[p] = poll[p]
           /\ poll'[q].stage = "asked" /\ poll'[q].done = poll[q].done
           /\ poll'[q].ids = poll[q].ids
           /\ \/ /\ poll'[q].state = poll[q].state /\ poll'[q].doomed = {j}
                 /\ job[j] = "overdue"
              \/ /\ poll'[q].state = [poll[q].state EXCEPT ![j] = StateOf(j)]
                 /\ poll'[q].doomed = poll[q].doomed
  <1>1. poll[q].stage = "asked" /\ poll[q] \in Poll
    BY DEF Inspect, TypeOK
  <1>2. CASE job[j] = "overdue"
    <2> DEFINE new == [poll[q] EXCEPT !.doomed = {j}]
    <2>1. /\ new \in Poll /\ new.stage = "asked" /\ new.state = poll[q].state
          /\ new.doomed = {j} /\ new.done = poll[q].done /\ new.ids = poll[q].ids
      BY <1>1 DEF Poll
    <2>2. poll' = [poll EXCEPT ![q] = new]
      BY <1>2 DEF Inspect, ExpiredPendingJob, TypeOK
    <2> HIDE DEF new
    <2> QED
      BY <1>2, <2>1, <2>2, OnePollChanges
  <1>3. CASE job[j] # "overdue"
    <2> DEFINE new == [poll[q] EXCEPT !.state = [@ EXCEPT ![j] = StateOf(j)]]
    <2>1. StateOf(j) \in Answer
      <3>1. job[j] \in JobState \ {"none"}
        BY DEF TypeOK, Inspect, AnswersOK, TrueAnswer
      <3> QED
        BY <3>1 DEF StateOf, JobState, Answer
    <2>2. /\ new \in Poll /\ new.stage = "asked" /\ new.doomed = poll[q].doomed
          /\ new.state = [poll[q].state EXCEPT ![j] = StateOf(j)]
          /\ new.done = poll[q].done /\ new.ids = poll[q].ids
      BY <1>1, <2>1 DEF Poll
    <2>3. poll' = [poll EXCEPT ![q] = new]
      BY <1>3 DEF Inspect, ExpiredPendingJob, TypeOK
    <2> HIDE DEF new
    <2> QED
      BY <2>2, <2>3, OnePollChanges
  <1> QED
    BY <1>2, <1>3

(* The delete of an expired job: the poll fails, or the job is gone.       *)
LEMMA DeleteEffect ==
    ASSUME TypeOK, NEW q \in Polls, NEW j \in Jobs, DeleteExpired(q, j)
    PROVE  \/ EndPoll(q) /\ UNCHANGED job
           \/ /\ UNCHANGED timer
              /\ job' = [job EXCEPT ![j] = "gone"]
              /\ poll' \in [Polls -> Poll]
              /\ \A p \in Polls \ {q} : poll'[p] = poll[p]
              /\ poll'[q].stage = poll[q].stage /\ poll'[q].done = poll[q].done
              /\ poll'[q].ids = poll[q].ids
              /\ poll'[q].state = [poll[q].state EXCEPT ![j] = "expired"]
              /\ poll'[q].doomed = {}
  <1>1. CASE job[j] \in {"active", "gone"}
    BY <1>1 DEF DeleteExpired
  <1>2. CASE job[j] \notin {"active", "gone"}
    <2> DEFINE state == [poll[q].state EXCEPT ![j] = "expired"]
               new == [poll[q] EXCEPT !.doomed = {}, !.state = state]
    <2>1. poll[q] \in Poll /\ state \in [Jobs -> Answer]
      BY DEF TypeOK, Poll, Answer
    <2>2. /\ new \in Poll /\ new.stage = poll[q].stage /\ new.doomed = {}
          /\ new.state = state /\ new.done = poll[q].done /\ new.ids = poll[q].ids
      BY <2>1 DEF Poll
    <2>3. poll' = [poll EXCEPT ![q] = new]
      BY <1>2 DEF DeleteExpired, TypeOK
    <2>4. UNCHANGED timer /\ job' = [job EXCEPT ![j] = "gone"]
      BY <1>2 DEF DeleteExpired
    <2> HIDE DEF new
    <2> QED
      BY <2>2, <2>3, <2>4, OnePollChanges
  <1> QED
    BY <1>1, <1>2

(* The answer is evaluated: the poll ends, or goes on to the refresh.      *)
LEMMA EvaluateEffect ==
    ASSUME TypeOK, NEW q \in Polls, EvaluatePoll(q)
    PROVE  /\ poll' \in [Polls -> Poll]
           /\ \A p \in Polls \ {q} : poll'[p] = poll[p]
           /\ poll'[q].ids = {} /\ poll'[q].doomed = {} /\ poll'[q].done = Done(q)
           /\ \A j \in Jobs : poll'[q].state[j] = Unanswered
           /\ timer' \in BOOLEAN
           /\ tracked' = tracked \ Done(q)
           /\ Done(q) \subseteq tracked
           /\ tracked' # {} => timer' \/ poll'[q].stage = "refreshing"
  <1>1. Done(q) \subseteq tracked /\ tracked \subseteq Subjects /\ tracked' = tracked \ Done(q)
    BY DEF Done, TypeOK, EvaluatePoll, StillPending
  <1>2. CASE Done(q) = {}
    <2>1. EndPoll(q)
      BY <1>2 DEF EvaluatePoll
    <2> QED
      BY <1>1, <1>2, <2>1, PollEnds, NoPollTyped
  <1>3. CASE Done(q) # {}
    <2> DEFINE new == [NoPoll EXCEPT !.stage = "refreshing", !.done = Done(q)]
    <2>1. /\ new \in Poll /\ new.stage = "refreshing" /\ new.done = Done(q)
          /\ new.state = NoPoll.state /\ new.ids = {} /\ new.doomed = {}
      BY <1>1, NoPollTyped DEF Poll
    <2>2. poll' = [poll EXCEPT ![q] = new] /\ UNCHANGED timer
      BY <1>3 DEF EvaluatePoll
    <2>3. timer \in BOOLEAN
      BY DEF TypeOK
    <2> HIDE DEF new
    <2> QED
      BY <1>1, <2>1, <2>2, <2>3, NoPollTyped, OnePollChanges
  <1> QED
    BY <1>2, <1>3

(* A task only moves on: what is over stays over, what expired is never    *)
(* run, and a handler is called when a worker takes a pending task.        *)
JobMovesOn(j) ==
    /\ job[j] # "none" => job'[j] # "none"
    /\ Over(j) => Over(j)'
    /\ job[j] \in {"overdue", "archived", "gone"} => job'[j] \in {"overdue", "archived", "gone"}
    /\ job'[j] \in {"none", "pending", "overdue"} => job[j] \in {"none", "pending", "overdue"}
    /\ ran'[j] => ran[j] \/ (job[j] = "pending" /\ job'[j] = "active")

LEMMA JobsMoveOn ==
    ASSUME TypeOK, [Next]_vars
    PROVE  /\ job' \in [Jobs -> JobState] /\ ran' \in [Jobs -> BOOLEAN]
           /\ \A j \in Jobs : JobMovesOn(j)
  <1> DEFINE Typed == job' \in [Jobs -> JobState] /\ ran' \in [Jobs -> BOOLEAN]
  <1>1. CASE UNCHANGED <<job, ran>>
    BY <1>1 DEF TypeOK, JobMovesOn, Over
  <1>2. ASSUME NEW s \in Subjects, NEW i \in Jobs, Enqueue(s, i)
        PROVE  Typed /\ \A j \in Jobs : JobMovesOn(j)
    BY <1>2 DEF TypeOK, Enqueue, JobState, JobMovesOn, Over
  <1>3. ASSUME NEW q \in Polls, NEW i \in Jobs, DeleteExpired(q, i)
        PROVE  Typed /\ \A j \in Jobs : JobMovesOn(j)
    <2>1. UNCHANGED ran
      BY <1>3 DEF DeleteExpired
    <2>2. UNCHANGED job \/ (job[i] # "active" /\ job' = [job EXCEPT ![i] = "gone"])
      BY <1>3 DEF DeleteExpired
    <2> QED
      BY <1>1, <2>1, <2>2 DEF TypeOK, JobState, JobMovesOn, Over
  <1>4. ASSUME NEW i \in Jobs, Queue(i)
        PROVE  Typed /\ \A j \in Jobs : JobMovesOn(j)
    <2>1. CASE PassDeadline(i)
      BY <2>1 DEF TypeOK, PassDeadline, JobState, JobMovesOn, Over
    <2>2. CASE StartJob(i)
      BY <2>2 DEF TypeOK, StartJob, JobState, JobMovesOn, Over
    <2>3. CASE RejectJob(i)
      BY <2>3 DEF TypeOK, RejectJob, JobState, JobMovesOn, Over
    <2>4. CASE EndJob(i)
      <3>1. PICK outcome \in {"completed", "archived"} : job' = [job EXCEPT ![i] = outcome]
        BY <2>4 DEF EndJob
      <3> QED
        BY <2>4, <3>1 DEF TypeOK, EndJob, JobState, JobMovesOn, Over
    <2>5. CASE DropJob(i)
      BY <2>5 DEF TypeOK, DropJob, JobState, JobMovesOn, Over
    <2> QED
      BY <1>4, <2>1, <2>2, <2>3, <2>4, <2>5 DEF Queue
  <1>5. \/ UNCHANGED <<job, ran>>
        \/ \E s \in Subjects, i \in Jobs : Enqueue(s, i)
        \/ \E q \in Polls, i \in Jobs : DeleteExpired(q, i)
        \/ \E i \in Jobs : Queue(i)
    BY DEF Next, vars, Browser, Polling, Click, Serve, EnqueueAllChecks, EnqueueModelCheck,
           RunChecks, TrackGroup, GiveUp, StartPoll, Inspect, FailPoll, EvaluatePoll, FinishGroups
  <1> QED
    BY <1>1, <1>2, <1>3, <1>4, <1>5

(* A step is one of the queue's, which leaves the browser alone, or one of *)
(* the operations below.                                                   *)
LEMMA ManualSteps ==
    ASSUME [Next]_vars
    PROVE  \/ UNCHANGED <<checking, request, ids, tracked, timer, poll, failures>>
           \/ \E s \in Subjects : Click(s) \/ RunChecks(s) \/ TrackGroup(s) \/ GiveUp(s)
           \/ \E s \in Subjects, j \in Jobs : Enqueue(s, j)
           \/ \E q \in Polls : StartPoll(q) \/ FailPoll(q) \/ EvaluatePoll(q) \/ FinishGroups(q)
           \/ \E q \in Polls, j \in Jobs : Inspect(q, j) \/ DeleteExpired(q, j)
  BY DEF Next, vars, Browser, Serve, EnqueueAllChecks, EnqueueModelCheck, Polling, Queue,
         PassDeadline, StartJob, RejectJob, EndJob, DropJob

(* Every action keeps the types; the delicate one is tracked, whose        *)
(* spinners turn.                                                          *)
LEMMA ManualTypeStep ==
    ASSUME ManualInv, [Next]_vars
    PROVE  TypeOK'
  <1> USE DEF ManualInv
  <1>1. job' \in [Jobs -> JobState] /\ ran' \in [Jobs -> BOOLEAN]
    BY JobsMoveOn
  <1> DEFINE Browsing ==
          /\ checking' \in [Subjects -> BOOLEAN]
          /\ request' \in [Subjects -> {"none", "sent", "accepted", "refused"}]
          /\ ids' \in [Subjects -> SUBSET Jobs]
          /\ tracked' \subseteq {s \in Subjects : checking'[s]}
      Asking ==
          /\ timer' \in BOOLEAN
          /\ poll' \in [Polls -> Poll]
          /\ failures' \in 0 .. MaxFailures
  <1>2. CASE UNCHANGED <<checking, request, ids, tracked, timer, poll, failures>>
    BY <1>1, <1>2 DEF TypeOK
  <1>3. ASSUME NEW s \in Subjects, Click(s) \/ RunChecks(s) \/ TrackGroup(s) \/ GiveUp(s)
        PROVE  TypeOK'
    <2>1. request[s] = "accepted" => checking[s]
      BY DEF GroupsOK, OnePhase
    <2>2. request[s] = "refused" => s \notin tracked
      BY DEF GroupsOK, OnePhase
    <2>3. Asking
      BY <1>3 DEF TypeOK, Click, RunChecks, TrackGroup, GiveUp
    <2>4. CASE Click(s)
      BY <2>4, <2>3, <1>1 DEF TypeOK, Click
    <2>5. CASE RunChecks(s)
      <3>1. ids' \in [Subjects -> SUBSET Jobs]
        BY <2>5 DEF TypeOK, RunChecks
      <3> QED
        BY <2>5, <3>1, <2>3, <1>1 DEF TypeOK, RunChecks
    <2>6. CASE TrackGroup(s)
      BY <2>1, <2>6, <2>3, <1>1 DEF TypeOK, TrackGroup
    <2>7. CASE GiveUp(s)
      BY <2>2, <2>7, <2>3, <1>1 DEF TypeOK, GiveUp
    <2> QED
      BY <1>3, <2>4, <2>5, <2>6, <2>7
  <1>4. ASSUME NEW s \in Subjects, NEW j \in Jobs, Enqueue(s, j) PROVE TypeOK'
    BY <1>4, <1>1 DEF TypeOK, Enqueue
  <1>5. ASSUME NEW q \in Polls, StartPoll(q) \/ FailPoll(q) \/ EvaluatePoll(q) \/ FinishGroups(q)
        PROVE  TypeOK'
    <2>1. CASE StartPoll(q)
      <3>1. poll' \in [Polls -> Poll]
        BY <2>1, StartPollEffect
      <3> QED
        BY <1>1, <2>1, <3>1 DEF TypeOK, StartPoll
    <2>2. CASE FailPoll(q)
      <3>1. poll' \in [Polls -> Poll] /\ timer' \in BOOLEAN
        BY <2>2, PollEnds DEF FailPoll
      <3>2. failures' \in 0 .. MaxFailures
        BY <2>2, BoundsAssumption DEF FailPoll, TypeOK
      <3> QED
        BY <1>1, <2>2, <3>1, <3>2 DEF TypeOK, FailPoll
    <2>3. CASE EvaluatePoll(q)
      BY <1>1, <2>3, EvaluateEffect DEF TypeOK, EvaluatePoll
    <2>4. CASE FinishGroups(q)
      <3>1. poll' \in [Polls -> Poll] /\ timer' \in BOOLEAN
        BY <2>4, PollEnds DEF FinishGroups
      <3>2. \A s \in tracked : s \notin poll[q].done
        BY DEF TypeOK, GroupsOK, OnePhase
      <3>3. /\ checking' \in [Subjects -> BOOLEAN]
            /\ \A s \in Subjects : checking'[s] <=> s \notin poll[q].done /\ checking[s]
        BY <2>4 DEF FinishGroups, TypeOK
      <3>4. ids' \in [Subjects -> SUBSET Jobs]
        BY <2>4 DEF FinishGroups, TypeOK
      <3>5. tracked' \subseteq {s \in Subjects : checking'[s]}
        BY <2>4, <3>2, <3>3 DEF FinishGroups, TypeOK
      <3> QED
        BY <1>1, <2>4, <3>1, <3>3, <3>4, <3>5 DEF TypeOK, FinishGroups
    <2> QED
      BY <1>5, <2>1, <2>2, <2>3, <2>4
  <1>6. ASSUME NEW q \in Polls, NEW j \in Jobs, Inspect(q, j) \/ DeleteExpired(q, j)
        PROVE  TypeOK'
    <2>1. CASE Inspect(q, j)
      BY <1>1, <2>1, InspectEffect DEF TypeOK, Inspect
    <2>2. CASE DeleteExpired(q, j)
      <3>1. poll' \in [Polls -> Poll] /\ timer' \in BOOLEAN
        BY <2>2, DeleteEffect, PollEnds DEF TypeOK
      <3> QED
        BY <1>1, <2>2, <3>1 DEF TypeOK, DeleteExpired
    <2> QED
      BY <1>6, <2>1, <2>2
  <1> QED
    BY <1>2, <1>3, <1>4, <1>5, <1>6, ManualSteps

(* The phases of the spinners do not change while the browser waits.       *)
LEMMA GroupsStay ==
    ASSUME TypeOK, GroupsOK, UNCHANGED <<checking, request, ids, tracked>>,
           \A j \in Jobs : JobMovesOn(j),
           \A q \in Polls : poll'[q].done \subseteq poll[q].done
    PROVE  GroupsOK'
  <1> SUFFICES ASSUME NEW s \in Subjects PROVE OnePhase(s)'
    BY DEF GroupsOK
  <1>1. OnePhase(s) /\ ids[s] \subseteq Jobs
    BY DEF GroupsOK, TypeOK
  <1> QED
    BY <1>1 DEF OnePhase, JobMovesOn

(* A spinner is in one phase at a time. *)
LEMMA GroupsStep ==
    ASSUME ManualInv, [Next]_vars
    PROVE  GroupsOK'
  <1> USE DEF ManualInv
  <1>1. \A j \in Jobs : JobMovesOn(j)
    BY JobsMoveOn
  <1>2. CASE UNCHANGED <<checking, request, ids, tracked, timer, poll, failures>>
    BY <1>1, <1>2, GroupsStay
  <1>3. ASSUME NEW s \in Subjects, Click(s) \/ RunChecks(s) \/ TrackGroup(s) \/ GiveUp(s)
        PROVE  GroupsOK'
    <2> SUFFICES ASSUME NEW t \in Subjects PROVE OnePhase(t)'
      BY DEF GroupsOK
    <2>1. OnePhase(s) /\ OnePhase(t)
      BY DEF GroupsOK
    <2>2. CASE Click(s)
      BY <2>1, <2>2 DEF TypeOK, OnePhase, Click
    <2>3. CASE RunChecks(s)
      BY <2>1, <2>3 DEF TypeOK, OnePhase, RunChecks
    <2>4. CASE TrackGroup(s)
      BY <2>1, <2>4 DEF TypeOK, OnePhase, TrackGroup
    <2>5. CASE GiveUp(s)
      BY <2>1, <2>5 DEF TypeOK, OnePhase, GiveUp
    <2> QED
      BY <1>3, <2>2, <2>3, <2>4, <2>5
  <1>4. ASSUME NEW s \in Subjects, NEW j \in Jobs, Enqueue(s, j) PROVE GroupsOK'
    <2> SUFFICES ASSUME NEW t \in Subjects PROVE OnePhase(t)'
      BY DEF GroupsOK
    <2>1. OnePhase(s) /\ OnePhase(t)
      BY DEF GroupsOK
    <2> QED
      BY <1>1, <1>4, <2>1 DEF TypeOK, OnePhase, Enqueue, JobMovesOn
  <1>5. ASSUME NEW q \in Polls, StartPoll(q) \/ FailPoll(q) PROVE GroupsOK'
    <2>1. UNCHANGED <<checking, request, ids, tracked>>
      BY <1>5 DEF StartPoll, FailPoll
    <2>2. \A p \in Polls : poll'[p].done \subseteq poll[p].done
      BY <1>5, StartPollEffect, PollEnds, NoPollTyped DEF FailPoll
    <2> QED
      BY <1>1, <2>1, <2>2, GroupsStay
  <1>6. ASSUME NEW q \in Polls, EvaluatePoll(q) PROVE GroupsOK'
    <2> SUFFICES ASSUME NEW s \in Subjects PROVE OnePhase(s)'
      BY DEF GroupsOK
    <2>1. OnePhase(s) /\ (s \in tracked => checking[s])
      BY DEF GroupsOK, TypeOK
    <2>2. UNCHANGED <<job, checking, request, ids>>
      BY <1>6 DEF EvaluatePoll
    <2>3. /\ \A p \in Polls \ {q} : poll'[p] = poll[p]
          /\ poll'[q].done = Done(q) /\ tracked' = tracked \ Done(q) /\ Done(q) \subseteq tracked
      BY <1>6, EvaluateEffect
    <2> QED
      BY <2>1, <2>2, <2>3 DEF OnePhase
  <1>7. ASSUME NEW q \in Polls, FinishGroups(q) PROVE GroupsOK'
    <2> SUFFICES ASSUME NEW s \in Subjects PROVE OnePhase(s)'
      BY DEF GroupsOK
    <2>1. OnePhase(s)
      BY DEF GroupsOK
    <2>2. /\ UNCHANGED <<job, request, tracked>>
          /\ checking'[s] <=> s \notin poll[q].done /\ checking[s]
          /\ ids'[s] = IF s \in poll[q].done THEN {} ELSE ids[s]
      BY <1>7 DEF FinishGroups, TypeOK
    <2>3. /\ \A p \in Polls \ {q} : poll'[p] = poll[p]
          /\ poll'[q].done = {}
      BY <1>7, PollEnds, NoPollTyped DEF FinishGroups
    <2> QED
      BY <2>1, <2>2, <2>3 DEF OnePhase
  <1>8. ASSUME NEW q \in Polls, NEW j \in Jobs, Inspect(q, j) \/ DeleteExpired(q, j)
        PROVE  GroupsOK'
    <2>1. UNCHANGED <<checking, request, ids, tracked>>
      BY <1>8 DEF Inspect, DeleteExpired
    <2>2. CASE Inspect(q, j)
      <3>1. \A p \in Polls : poll'[p].done \subseteq poll[p].done
        BY <2>2, InspectEffect
      <3> QED
        BY <1>1, <2>1, <3>1, GroupsStay
    <2>3. CASE DeleteExpired(q, j)
      <3>1. \A p \in Polls : poll'[p].done \subseteq poll[p].done
        BY <2>3, DeleteEffect, PollEnds, NoPollTyped
      <3> QED
        BY <1>1, <2>1, <3>1, GroupsStay
    <2> QED
      BY <1>8, <2>2, <2>3
  <1> QED
    BY <1>2, <1>3, <1>4, <1>5, <1>6, <1>7, <1>8, ManualSteps

(* An answer stays true while its poll does not change it: jobs move on.   *)
LEMMA AnswerStays ==
    ASSUME TypeOK, AnswersOK, OnlyStartedRan, NEW q \in Polls, NEW j \in Jobs, JobMovesOn(j),
           j \in poll'[q].ids => job[j] # "none",
           poll'[q].state[j] \in {poll[q].state[j], Unanswered},
           j \in poll'[q].doomed => j \in poll[q].doomed
    PROVE  TrueAnswer(q, j)'
  <1>1. TrueAnswer(q, j) /\ (job[j] = "overdue" => ~ran[j])
    BY DEF AnswersOK, OnlyStartedRan
  <1> QED
    BY <1>1 DEF TrueAnswer, JobMovesOn, Over, Unanswered

(* What a poll is told of a job is true when it is told, and stays true.   *)
LEMMA AnswersStep ==
    ASSUME ManualInv, [Next]_vars
    PROVE  AnswersOK'
  <1> USE DEF ManualInv
  <1> SUFFICES ASSUME NEW p \in Polls, NEW i \in Jobs PROVE TrueAnswer(p, i)'
    BY DEF AnswersOK
  <1>1. JobMovesOn(i) /\ TrueAnswer(p, i)
    BY JobsMoveOn DEF AnswersOK
  <1>2. CASE poll'[p] = poll[p]
    <2>1. i \in poll'[p].ids => job[i] # "none"
      BY <1>1, <1>2 DEF TrueAnswer
    <2> QED
      BY <1>1, <1>2, <2>1, AnswerStays
  <1>3. CASE poll'[p] = NoPoll
    BY <1>1, <1>3, NoPollTyped, AnswerStays
  <1>4. ASSUME StartPoll(p) PROVE TrueAnswer(p, i)'
    <2>1. i \in JobIDs => job[i] # "none"
      BY DEF JobIDs, GroupsOK, OnePhase, TypeOK
    <2>2. /\ poll'[p].state = poll[p].state
          /\ poll'[p].doomed = poll[p].doomed
          /\ poll'[p].ids \in {poll[p].ids, JobIDs}
      BY <1>4, StartPollEffect
    <2>3. i \in poll'[p].ids => job[i] # "none"
      BY <1>1, <2>1, <2>2 DEF TrueAnswer
    <2> QED
      BY <1>1, <2>2, <2>3, AnswerStays
  <1>5. ASSUME EvaluatePoll(p) PROVE TrueAnswer(p, i)'
    BY <1>1, <1>5, EvaluateEffect, AnswerStays
  <1>6. ASSUME NEW j \in Jobs, Inspect(p, j) PROVE TrueAnswer(p, i)'
    <2>1. UNCHANGED <<job, ran>>
      BY <1>6 DEF Inspect
    <2>2. /\ poll'[p].ids = poll[p].ids
          /\ \/ /\ poll'[p].state = poll[p].state /\ poll'[p].doomed = {j}
                /\ job[j] = "overdue"
             \/ /\ poll'[p].state = [poll[p].state EXCEPT ![j] = StateOf(j)]
                /\ poll'[p].doomed = poll[p].doomed
      BY <1>6, InspectEffect
    <2>3. poll[p].state \in [Jobs -> Answer] /\ job[j] \in JobState
      BY DEF TypeOK, Poll
    <2>4. job[j] = "overdue" => ~ran[j]
      BY DEF OnlyStartedRan
    <2>5. /\ StateOf(j) \in {"completed", "archived", "expired", "not_found"} => Over(j)
          /\ StateOf(j) # "expired"
      BY <2>3 DEF StateOf, Over, JobState
    <2> QED
      BY <1>1, <2>1, <2>2, <2>3, <2>4, <2>5 DEF TrueAnswer, Over
  <1>7. ASSUME NEW j \in Jobs, DeleteExpired(p, j) PROVE TrueAnswer(p, i)'
    <2>1. CASE EndPoll(p)
      BY <1>3, <2>1, PollEnds
    <2>2. CASE ~EndPoll(p)
      <3>1. /\ job' = [job EXCEPT ![j] = "gone"]
            /\ poll'[p].ids = poll[p].ids
            /\ poll'[p].state = [poll[p].state EXCEPT ![j] = "expired"]
            /\ poll'[p].doomed = {}
        BY <1>7, <2>2, DeleteEffect
      <3>2. /\ poll[p].state \in [Jobs -> Answer] /\ job \in [Jobs -> JobState]
            /\ UNCHANGED ran /\ j \in poll[p].doomed
        BY <1>7 DEF TypeOK, Poll, DeleteExpired
      <3>3. ~ran[j]
        BY <3>2 DEF AnswersOK, TrueAnswer
      <3> QED
        BY <1>1, <3>1, <3>2, <3>3 DEF TrueAnswer, Over
    <2> QED
      BY <2>1, <2>2
  <1>8. \/ poll'[p] \in {poll[p], NoPoll}
        \/ StartPoll(p) \/ EvaluatePoll(p)
        \/ \E j \in Jobs : Inspect(p, j) \/ DeleteExpired(p, j)
    <2>1. ASSUME NEW q \in Polls, StartPoll(q) PROVE p = q \/ poll'[p] = poll[p]
      BY <2>1, StartPollEffect
    <2>2. ASSUME NEW q \in Polls, FailPoll(q) \/ FinishGroups(q)
          PROVE  poll'[p] \in {poll[p], NoPoll}
      BY <2>2, PollEnds DEF FailPoll, FinishGroups
    <2>3. ASSUME NEW q \in Polls, EvaluatePoll(q) PROVE p = q \/ poll'[p] = poll[p]
      BY <2>3, EvaluateEffect
    <2>4. ASSUME NEW q \in Polls, NEW j \in Jobs, Inspect(q, j) PROVE p = q \/ poll'[p] = poll[p]
      BY <2>4, InspectEffect
    <2>5. ASSUME NEW q \in Polls, NEW j \in Jobs, DeleteExpired(q, j)
          PROVE  p = q \/ poll'[p] = poll[p]
      BY <2>5, DeleteEffect, PollEnds
    <2>6. ASSUME NEW s \in Subjects, Click(s) \/ RunChecks(s) \/ TrackGroup(s) \/ GiveUp(s)
          PROVE  poll'[p] = poll[p]
      BY <2>6 DEF Click, RunChecks, TrackGroup, GiveUp
    <2>7. ASSUME NEW s \in Subjects, NEW j \in Jobs, Enqueue(s, j) PROVE poll'[p] = poll[p]
      BY <2>7 DEF Enqueue
    <2> QED
      BY <2>1, <2>2, <2>3, <2>4, <2>5, <2>6, <2>7, ManualSteps
  <1> QED
    BY <1>2, <1>3, <1>4, <1>5, <1>6, <1>7, <1>8

(* A poll in flight, or the timer, outlives every step while a group is    *)
(* pending: what ends a poll schedules the next one.                       *)
LEMMA PollingStep ==
    ASSUME ManualInv, [Next]_vars
    PROVE  PollingGoesOn'
  <1> USE DEF ManualInv
  <1>1. CASE UNCHANGED <<tracked, timer, poll>>
    BY <1>1 DEF PollingGoesOn
  <1>2. ASSUME NEW s \in Subjects, Click(s) \/ RunChecks(s) \/ TrackGroup(s) \/ GiveUp(s)
        PROVE  PollingGoesOn'
    BY <1>2 DEF PollingGoesOn, Click, RunChecks, TrackGroup, GiveUp
  <1>3. ASSUME NEW s \in Subjects, NEW j \in Jobs, Enqueue(s, j) PROVE PollingGoesOn'
    BY <1>3 DEF PollingGoesOn, Enqueue
  <1>4. ASSUME NEW q \in Polls, EndPoll(q), UNCHANGED tracked PROVE PollingGoesOn'
    BY <1>4, PollEnds DEF PollingGoesOn
  <1>5. ASSUME NEW q \in Polls, StartPoll(q) PROVE PollingGoesOn'
    <2>1. UNCHANGED tracked
      BY <1>5 DEF StartPoll
    <2>2. tracked # {} => JobIDs # {}
      BY DEF JobIDs, GroupsOK, OnePhase, TypeOK
    <2>3. JobIDs # {} => poll'[q].stage = "asked"
      BY <1>5, StartPollEffect
    <2> QED
      BY <2>1, <2>2, <2>3 DEF PollingGoesOn
  <1>6. ASSUME NEW q \in Polls, EvaluatePoll(q) PROVE PollingGoesOn'
    BY <1>6, EvaluateEffect DEF PollingGoesOn
  <1>7. ASSUME NEW q \in Polls, NEW j \in Jobs, Inspect(q, j) PROVE PollingGoesOn'
    <2>1. poll'[q].stage = "asked"
      BY <1>7, InspectEffect
    <2> QED
      BY <2>1 DEF PollingGoesOn
  <1>8. ASSUME NEW q \in Polls, NEW j \in Jobs, DeleteExpired(q, j) PROVE PollingGoesOn'
    <2>1. UNCHANGED tracked
      BY <1>8 DEF DeleteExpired
    <2>2. CASE ~EndPoll(q)
      <3>1. /\ UNCHANGED timer
            /\ \A p \in Polls : poll'[p].stage = poll[p].stage
        BY <1>8, <2>2, DeleteEffect
      <3> QED
        BY <2>1, <3>1 DEF PollingGoesOn
    <2> QED
      BY <1>4, <2>1, <2>2
  <1>9. \A q \in Polls : FailPoll(q) \/ FinishGroups(q) => EndPoll(q) /\ UNCHANGED tracked
    BY DEF FailPoll, FinishGroups
  <1> QED
    BY <1>1, <1>2, <1>3, <1>4, <1>5, <1>6, <1>7, <1>8, <1>9, ManualSteps

(* In every reachable state each spinner is in one phase, every answer a   *)
(* poll has collected is still true, only jobs a worker took have run, and *)
(* polling goes on: the inductive invariant of manual checks.              *)
THEOREM ManualInvAlways == Spec => []ManualInv
  <1>1. Init => ManualInv
    <2> SUFFICES ASSUME Init PROVE ManualInv
      OBVIOUS
    <2>1. \A q \in Polls : poll[q] = NoPoll
      BY DEF Init
    <2>2. TypeOK
      <3>1. poll \in [Polls -> Poll]
        BY NoPollTyped DEF Init
      <3>2. failures \in 0 .. MaxFailures
        BY BoundsAssumption DEF Init
      <3>3. ran \in [Jobs -> BOOLEAN] /\ checking \in [Subjects -> BOOLEAN] /\ timer \in BOOLEAN
        BY Zenon DEF Init
      <3> QED
        BY <3>1, <3>2, <3>3 DEF Init, TypeOK, JobState
    <2>3. GroupsOK
      BY <2>1, NoPollTyped DEF Init, GroupsOK, OnePhase
    <2>4. AnswersOK
      BY <2>1, NoPollTyped DEF AnswersOK, TrueAnswer, Unanswered
    <2>5. OnlyStartedRan /\ PollingGoesOn
      BY DEF Init, OnlyStartedRan, PollingGoesOn
    <2> QED
      BY <2>2, <2>3, <2>4, <2>5 DEF ManualInv
  <1>2. ManualInv /\ [Next]_vars => ManualInv'
    <2> SUFFICES ASSUME ManualInv, [Next]_vars PROVE ManualInv'
      OBVIOUS
    <2>1. OnlyStartedRan'
      BY JobsMoveOn DEF ManualInv, OnlyStartedRan, JobMovesOn
    <2> QED
      BY <2>1, ManualTypeStep, GroupsStep, AnswersStep, PollingStep DEF ManualInv
  <1> QED
    BY <1>1, <1>2, PTL DEF Spec

(* The variables of ManualChecks always have their types, and only a       *)
(* spinner that turns has a pending group.                                 *)
THEOREM ManualTypeCorrect == Spec => []TypeOK
  <1>1. ManualInv => TypeOK
    BY DEF ManualInv
  <1> QED
    BY <1>1, ManualInvAlways, PTL

(* While a group is pending, a poll is in flight or scheduled, whichever   *)
(* polls overlapped, failed, or found another group finished.              *)
THEOREM PollingGoesOnAlways == Spec => []PollingGoesOn
  <1>1. ManualInv => PollingGoesOn
    BY DEF ManualInv
  <1> QED
    BY <1>1, ManualInvAlways, PTL

(* No job that was reported as expired was ever run. *)
THEOREM ExpiredNeverRanAlways == Spec => []ExpiredNeverRan
  <1>1. ManualInv => ExpiredNeverRan
    BY DEF ManualInv, AnswersOK, TrueAnswer, ExpiredNeverRan
  <1> QED
    BY <1>1, ManualInvAlways, PTL

(* A group that a poll asked about is finished only when all its jobs are. *)
THEOREM AskedMeansDoneAlways == Spec => AskedMeansDone
  <1> DEFINE Finished ==
        \A q \in Polls : EvaluatePoll(q) =>
           \A s \in Done(q) : ids[s] \subseteq poll[q].ids => \A j \in ids[s] : Over(j)
  <1>1. ManualInv => Finished
    <2> SUFFICES ASSUME ManualInv, NEW q \in Polls, EvaluatePoll(q), NEW s \in Done(q),
                        ids[s] \subseteq poll[q].ids, NEW j \in ids[s]
                 PROVE  Over(j)
      OBVIOUS
    <2>1. j \in Jobs /\ j \in poll[q].ids
      BY DEF ManualInv, TypeOK, Poll
    <2>2. poll[q].state[j] # Unanswered /\ Terminal(poll[q].state[j])
      BY <2>1 DEF EvaluatePoll, Done
    <2> QED
      BY <2>1, <2>2 DEF ManualInv, AnswersOK, TrueAnswer, Terminal
  <1>2. ManualInv /\ [Next]_vars => [Finished]_vars
    BY <1>1
  <1> QED
    BY <1>2, ManualInvAlways, PTL DEF Spec, AskedMeansDone
=============================================================================
