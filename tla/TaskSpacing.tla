---------------------------- MODULE TaskSpacing ----------------------------
(***************************************************************************)
(* Scheduled model runs of one provider share a spacing key: before it     *)
(* probes, waitForScheduledModelSlot (tasks/models/model_runs.go) reserves *)
(* a start time in task_spacing_state (store.ReserveTaskStart) and sleeps  *)
(* until then, or until the task's time limit.  Any number of workers, in  *)
(* any number of processes, reserve at once.                               *)
(*                                                                         *)
(* The transaction inserts the key if it is absent and then reads it       *)
(* FOR UPDATE; a second transaction waits at the insert or at the row lock *)
(* until the first has ended.  What it computes does not depend on when it *)
(* gets the lock, so the transaction is one step; the clock was read       *)
(* before, in the worker.  Every process has a clock of its own.           *)
(***************************************************************************)
EXTENDS Integers, FiniteSets

CONSTANTS
    Runs,           \* scheduled model runs in the queue
    Providers,      \* configured providers
    ProviderOf,     \* the provider a run probes
    Skews,          \* how far a worker's clock may be ahead (a bound)
    MaxTime,        \* bound on the clock
    Spacing,        \* shared.ModelRunSpacing
    TaskTimeout     \* asynq's Timeout option

ASSUME SpacingAssumption == Spacing \in Nat \ {0}
ASSUME ClockAssumption == MaxTime \in Nat /\ TaskTimeout \in Nat /\ Skews \subseteq Nat
ASSUME ProviderOfAssumption == ProviderOf \in [Runs -> Providers]

VARIABLES
    clock,          \* the time
    nextAllowed,    \* task_spacing_state.next_allowed_at; NULL: no row yet
    phase,          \* where each run is
    startedAt,      \* when its task started: the origin of the time limit
    earliest,       \* time.Now() in its worker before it reserves
    reservedAt      \* the slot it got; kept when the run fails after that

spacingVars == <<clock, nextAllowed, phase, startedAt, earliest, reservedAt>>

NULL == 0

Phase == {"queued", "reserving", "waiting", "probing", "failed"}

ContextAlive(r) == clock <= startedAt[r] + TaskTimeout

(* The time on the clock of the process that executes r. *)
LocalTime(r) == clock + (earliest[r] - startedAt[r])

-----------------------------------------------------------------------------
SpacingInit ==
    /\ clock = 1
    /\ nextAllowed = [p \in Providers |-> NULL]
    /\ phase = [r \in Runs |-> "queued"]
    /\ startedAt = [r \in Runs |-> NULL]
    /\ earliest = [r \in Runs |-> NULL]
    /\ reservedAt = [r \in Runs |-> NULL]

Tick ==
    /\ clock < MaxTime
    /\ clock' = clock + 1
    /\ UNCHANGED <<nextAllowed, phase, startedAt, earliest, reservedAt>>

(* A bug used to validate the checks: the zero time is handed to the store. *)
StartUntimed(r, skew) ==
    /\ phase[r] = "queued"
    /\ clock + TaskTimeout < MaxTime
    /\ phase' = [phase EXCEPT ![r] = "reserving"]
    /\ startedAt' = [startedAt EXCEPT ![r] = clock]
    /\ UNCHANGED <<clock, nextAllowed, earliest, reservedAt>>

(* A worker takes the task while there is time to see its limit expire. *)
StartTask(r, skew) ==
    /\ phase[r] = "queued"
    /\ clock + TaskTimeout < MaxTime
    /\ phase' = [phase EXCEPT ![r] = "reserving"]
    /\ startedAt' = [startedAt EXCEPT ![r] = clock]
    /\ earliest' = [earliest EXCEPT ![r] = clock + skew]
    /\ UNCHANGED <<clock, nextAllowed, reservedAt>>

(* Bugs used to validate the checks: the slot ignores next_allowed_at; it  *)
(* is moved one spacing too far.                                           *)
UncheckedSlot(r) == earliest[r]
WastefulSlot(r) ==
    IF nextAllowed[ProviderOf[r]] = NULL THEN earliest[r]
    ELSE IF nextAllowed[ProviderOf[r]] > earliest[r]
         THEN nextAllowed[ProviderOf[r]] + Spacing ELSE earliest[r]

(* The later of earliest and next_allowed_at, which is earliest itself     *)
(* when this transaction inserted the row.                                 *)
Slot(r) ==
    IF nextAllowed[ProviderOf[r]] > earliest[r] THEN nextAllowed[ProviderOf[r]]
                                                ELSE earliest[r]

(* ReserveTaskStart commits.  The worker learns the slot, or it fails      *)
(* because the answer to the commit was lost: the slot is spent anyway.    *)
Reserve(r) ==
    /\ phase[r] = "reserving"
    /\ ContextAlive(r)
    /\ nextAllowed' = [nextAllowed EXCEPT ![ProviderOf[r]] = Slot(r) + Spacing]
    /\ reservedAt' = [reservedAt EXCEPT ![r] = Slot(r)]
    /\ phase' \in {[phase EXCEPT ![r] = next] : next \in {"waiting", "failed"}}
    /\ UNCHANGED <<clock, startedAt, earliest>>

(* A bug used to validate the checks: an expired context is not reported. *)
FailOnlyInTime(r) ==
    /\ phase[r] = "reserving"
    /\ ContextAlive(r)
    /\ phase' = [phase EXCEPT ![r] = "failed"]
    /\ UNCHANGED <<clock, nextAllowed, startedAt, earliest, reservedAt>>

(* The transaction rolls back, or the worker dies. *)
FailToReserve(r) ==
    /\ phase[r] = "reserving"
    /\ phase' = [phase EXCEPT ![r] = "failed"]
    /\ UNCHANGED <<clock, nextAllowed, startedAt, earliest, reservedAt>>

(* The timer of the wait has fired, or there was nothing to wait for. *)
SlotReached(r) == LocalTime(r) >= reservedAt[r]

(* The probe begins: the timer won the select, perhaps against ctx.Done. *)
StartProbe(r) ==
    /\ phase[r] = "waiting"
    /\ SlotReached(r)
    /\ phase' = [phase EXCEPT ![r] = "probing"]
    /\ UNCHANGED <<clock, nextAllowed, startedAt, earliest, reservedAt>>

(* ctx.Done won the select. *)
Expire(r) ==
    /\ phase[r] = "waiting"
    /\ ~ContextAlive(r)
    /\ phase' = [phase EXCEPT ![r] = "failed"]
    /\ UNCHANGED <<clock, nextAllowed, startedAt, earliest, reservedAt>>

Step(r) ==
    \/ \E skew \in Skews : StartTask(r, skew)
    \/ Reserve(r)
    \/ FailToReserve(r)
    \/ StartProbe(r)
    \/ Expire(r)

SpacingNext == Tick \/ \E r \in Runs : Step(r)

SpacingSpec == SpacingInit /\ [][SpacingNext]_spacingVars

(* A database call returns, a timer fires, a context expires and time goes *)
(* on; that a worker ever takes the task is not assumed.                   *)
SpacingFairness ==
    /\ WF_spacingVars(Tick)
    /\ \A r \in Runs : /\ WF_spacingVars(Reserve(r) \/ FailToReserve(r))
                       /\ WF_spacingVars(StartProbe(r) \/ Expire(r))

SpacingFairSpec == SpacingSpec /\ SpacingFairness

-----------------------------------------------------------------------------
(* Every variable has its type; a run has a slot whenever it waits for one. *)
SpacingTypeOK ==
    /\ clock \in Nat \ {0}
    /\ nextAllowed \in [Providers -> Nat]
    /\ phase \in [Runs -> Phase]
    /\ startedAt \in [Runs -> Nat]
    /\ earliest \in [Runs -> Nat]
    /\ reservedAt \in [Runs -> Nat]
    /\ \A r \in Runs : phase[r] = "queued" <=> earliest[r] = NULL

(* A run that was given a slot, whether or not it lived to use it. *)
HasSlot(r) == reservedAt[r] # NULL

(* Two runs of one provider never have slots closer than the spacing,      *)
(* however their reservations interleave and however the clocks of their   *)
(* workers differ.                                                         *)
SlotsAreSpaced ==
    \A a, b \in Runs :
        (a # b /\ ProviderOf[a] = ProviderOf[b] /\ HasSlot(a) /\ HasSlot(b))
            => \/ reservedAt[a] + Spacing <= reservedAt[b]
               \/ reservedAt[b] + Spacing <= reservedAt[a]

(* No slot is wasted: a run is delayed only as far as the run before it,   *)
(* a run of the same provider, makes it wait.                              *)
NoIdleSlot ==
    \A a \in Runs : HasSlot(a) =>
        \/ reservedAt[a] = earliest[a]
        \/ \E b \in Runs \ {a} : /\ ProviderOf[b] = ProviderOf[a]
                                 /\ HasSlot(b)
                                 /\ reservedAt[a] = reservedAt[b] + Spacing

(* A run is kept waiting by those who hold the slots ahead of it, and by   *)
(* nothing else: past the time of the last of their requests it waits one  *)
(* spacing for each of them.  Runs that failed have moved the row all the  *)
(* same, but only by their one slot: overload does not run away.           *)
UpTo(r) ==
    {q \in Runs : /\ ProviderOf[q] = ProviderOf[r]
                  /\ HasSlot(q)
                  /\ reservedAt[q] <= reservedAt[r]}

AheadSince(t, r) == {q \in UpTo(r) \ {r} : reservedAt[q] + Spacing > t}

DelayIsQueue ==
    \A r, y \in Runs :
        HasSlot(r) /\ (\A q \in UpTo(r) : earliest[q] <= earliest[y])
            => reservedAt[r] <= earliest[y] + Spacing * Cardinality(AheadSince(earliest[y], r))

(* What makes these inductive: a run that still has to reserve holds no  *)
(* slot; the row of a key is ahead of every slot handed out under it; and  *)
(* it is exactly one spacing past one of them.                             *)
NoSlotYet == \A r \in Runs : phase[r] \in {"queued", "reserving"} => ~HasSlot(r)

NextAllowedIsAhead ==
    \A r \in Runs : HasSlot(r) => reservedAt[r] + Spacing <= nextAllowed[ProviderOf[r]]

NextAllowedIsEarned ==
    \A p \in Providers : nextAllowed[p] # NULL =>
        \E r \in Runs : /\ ProviderOf[r] = p
                        /\ HasSlot(r)
                        /\ nextAllowed[p] = reservedAt[r] + Spacing

SpacingInv ==
    NoSlotYet /\ NextAllowedIsAhead /\ NextAllowedIsEarned /\ SlotsAreSpaced /\ NoIdleSlot

(* A task that started ends its wait: it probes, or it gives up.  No       *)
(* number of reservations ahead of it can hold a worker longer than the    *)
(* time limit.                                                             *)
EveryWaitEnds ==
    \A r \in Runs : phase[r] = "reserving" ~> phase[r] \in {"probing", "failed"}

(* The table implements the slots it promises. *)
SlotsOf(p) == {reservedAt[r] : r \in {q \in Runs : ProviderOf[q] = p /\ HasSlot(q)}}
Promise == INSTANCE SpacedSlots WITH slots <- [p \in Providers |-> SlotsOf(p)]
ImplementsSpacedSlots == Promise!Spec
=============================================================================
