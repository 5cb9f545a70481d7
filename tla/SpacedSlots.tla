---------------------------- MODULE SpacedSlots ----------------------------
(***************************************************************************)
(* What store.ReserveTaskStart promises the probes of a provider: start    *)
(* times ("slots") that are handed out in order, each at least Spacing     *)
(* after every slot handed out before.  Providers are independent.         *)
(***************************************************************************)
EXTENDS Integers

CONSTANTS
    Providers,  \* the spacing keys: one per provider
    Spacing     \* the least distance of two slots

VARIABLE slots  \* slots[p]: the start times handed out so far

Init == slots = [p \in Providers |-> {}]

Grant(p) ==
    \E t \in slots'[p] :
        /\ \A s \in slots[p] : s + Spacing <= t
        /\ slots' = [slots EXCEPT ![p] = @ \cup {t}]

Next == \E p \in Providers : Grant(p)

Spec == Init /\ [][Next]_slots
=============================================================================
