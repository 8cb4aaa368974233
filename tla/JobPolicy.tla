------------------------------ MODULE JobPolicy ------------------------------
(***************************************************************************)
(* The pure rules of jobs/policy.ts: the backoff after a failed attempt    *)
(* and the slot a schedule moves to.  Times are whole units, whatever the  *)
(* unit is; the jitter is a choice.                                        *)
(***************************************************************************)
EXTENDS Integers

CONSTANTS
    BaseDelay,   \* JobPolicy.baseDelayMs
    MaxDelay     \* JobPolicy.maxDelayMs

ASSUME DelayAssumption == BaseDelay \in Nat /\ MaxDelay \in Nat

\* Doubling[a] is 2 ** a.
Doubling[a \in Nat] == IF a = 0 THEN 1 ELSE 2 * Doubling[a - 1]

\* min(2^attempts x base, max), and up to a quarter of it on top.
RetryDelays(attempts) ==
    LET grown == Doubling[attempts] * BaseDelay
        base == IF grown < MaxDelay THEN grown ELSE MaxDelay
    IN  base .. (base + base \div 4)

\* Mutant: moves one interval at a time, so a schedule that was down catches up.
NextSlotCatchesUp(slot, interval, now) == slot + interval

\* The first slot + k * interval, k >= 1, strictly after now.
NextIntervalSlot(slot, interval, now) ==
    LET passed == (now - slot) \div interval
        steps == IF passed + 1 > 1 THEN passed + 1 ELSE 1
    IN  slot + steps * interval

-----------------------------------------------------------------------------
\* The slot a schedule moves to lies on its own grid, after the slot it fired for
\* and after now, and is the first such slot.
FirstSlotAfter(n, slot, interval, now) ==
    /\ n > now /\ n > slot
    /\ n - interval <= now \/ n - interval <= slot
    /\ (n - slot) % interval = 0
=============================================================================
