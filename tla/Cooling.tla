------------------------------- MODULE Cooling -------------------------------
(***************************************************************************)
(* tx_lock and its user of last resort: the chip that says it is too hot   *)
(* (hif_suspend_resume_indication, wfx_suspend_hot_dev).  A hot chip takes *)
(* tx_lock; it is given back when the chip says it has recovered, or by    *)
(* cooling_timeout_work, which declares the chip frozen.  Other users of   *)
(* tx_lock are added by the modules that extend this one.                  *)
(***************************************************************************)
EXTENDS Integers

CONSTANT MaxHot         \* bound: notifications that the chip is too hot

ASSUME CoolingAssumption == MaxHot \in Nat

VARIABLES
    txLock,         \* tx_lock
    chipFrozen,     \* chip_frozen
    cooling,        \* cooling_timeout_work: its timer or its queue holds it
    timedOut,       \* it runs: the chip is declared frozen, the lock is held
    hots,           \* counts the notifications
    repeats         \* those received while the work was pending already

coolingVars == <<chipFrozen, cooling, timedOut, hots, repeats>>

CoolingTypeOK ==
    /\ txLock \in Int
    /\ chipFrozen \in BOOLEAN
    /\ cooling \in BOOLEAN
    /\ timedOut \in BOOLEAN
    /\ hots \in 0 .. MaxHot
    /\ repeats \in 0 .. MaxHot

CoolingInit ==
    /\ txLock = 0
    /\ chipFrozen = FALSE
    /\ cooling = FALSE /\ timedOut = FALSE
    /\ hots = 0 /\ repeats = 0

B2N(b) == IF b THEN 1 ELSE 0

\* STA_NOTIFY_SLEEP: schedule_delayed_work does nothing when the work is
\* pending, but the lock is taken each time.
Hot ==
    /\ hots < MaxHot
    /\ hots' = hots + 1
    /\ cooling' = TRUE
    /\ repeats' = repeats + B2N(cooling)
    /\ txLock' = txLock + 1
    /\ UNCHANGED <<chipFrozen, timedOut>>

\* Mutant of Cool: the result of cancel_delayed_work is ignored.
CoolAlways ==
    /\ hots > 0
    /\ cooling' = FALSE
    /\ txLock' = txLock - 1
    /\ UNCHANGED <<chipFrozen, timedOut, hots, repeats>>

\* STA_NOTIFY_AWAKE: cancel_delayed_work says whether the work was pending;
\* one that runs gives the lock back itself.
Cool ==
    /\ hots > 0
    /\ cooling' = FALSE
    /\ txLock' = txLock - B2N(cooling)
    /\ UNCHANGED <<chipFrozen, timedOut, hots, repeats>>

\* wfx_cooling_timeout_work.
CoolTimeout ==
    /\ cooling /\ ~timedOut
    /\ cooling' = FALSE
    /\ timedOut' = TRUE
    /\ chipFrozen' = TRUE
    /\ UNCHANGED <<txLock, hots, repeats>>

CoolUnlock ==
    /\ timedOut
    /\ timedOut' = FALSE
    /\ txLock' = txLock - 1
    /\ UNCHANGED <<chipFrozen, cooling, hots, repeats>>

CoolingNext == Hot \/ Cool \/ CoolTimeout \/ CoolUnlock

\* What the chip's heat adds to tx_lock.
CoolingHolds == B2N(cooling) + B2N(timedOut) + repeats
=============================================================================
