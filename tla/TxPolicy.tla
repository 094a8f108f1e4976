------------------------------ MODULE TxPolicy ------------------------------
(***************************************************************************)
(* The retry policies of one interface (data_tx.c).  A data frame names the*)
(* set of rates it wants by the index of an entry of tx_policy_cache, which*)
(* has HIF_TX_RETRY_POLICY_MAX entries; an entry counts the frames that    *)
(* hold it and may be given other rates when none does.  wfx_tx takes the  *)
(* entry under the cache's spinlock, but the chip learns its rates later,  *)
(* from a work item; tx_lock keeps the frames in the driver until then.    *)
(* mac80211's queues are stopped while every entry is held.                *)
(*                                                                         *)
(* A frame stands for itself and, while wfx_tx handles it, for the thread  *)
(* that executes wfx_tx.  `free' and `used' are one set: the order of the  *)
(* free list only tells which of the free entries is recycled, and here any*)
(* of them may be.  A rate set is a value; building it from mac80211's     *)
(* table is left out.  The confirmation stands for every way a frame sent  *)
(* to the chip ends (wfx_tx_confirm_cb, wfx_pending_drop).  `failed' is a  *)
(* history: no step of the code depends on it.                             *)
(***************************************************************************)
EXTENDS Integers, FiniteSets

CONSTANTS
    Frames,         \* frames (struct sk_buff); a finished one is used again
    Rates,          \* the sets of rates mac80211 may ask for
    Policies,       \* indexes of tx_policy_cache.cache
    NoRates,        \* an entry after memset: no rate
    Invalid,        \* HIF_TX_RETRY_POLICY_INVALID
    MaxSenders      \* bound: calls of wfx_tx at the same time

ASSUME PolicyAssumption ==
    /\ IsFiniteSet(Frames)
    /\ NoRates \notin Rates
    /\ Policies # {} /\ Invalid \notin Policies
    /\ MaxSenders \in Nat \ {0}

VARIABLES
    stage,          \* where each frame is
    want,           \* the rates it wants
    policy,         \* its retry_policy_index
    rates, uploaded, usage,     \* the fields of the entries
    used,           \* entries on the list `used'; the others are on `free'
    stopped,        \* mac80211's queues are stopped
    txLock,         \* tx_lock
    workPending,    \* tx_policy_upload_work is queued
    workPc, workPolicy, workRates,  \* the running work item: i, tmp_rates
    chipRates,      \* the policies the chip knows
    failed,         \* entries whose rates were sent in vain, and never again
    resetPc         \* where wfx_reset is

frameVars == <<stage, want, policy>>
cacheVars == <<rates, uploaded, usage, used>>
workVars  == <<workPending, workPc, workPolicy, workRates>>
chipVars  == <<chipRates, failed>>
vars == <<frameVars, cacheVars, stopped, txLock, workVars, chipVars, resetPc>>

\* The stages inside wfx_tx, and those where the frame holds its policy.
Calling == {"get", "lock", "schedule", "unlock", "put"}
Holding == {"lock", "schedule", "unlock", "put", "queued", "chip"}

\* Type correctness of every variable.
TypeOK ==
    /\ stage \in [Frames -> {"away"} \cup Calling \cup Holding]
    /\ want \in [Frames -> Rates \cup {NoRates}]
    /\ policy \in [Frames -> Policies \cup {Invalid}]
    /\ rates \in [Policies -> Rates \cup {NoRates}]
    /\ uploaded \in [Policies -> BOOLEAN]
    /\ usage \in [Policies -> Nat]
    /\ used \in SUBSET Policies
    /\ stopped \in BOOLEAN
    /\ txLock \in Nat
    /\ workPending \in BOOLEAN
    /\ workPc \in {"idle", "scan", "send", "unlock"}
    /\ workPolicy \in Policies \cup {Invalid}
    /\ workRates \in Rates \cup {NoRates}
    /\ chipRates \in [Policies -> Rates \cup {NoRates}]
    /\ failed \in SUBSET Policies
    /\ resetPc \in {"idle", "chip", "init", "unlock"}

Init ==
    /\ stage = [f \in Frames |-> "away"]
    /\ want = [f \in Frames |-> NoRates]
    /\ policy = [f \in Frames |-> Invalid]
    /\ rates = [i \in Policies |-> NoRates]
    /\ uploaded = [i \in Policies |-> FALSE]
    /\ usage = [i \in Policies |-> 0]
    /\ used = {}
    /\ stopped = FALSE
    /\ txLock = 0
    /\ workPending = FALSE
    /\ workPc = "idle" /\ workPolicy = Invalid /\ workRates = NoRates
    /\ chipRates = [i \in Policies |-> NoRates] /\ failed = {}
    /\ resetPc = "idle"

-----------------------------------------------------------------------------
(* wfx_tx *)

Goto(f, s) == stage' = [stage EXCEPT ![f] = s]
At(f, s)   == stage[f] = s

\* mac80211 calls wfx_tx.  It does so for several frames at a time, and a
\* call that has started is not stopped by ieee80211_stop_queues.
Start(f, r) ==
    /\ At(f, "away")
    /\ ~stopped
    /\ resetPc = "idle"
    /\ Cardinality({g \in Frames : stage[g] \in Calling}) < MaxSenders
    /\ want' = [want EXCEPT ![f] = r]
    /\ Goto(f, "get")
    /\ UNCHANGED <<policy, cacheVars, stopped, txLock, workVars, chipVars,
                   resetPc>>

Known(r) == {i \in Policies : rates[i] = r}

\* wfx_tx_policy_use, and the test at the end of wfx_tx_policy_get.
Use(f, i, count) ==
    /\ usage' = [usage EXCEPT ![i] = count + 1]
    /\ used' = used \cup {i}
    /\ policy' = [policy EXCEPT ![f] = i]
    /\ stopped' = (stopped \/ used \cup {i} = Policies)

\* wfx_tx_policy_get: "unable to get a valid Tx policy".
GetNone(f) ==
    /\ At(f, "get")
    /\ used = Policies
    /\ Goto(f, "put")
    /\ UNCHANGED <<want, policy, cacheVars, stopped, txLock, workVars,
                   chipVars, resetPc>>

\* wfx_tx_policy_get: an entry, held or free, already has these rates.
GetKnown(f) ==
    /\ At(f, "get")
    /\ used # Policies
    /\ \E i \in Known(want[f]) : Use(f, i, usage[i])
    /\ Goto(f, "put")
    /\ UNCHANGED <<want, rates, uploaded, txLock, workVars, chipVars,
                   resetPc>>

\* Mutant of GetNew: the entry is still marked as uploaded.
GetNewUploaded(f) ==
    /\ At(f, "get")
    /\ used # Policies
    /\ Known(want[f]) = {}
    /\ \E i \in Policies \ used :
          /\ rates' = [rates EXCEPT ![i] = want[f]]
          /\ failed' = failed \ {i}
          /\ Use(f, i, 0)
    /\ Goto(f, "lock")
    /\ UNCHANGED <<want, uploaded, txLock, workVars, chipRates, resetPc>>

\* Mutant of GetNew: any entry is recycled, a held one too.
GetNewHeld(f) ==
    /\ At(f, "get")
    /\ used # Policies
    /\ Known(want[f]) = {}
    /\ \E i \in Policies :
          /\ rates' = [rates EXCEPT ![i] = want[f]]
          /\ uploaded' = [uploaded EXCEPT ![i] = FALSE]
          /\ failed' = failed \ {i}
          /\ Use(f, i, usage[i])
    /\ Goto(f, "lock")
    /\ UNCHANGED <<want, txLock, workVars, chipRates, resetPc>>

\* wfx_tx_policy_get: a free entry is given these rates.
GetNew(f) ==
    /\ At(f, "get")
    /\ used # Policies
    /\ Known(want[f]) = {}
    /\ \E i \in Policies \ used :
          /\ rates' = [rates EXCEPT ![i] = want[f]]
          /\ uploaded' = [uploaded EXCEPT ![i] = FALSE]
          /\ failed' = failed \ {i}
          /\ Use(f, i, 0)
    /\ Goto(f, "lock")
    /\ UNCHANGED <<want, txLock, workVars, chipRates, resetPc>>

\* wfx_tx_get_rate_id: wfx_tx_lock.
LockTx(f) ==
    /\ At(f, "lock")
    /\ txLock' = txLock + 1
    /\ Goto(f, "schedule")
    /\ UNCHANGED <<want, policy, cacheVars, stopped, workVars, chipVars,
                   resetPc>>

\* Mutant of Schedule: the result of schedule_work is ignored.
ScheduleIgnored(f) ==
    /\ At(f, "schedule")
    /\ workPending' = TRUE
    /\ Goto(f, "put")
    /\ UNCHANGED <<want, policy, cacheVars, stopped, txLock, workPc,
                   workPolicy, workRates, chipVars, resetPc>>

\* schedule_work: nothing to do when the work is already queued; a work that
\* runs is queued once more.
Schedule(f) ==
    /\ At(f, "schedule")
    /\ workPending' = TRUE
    /\ Goto(f, IF workPending THEN "unlock" ELSE "put")
    /\ UNCHANGED <<want, policy, cacheVars, stopped, txLock, workPc,
                   workPolicy, workRates, chipVars, resetPc>>

UnlockTx(f) ==
    /\ At(f, "unlock")
    /\ txLock' = txLock - 1
    /\ Goto(f, "put")
    /\ UNCHANGED <<want, policy, cacheVars, stopped, workVars, chipVars,
                   resetPc>>

\* wfx_tx_queues_put.
PutInQueue(f) ==
    /\ At(f, "put")
    /\ Goto(f, "queued")
    /\ UNCHANGED <<want, policy, cacheVars, stopped, txLock, workVars,
                   chipVars, resetPc>>

-----------------------------------------------------------------------------
(* The end of a frame *)

\* The bottom half sends a frame: wfx_tx_queues_get, refused by tx_lock.
Send(f) ==
    /\ At(f, "queued")
    /\ txLock = 0
    /\ Goto(f, "chip")
    /\ UNCHANGED <<want, policy, cacheVars, stopped, txLock, workVars,
                   chipVars, resetPc>>

\* Mutant of PolicyPut: the queues are not woken.
PolicyPutSleeps(i) ==
    IF i = Invalid
      THEN UNCHANGED <<usage, used, stopped>>
      ELSE /\ usage' = [usage EXCEPT ![i] = @ - 1]
           /\ used' = IF usage[i] = 1 THEN used \ {i} ELSE used
           /\ UNCHANGED stopped

\* wfx_tx_policy_put and wfx_tx_policy_release.
PolicyPut(i) ==
    IF i = Invalid
      THEN UNCHANGED <<usage, used, stopped>>
      ELSE /\ usage' = [usage EXCEPT ![i] = @ - 1]
           /\ used' = IF usage[i] = 1 THEN used \ {i} ELSE used
           /\ stopped' = (stopped /\ ~(used = Policies /\ usage[i] = 1))

\* The skb goes back to mac80211.
Finish(f) ==
    /\ Goto(f, "away")
    /\ want' = [want EXCEPT ![f] = NoRates]
    /\ policy' = [policy EXCEPT ![f] = Invalid]

\* Mutant of Dropped: the frame keeps its policy.
DroppedForgets(f) ==
    /\ At(f, "queued")
    /\ Finish(f)
    /\ UNCHANGED <<cacheVars, stopped, txLock, workVars, chipVars, resetPc>>

\* wfx_flush drops a frame that is still queued: wfx_skb_dtor.
Dropped(f) ==
    /\ At(f, "queued")
    /\ PolicyPut(policy[f])
    /\ Finish(f)
    /\ UNCHANGED <<rates, uploaded, txLock, workVars, chipVars, resetPc>>

\* wfx_tx_confirm_cb: wfx_skb_dtor.
Confirmed(f) ==
    /\ At(f, "chip")
    /\ PolicyPut(policy[f])
    /\ Finish(f)
    /\ UNCHANGED <<rates, uploaded, txLock, workVars, chipVars, resetPc>>

-----------------------------------------------------------------------------
(* wfx_tx_policy_upload_work *)

WorkStart ==
    /\ workPc = "idle"
    /\ workPending
    /\ workPending' = FALSE
    /\ workPc' = "scan"
    /\ UNCHANGED <<frameVars, cacheVars, stopped, txLock, workPolicy,
                   workRates, chipVars, resetPc>>

ToUpload == {i \in Policies : ~uploaded[i] /\ rates[i] # NoRates}

\* One iteration of wfx_tx_policy_upload, under the spinlock: it takes an
\* entry to upload.  The code takes the first one; here any of them.
WorkTake ==
    /\ workPc = "scan"
    /\ \E i \in ToUpload :
          /\ uploaded' = [uploaded EXCEPT ![i] = TRUE]
          /\ workPolicy' = i
          /\ workRates' = rates[i]
    /\ workPc' = "send"
    /\ UNCHANGED <<frameVars, rates, usage, used, stopped, txLock,
                   workPending, chipVars, resetPc>>

\* hif_set_tx_rate_retry_policy, without the spinlock.  Its result is ignored:
\* a chip that took the rates although the command timed out is no different.
WorkSend ==
    /\ workPc = "send"
    /\ chipRates' = [chipRates EXCEPT ![workPolicy] = workRates]
    /\ workPc' = "scan" /\ workPolicy' = Invalid /\ workRates' = NoRates
    /\ UNCHANGED <<frameVars, cacheVars, stopped, txLock, workPending, failed,
                   resetPc>>

\* The command fails and the chip does not have the rates; the entry stays
\* marked as uploaded (`failed' remembers it), unless it was given other rates
\* or reset meanwhile.
WorkSendFails ==
    /\ workPc = "send"
    /\ failed' = failed \cup {i \in {workPolicy} : uploaded[i]}
    /\ workPc' = "scan" /\ workPolicy' = Invalid /\ workRates' = NoRates
    /\ UNCHANGED <<frameVars, cacheVars, stopped, txLock, workPending,
                   chipRates, resetPc>>

WorkDone ==
    /\ workPc = "scan"
    /\ ToUpload = {}
    /\ workPc' = "unlock"
    /\ UNCHANGED <<frameVars, cacheVars, stopped, txLock, workPending,
                   workPolicy, workRates, chipVars, resetPc>>

WorkUnlock ==
    /\ workPc = "unlock"
    /\ txLock' = txLock - 1
    /\ workPc' = "idle"
    /\ UNCHANGED <<frameVars, cacheVars, stopped, workPending, workPolicy,
                   workRates, chipVars, resetPc>>

-----------------------------------------------------------------------------
(* wfx_reset *)

\* mac80211 has stopped to use the interface and has flushed its frames.
ResetStart ==
    /\ resetPc = "idle"
    /\ \A f \in Frames : At(f, "away")
    /\ txLock' = txLock + 1
    /\ resetPc' = "chip"
    /\ UNCHANGED <<frameVars, cacheVars, stopped, workVars, chipVars>>

\* hif_reset: the chip forgets the policies, if it succeeds.
ResetChip ==
    /\ resetPc = "chip"
    /\ chipRates' \in {chipRates, [i \in Policies |-> NoRates]}
    /\ resetPc' = "init"
    /\ UNCHANGED <<frameVars, cacheVars, stopped, txLock, workVars, failed>>

\* wfx_tx_policy_init; nothing stops an upload that runs at this time.
ResetInit ==
    /\ resetPc = "init"
    /\ rates' = [i \in Policies |-> NoRates]
    /\ uploaded' = [i \in Policies |-> FALSE]
    /\ usage' = [i \in Policies |-> 0]
    /\ used' = {} /\ failed' = {}
    /\ resetPc' = "unlock"
    /\ UNCHANGED <<frameVars, stopped, txLock, workVars, chipRates>>

ResetUnlock ==
    /\ resetPc = "unlock"
    /\ txLock' = txLock - 1
    /\ resetPc' = "idle"
    /\ UNCHANGED <<frameVars, cacheVars, stopped, workVars, chipVars>>

-----------------------------------------------------------------------------
(* Specification *)

\* What the thread in wfx_tx does with the frame.
Handle(f) ==
    \/ GetNone(f) \/ GetKnown(f) \/ GetNew(f)
    \/ LockTx(f) \/ Schedule(f) \/ UnlockTx(f) \/ PutInQueue(f)

Work  == WorkStart \/ WorkTake \/ WorkSend \/ WorkSendFails \/ WorkDone
            \/ WorkUnlock
Reset == ResetStart \/ ResetChip \/ ResetInit \/ ResetUnlock

Next ==
    \/ \E f \in Frames :
          \/ \E r \in Rates : Start(f, r)
          \/ Handle(f) \/ Send(f) \/ Dropped(f) \/ Confirmed(f)
    \/ Work
    \/ Reset

Spec == Init /\ [][Next]_vars

\* Threads and the work item run; the bottom half sends what it may; the
\* chip confirms every frame.
Fairness ==
    /\ \A f \in Frames :
          WF_vars(Handle(f)) /\ WF_vars(Send(f)) /\ WF_vars(Confirmed(f))
    /\ WF_vars(Work)

FairSpec == Spec /\ Fairness

-----------------------------------------------------------------------------
(* Properties *)

Holders(i) == {f \in Frames : stage[f] \in Holding /\ policy[f] = i}

\* usage_count is the number of frames that hold the entry, and the entry is
\* on the list `used' exactly while it is not zero.
UsageExact ==
    \A i \in Policies :
        /\ usage[i] = Cardinality(Holders(i))
        /\ i \in used <=> usage[i] > 0

\* An entry keeps the rates its frames want as long as one of them holds it.
HeldKeepsRates ==
    \A f \in Frames :
        (stage[f] \in Holding /\ policy[f] # Invalid) =>
            rates[policy[f]] = want[f]

\* mac80211's queues are stopped exactly while no entry is free.
StoppedWhenFull == stopped <=> used = Policies

\* The threads between wfx_tx_lock and what gives the lock back.
Locking == {f \in Frames : stage[f] \in {"schedule", "unlock"}}

Count(b) == IF b THEN 1 ELSE 0

\* Every wfx_tx_lock has its wfx_tx_unlock to come: the lock count is the
\* number of threads, runs of the work item and resets that will unlock.
TxLockBalanced ==
    txLock = Cardinality(Locking) + Count(workPending)
             + Count(workPc # "idle") + Count(resetPc # "idle")

\* A frame goes to the chip after the rates of its policy.  There are two
\* exceptions: a thread that gave the entry its rates has not locked tx yet,
\* and the frame of another thread that wants the same rates overtakes it; or
\* the command with these rates failed, and nobody repeats it.
SentAfterItsRates ==
    [][\A f \in Frames :
          (stage[f] = "queued" /\ stage'[f] = "chip" /\ policy[f] # Invalid) =>
              \/ chipRates[policy[f]] = want[f]
              \/ policy[f] \in failed
              \/ \E g \in Frames : g # f /\ stage[g] = "lock"
                                         /\ policy[g] = policy[f]]_vars

\* Stopped queues are woken.
WokenAgain == stopped ~> ~stopped

\* The WARN of wfx_tx_policy_get: a frame always gets a policy, because the
\* queues are stopped with the last one.
AlwaysAPolicy ==
    \A f \in Frames : stage[f] \in Holding => policy[f] # Invalid
=============================================================================
