--------------------------- MODULE TxPolicyProofs ---------------------------
(***************************************************************************)
(* Theorems about TxPolicy, for any number of frames, concurrent calls of  *)
(* wfx_tx, sets of rates and cache entries, and about RateFixup, for every *)
(* list of rates.                                                          *)
(***************************************************************************)
EXTENDS TxPolicyRates, FiniteSetTheorems, TLAPS

-----------------------------------------------------------------------------
(* The inductive invariant *)

\* A frame has rates while wfx_tx or the chip has it, and no policy before
\* wfx_tx_policy_get; no frame is around during a reset; the work item that
\* sends has an entry to send.
Stages ==
    /\ \A f \in Frames :
          /\ stage[f] # "away" => want[f] \in Rates
          /\ stage[f] \in {"away", "get"} => policy[f] = Invalid
    /\ resetPc # "idle" => \A f \in Frames : stage[f] = "away"
    /\ workPc = "send" => workPolicy \in Policies

\* An entry marked as uploaded is at the chip, or the work item is sending
\* it, or it was sent in vain.  An entry that is not marked will be: the work item is on its way, or
\* the thread that gave it its rates will schedule it.
Uploads ==
    /\ resetPc # "init" =>
         \A i \in Policies :
            uploaded[i] => \/ chipRates[i] = rates[i]
                           \/ i \in failed
                           \/ workPc = "send" /\ workPolicy = i
    /\ \A i \in Policies :
          (uploaded[i] /\ workPc = "send" /\ workPolicy = i)
             => workRates = rates[i]
    /\ \A i \in Policies :
          (~uploaded[i] /\ rates[i] # NoRates) =>
             \/ workPending
             \/ workPc \in {"scan", "send"}
             \/ \E g \in Frames : stage[g] = "schedule"
             \/ \E g \in Frames : stage[g] = "lock" /\ policy[g] = i

Inv ==
    /\ TypeOK /\ Stages
    /\ UsageExact /\ HeldKeepsRates /\ StoppedWhenFull
    /\ TxLockBalanced
    /\ Uploads

-----------------------------------------------------------------------------
(* Counting frames *)

\* A frame that takes the entry i is one more holder of i, and of no other.
LEMMA HoldersGain ==
  ASSUME TypeOK, NEW f \in Frames, NEW i \in Policies, NEW s \in Holding,
         stage[f] \notin Holding,
         stage' = [stage EXCEPT ![f] = s], policy' = [policy EXCEPT ![f] = i]
  PROVE  \A j \in Policies :
            Cardinality(Holders(j)') =
              IF j = i THEN Cardinality(Holders(j)) + 1
                       ELSE Cardinality(Holders(j))
<1>. TAKE j \in Policies
<1>1. IsFiniteSet(Holders(j))
  BY FS_Subset, PolicyAssumption DEF Holders
<1>2. CASE j = i
  <2>1. Holders(j)' = Holders(j) \cup {f} /\ f \notin Holders(j)
    BY <1>2 DEF Holders, TypeOK
  <2>. QED  BY <1>1, <1>2, <2>1, FS_AddElement
<1>3. CASE j # i
  <2>1. Holders(j)' = Holders(j)
    BY <1>3 DEF Holders, TypeOK
  <2>. QED  BY <1>3, <2>1
<1>. QED  BY <1>2, <1>3

\* A frame that ends is one holder less of its entry.
LEMMA HoldersLose ==
  ASSUME TypeOK, NEW f \in Frames, stage[f] \in Holding, Finish(f)
  PROVE  \A j \in Policies :
            Cardinality(Holders(j)') =
              IF j = policy[f] THEN Cardinality(Holders(j)) - 1
                               ELSE Cardinality(Holders(j))
<1>. TAKE j \in Policies
<1>1. IsFiniteSet(Holders(j))
  BY FS_Subset, PolicyAssumption DEF Holders
<1>2. CASE j = policy[f]
  <2>1. Holders(j)' = Holders(j) \ {f} /\ f \in Holders(j)
    BY <1>2, PolicyAssumption DEF Holders, TypeOK, Finish, Goto, Holding
  <2>. QED  BY <1>1, <1>2, <2>1, FS_RemoveElement
<1>3. CASE j # policy[f]
  <2>1. Holders(j)' = Holders(j)
    BY <1>3, PolicyAssumption DEF Holders, TypeOK, Finish, Goto, Holding
  <2>. QED  BY <1>3, <2>1
<1>. QED  BY <1>2, <1>3

\* A frame that stays on the same side keeps every count.
LEMMA HoldersSame ==
  ASSUME TypeOK, NEW f \in Frames, NEW s, UNCHANGED policy,
         stage' = [stage EXCEPT ![f] = s],
         \/ stage[f] \in Holding /\ s \in Holding
         \/ policy[f] = Invalid
  PROVE  \A j \in Policies : Holders(j)' = Holders(j)
BY PolicyAssumption DEF Holders, TypeOK

\* The counts are natural numbers, and the count of a held entry positive.
LEMMA HoldersCount ==
  /\ \A i \in Policies : Cardinality(Holders(i)) \in Nat
  /\ \A i \in Policies : \A f \in Holders(i) : Cardinality(Holders(i)) > 0
  /\ Cardinality(Locking) \in Nat
  /\ \A f \in Locking : Cardinality(Locking) > 0
<1>1. IsFiniteSet(Locking) /\ \A i \in Policies : IsFiniteSet(Holders(i))
  BY FS_Subset, PolicyAssumption DEF Holders, Locking
<1>2. ASSUME NEW S, IsFiniteSet(S)
      PROVE  Cardinality(S) \in Nat /\ \A x \in S : Cardinality(S) > 0
  BY <1>2, FS_CardinalityType, FS_EmptySet
<1>. QED  BY <1>1, <1>2

\* The entry a frame holds is in use.
LEMMA HeldInUse ==
  ASSUME TypeOK, UsageExact,
         NEW f \in Frames, stage[f] \in Holding, policy[f] # Invalid
  PROVE  policy[f] \in Policies /\ usage[policy[f]] > 0 /\ policy[f] \in used
<1>1. policy[f] \in Policies
  BY DEF TypeOK
<1>2. f \in Holders(policy[f])
  BY DEF Holders
<1>3. Cardinality(Holders(policy[f])) > 0
  BY <1>1, <1>2, HoldersCount
<1>. QED  BY <1>1, <1>3 DEF UsageExact

-----------------------------------------------------------------------------
(* Every step keeps the invariant *)

\* The types, and what each stage implies.
LEMMA TypeNext ==
  ASSUME Inv, [Next]_vars
  PROVE  TypeOK' /\ Stages'
<1>. USE PolicyAssumption
       DEF vars, frameVars, cacheVars, workVars, chipVars, Inv, TypeOK, Stages, Calling,
           Holding, Goto, At
<1>1. CASE \E f \in Frames, r \in Rates : Start(f, r)
  BY <1>1 DEF Start
<1>2. CASE \E f \in Frames : Handle(f)
  <2>. PICK f \in Frames : Handle(f)  BY <1>2
  <2>1. CASE GetNone(f)
    BY <2>1 DEF GetNone
  <2>2. CASE GetKnown(f)
    BY <2>2 DEF GetKnown, Use, Known
  <2>3. CASE GetNew(f)
    BY <2>3 DEF GetNew, Use
  <2>4. CASE LockTx(f)
    BY <2>4 DEF LockTx
  <2>5. CASE Schedule(f)
    BY <2>5 DEF Schedule
  <2>6. CASE UnlockTx(f)
    <3>1. txLock' \in Nat
      BY <2>6, HoldersCount DEF UnlockTx, TxLockBalanced, Locking, Count
    <3>. QED  BY <2>6, <3>1 DEF UnlockTx
  <2>7. CASE PutInQueue(f)
    BY <2>7 DEF PutInQueue
  <2>. QED  BY <2>1, <2>2, <2>3, <2>4, <2>5, <2>6, <2>7 DEF Handle
<1>3. CASE \E f \in Frames : Send(f)
  BY <1>3 DEF Send
<1>4. CASE \E f \in Frames : Dropped(f) \/ Confirmed(f)
  <2>. PICK f \in Frames : Dropped(f) \/ Confirmed(f)  BY <1>4
  <2>1. PolicyPut(policy[f]) /\ Finish(f) /\ stage[f] \in Holding
    BY DEF Dropped, Confirmed
  <2>2. policy[f] # Invalid => usage[policy[f]] > 0
    BY <2>1, HeldInUse
  <2>3. usage' \in [Policies -> Nat] /\ used' \in SUBSET Policies
    BY <2>1, <2>2 DEF PolicyPut
  <2>4. stopped' \in BOOLEAN
    BY <2>1 DEF PolicyPut
  <2>5. UNCHANGED <<rates, uploaded, txLock, workVars, chipVars, resetPc>>
    BY DEF Dropped, Confirmed
  <2>. QED  BY <2>1, <2>3, <2>4, <2>5 DEF Finish
<1>5. CASE Work
  <2>1. CASE WorkStart
    BY <2>1 DEF WorkStart
  <2>2. CASE WorkTake
    BY <2>2 DEF WorkTake, ToUpload
  <2>3. CASE WorkSend
    BY <2>3 DEF WorkSend
  <2>6. CASE WorkSendFails
    BY <2>6 DEF WorkSendFails
  <2>4. CASE WorkDone
    BY <2>4 DEF WorkDone
  <2>5. CASE WorkUnlock
    <3>1. txLock' \in Nat
      BY <2>5, HoldersCount DEF WorkUnlock, TxLockBalanced, Count
    <3>. QED  BY <2>5, <3>1 DEF WorkUnlock
  <2>. QED  BY <1>5, <2>1, <2>2, <2>3, <2>4, <2>5, <2>6 DEF Work
<1>6. CASE Reset
  <2>1. CASE ResetStart
    BY <2>1 DEF ResetStart
  <2>2. CASE ResetChip
    BY <2>2 DEF ResetChip
  <2>3. CASE ResetInit
    BY <2>3 DEF ResetInit
  <2>4. CASE ResetUnlock
    <3>1. txLock' \in Nat
      BY <2>4, HoldersCount DEF ResetUnlock, TxLockBalanced, Count
    <3>. QED  BY <2>4, <3>1 DEF ResetUnlock
  <2>. QED  BY <1>6, <2>1, <2>2, <2>3, <2>4 DEF Reset
<1>7. CASE UNCHANGED vars
  BY <1>7
<1>. QED  BY <1>1, <1>2, <1>3, <1>4, <1>5, <1>6, <1>7 DEF Next

\* The counts, the rates of the held entries, and the stopped queues.
LEMMA UsageNext ==
  ASSUME Inv, [Next]_vars
  PROVE  UsageExact' /\ HeldKeepsRates' /\ StoppedWhenFull'
<1>. USE PolicyAssumption
       DEF Inv, UsageExact, HeldKeepsRates, StoppedWhenFull
<1>. DEFINE Cache == <<rates, usage, used, stopped>>
\* A step of one frame that leaves the cache alone.
<1>1. ASSUME NEW f \in Frames, NEW s, UNCHANGED <<policy, Cache>>,
             stage' = [stage EXCEPT ![f] = s],
             \/ stage[f] \in Holding /\ s \in Holding /\ UNCHANGED want
             \/ policy[f] = Invalid /\ \E r : want' = [want EXCEPT ![f] = r]
      PROVE  UsageExact' /\ HeldKeepsRates' /\ StoppedWhenFull'
  <2>1. \A j \in Policies : Holders(j)' = Holders(j)
    BY <1>1, HoldersSame
  <2>2. HeldKeepsRates'
    BY <1>1 DEF TypeOK
  <2>. QED  BY <1>1, <2>1, <2>2
<1>2. CASE \E f \in Frames, r \in Rates : Start(f, r)
  <2>. PICK f \in Frames, r \in Rates : Start(f, r)  BY <1>2
  <2>1. /\ stage' = [stage EXCEPT ![f] = "get"] /\ policy[f] = Invalid
        /\ want' = [want EXCEPT ![f] = r] /\ UNCHANGED <<policy, Cache>>
    BY DEF Start, Goto, At, Stages, cacheVars
  <2>. QED  BY <1>1, <2>1
<1>3. ASSUME NEW f \in Frames, GetNone(f)
      PROVE  UsageExact' /\ HeldKeepsRates' /\ StoppedWhenFull'
  <2>1. /\ stage' = [stage EXCEPT ![f] = "put"] /\ policy[f] = Invalid
        /\ want' = [want EXCEPT ![f] = want[f]] /\ UNCHANGED <<policy, Cache>>
    BY <1>3 DEF GetNone, Goto, At, Stages, cacheVars, TypeOK
  <2>. QED  BY <1>1, <2>1
\* A frame takes an entry that is free or has its rates.
<1>4. ASSUME NEW f \in Frames, NEW i \in Policies, NEW s \in Holding,
             At(f, "get"), Goto(f, s), Use(f, i, usage[i]), UNCHANGED want,
             rates' = [rates EXCEPT ![i] = want[f]],
             i \notin used \/ UNCHANGED rates
      PROVE  UsageExact' /\ HeldKeepsRates' /\ StoppedWhenFull'
  <2>1. \A j \in Policies :
           Cardinality(Holders(j)') = IF j = i THEN Cardinality(Holders(j)) + 1
                                              ELSE Cardinality(Holders(j))
    BY <1>4, HoldersGain DEF Use, At, Goto, Holding
  <2>2. UsageExact'
    BY <1>4, <2>1, HoldersCount DEF Use, TypeOK
  <2>3. ASSUME NEW g \in Frames, stage'[g] \in Holding, policy'[g] # Invalid
        PROVE  rates'[policy'[g]] = want'[g]
    <3>1. CASE g = f
      BY <1>4, <3>1 DEF Use, TypeOK
    <3>2. CASE g # f
      <4>1. /\ stage[g] \in Holding /\ policy'[g] = policy[g]
            /\ policy[g] \in Policies
        BY <1>4, <2>3, <3>2 DEF Use, Goto, TypeOK
      <4>2. policy[g] \in used
        BY <2>3, <4>1, HeldInUse
      <4>. QED  BY <1>4, <4>1, <4>2 DEF TypeOK
    <3>. QED  BY <3>1, <3>2
  <2>4. StoppedWhenFull'
    <3>1. used' = used \cup {i} /\ (stopped' <=> stopped \/ used' = Policies)
      BY <1>4 DEF Use
    <3>2. stopped => used' = Policies
      BY <3>1
    <3>. QED  BY <3>1, <3>2
  <2>. QED  BY <2>2, <2>3, <2>4
<1>5. ASSUME NEW f \in Frames, GetKnown(f)
      PROVE  UsageExact' /\ HeldKeepsRates' /\ StoppedWhenFull'
  <2>. PICK i \in Known(want[f]) : Use(f, i, usage[i])  BY <1>5 DEF GetKnown
  <2>1. i \in Policies /\ rates' = [rates EXCEPT ![i] = want[f]]
    BY <1>5 DEF GetKnown, Known, TypeOK
  <2>2. At(f, "get") /\ Goto(f, "put") /\ UNCHANGED <<want, rates>>
    BY <1>5 DEF GetKnown
  <2>. QED  BY <1>4, <2>1, <2>2 DEF Holding
<1>6. ASSUME NEW f \in Frames, GetNew(f)
      PROVE  UsageExact' /\ HeldKeepsRates' /\ StoppedWhenFull'
  <2>. PICK i \in Policies \ used :
          rates' = [rates EXCEPT ![i] = want[f]] /\ Use(f, i, 0)
    BY <1>6 DEF GetNew
  <2>1. usage[i] = 0
    BY HoldersCount DEF TypeOK
  <2>2. At(f, "get") /\ Goto(f, "lock") /\ UNCHANGED want
    BY <1>6 DEF GetNew
  <2>. QED  BY <1>4, <2>1, <2>2 DEF Holding
<1>7. ASSUME NEW f \in Frames,
             \/ LockTx(f) \/ Schedule(f) \/ UnlockTx(f) \/ PutInQueue(f)
             \/ Send(f)
      PROVE  UsageExact' /\ HeldKeepsRates' /\ StoppedWhenFull'
  <2>1. \E s \in Holding : stage' = [stage EXCEPT ![f] = s]
    BY <1>7 DEF LockTx, Schedule, UnlockTx, PutInQueue, Send, Goto, Holding
  <2>2. stage[f] \in Holding /\ UNCHANGED <<want, policy, Cache>>
    BY <1>7 DEF LockTx, Schedule, UnlockTx, PutInQueue, Send, At, Holding,
                cacheVars
  <2>. QED  BY <1>1, <2>1, <2>2
<1>8. ASSUME NEW f \in Frames, Dropped(f) \/ Confirmed(f)
      PROVE  UsageExact' /\ HeldKeepsRates' /\ StoppedWhenFull'
  <2>1. /\ PolicyPut(policy[f]) /\ Finish(f) /\ stage[f] \in Holding
        /\ UNCHANGED rates
    BY <1>8 DEF Dropped, Confirmed, At, Holding
  <2>2. HeldKeepsRates'
    BY <2>1 DEF Finish, Goto, Holding, TypeOK
  <2>3. CASE policy[f] = Invalid
    <3>1. \A j \in Policies : Cardinality(Holders(j)') = Cardinality(Holders(j))
      BY <2>1, <2>3, HoldersLose
    <3>. QED  BY <2>1, <2>2, <2>3, <3>1 DEF PolicyPut
  <2>4. CASE policy[f] # Invalid
    <3>. DEFINE i == policy[f]
    <3>1. i \in Policies /\ usage[i] > 0
      BY <2>1, <2>4, HeldInUse
    <3>2. \A j \in Policies :
             Cardinality(Holders(j)') = IF j = i THEN Cardinality(Holders(j)) - 1
                                                ELSE Cardinality(Holders(j))
      BY <2>1, HoldersLose
    <3>3. /\ usage' = [usage EXCEPT ![i] = @ - 1]
          /\ used' = IF usage[i] = 1 THEN used \ {i} ELSE used
          /\ stopped' = (stopped /\ ~(used = Policies /\ usage[i] = 1))
      BY <2>1, <2>4 DEF PolicyPut
    <3>. HIDE DEF i
    <3>4. UsageExact'
      BY <3>1, <3>2, <3>3, HoldersCount DEF TypeOK
    <3>5. StoppedWhenFull'
      BY <3>1, <3>3 DEF TypeOK
    <3>. QED  BY <2>2, <3>4, <3>5
  <2>. QED  BY <2>3, <2>4
<1>9. CASE UNCHANGED <<frameVars, rates, usage, used, stopped>>
  BY <1>9 DEF frameVars, Holders
<1>10. CASE ResetInit
  <2>1. \A f \in Frames : stage[f] = "away"
    BY <1>10 DEF ResetInit, Stages
  <2>2. \A i \in Policies : Holders(i) = {} /\ Holders(i)' = {}
    BY <1>10, <2>1 DEF ResetInit, frameVars, Holders, Holding
  <2>3. \A i \in Policies : usage[i] = 0
    BY <2>2, FS_EmptySet
  <2>4. ~stopped /\ ~stopped'
    BY <1>10, <2>3 DEF ResetInit, TypeOK
  <2>5. UsageExact'
    <3>1. used' = {} /\ \A i \in Policies : usage'[i] = 0
      BY <1>10, <2>3 DEF ResetInit, TypeOK
    <3>2. \A i \in Policies : Cardinality(Holders(i)') = 0
      BY <2>2, FS_EmptySet
    <3>. QED  BY <3>1, <3>2
  <2>6. HeldKeepsRates'
    BY <1>10, <2>1 DEF ResetInit, frameVars, Holding
  <2>7. StoppedWhenFull'
    BY <1>10, <2>4 DEF ResetInit
  <2>. QED  BY <2>5, <2>6, <2>7
<1>11. CASE Work \/ ResetStart \/ ResetChip \/ ResetUnlock \/ UNCHANGED vars
  BY <1>9, <1>11 DEF Work, WorkStart, WorkTake, WorkSend, WorkSendFails, WorkDone,
     WorkUnlock,
     ResetStart, ResetChip, ResetUnlock, vars, cacheVars
<1>. QED
  BY <1>2, <1>3, <1>5, <1>6, <1>7, <1>8, <1>10, <1>11
     DEF Next, Handle, Reset

\* The count of tx_lock.
LEMMA LockNext ==
  ASSUME Inv, [Next]_vars
  PROVE  TxLockBalanced'
<1>. USE DEF Inv, TypeOK, TxLockBalanced, Count
<1>. DEFINE Others == Count(workPending) + Count(workPc # "idle")
                        + Count(resetPc # "idle")
<1>1. IsFiniteSet(Locking) /\ Cardinality(Locking) \in Nat
  BY FS_Subset, FS_CardinalityType, PolicyAssumption DEF Locking
\* A step of one frame, seen from the set of threads that will unlock.
<1>2. ASSUME NEW f \in Frames, NEW s, Goto(f, s),
             (stage[f] \in {"schedule", "unlock"})
               <=> (s \in {"schedule", "unlock"})
      PROVE  Locking' = Locking
  BY <1>2 DEF Locking, Goto
<1>3. ASSUME NEW f \in Frames, stage[f] \in {"schedule", "unlock"},
             NEW s, Goto(f, s), s \notin {"schedule", "unlock"}
      PROVE  Cardinality(Locking') = Cardinality(Locking) - 1
  <2>1. Locking' = Locking \ {f} /\ f \in Locking
    BY <1>3 DEF Locking, Goto
  <2>. QED  BY <1>1, <2>1, FS_RemoveElement
<1>4. ASSUME NEW f \in Frames, LockTx(f)
      PROVE  TxLockBalanced'
  <2>1. Locking' = Locking \cup {f} /\ f \notin Locking
    BY <1>4 DEF LockTx, Locking, Goto, At
  <2>2. Cardinality(Locking') = Cardinality(Locking) + 1
    BY <1>1, <2>1, FS_AddElement
  <2>. QED  BY <1>1, <1>4, <2>2 DEF LockTx, workVars
<1>5. ASSUME NEW f \in Frames, Schedule(f)
      PROVE  TxLockBalanced'
  <2>1. CASE workPending
    <3>1. Locking' = Locking
      BY <1>2, <1>5, <2>1 DEF Schedule, At
    <3>. QED  BY <1>5, <2>1, <3>1 DEF Schedule
  <2>2. CASE ~workPending
    <3>1. Cardinality(Locking') = Cardinality(Locking) - 1
      BY <1>3, <1>5, <2>2 DEF Schedule, At
    <3>. QED  BY <1>1, <1>5, <2>2, <3>1 DEF Schedule
  <2>. QED  BY <2>1, <2>2
<1>6. ASSUME NEW f \in Frames, UnlockTx(f)
      PROVE  TxLockBalanced'
  <2>1. Cardinality(Locking') = Cardinality(Locking) - 1
    BY <1>3, <1>6 DEF UnlockTx, At
  <2>. QED  BY <1>1, <1>6, <2>1 DEF UnlockTx, workVars
<1>7. ASSUME NEW f \in Frames,
             \/ \E r \in Rates : Start(f, r)
             \/ GetNone(f) \/ GetKnown(f) \/ GetNew(f) \/ PutInQueue(f)
             \/ Send(f) \/ Dropped(f) \/ Confirmed(f)
      PROVE  TxLockBalanced'
  <2>1. UNCHANGED <<txLock, workVars, resetPc>>
    BY <1>7 DEF Start, GetNone, GetKnown, GetNew, PutInQueue, Send, Dropped,
                Confirmed
  <2>2. Locking' = Locking
    BY <1>2, <1>7 DEF Start, GetNone, GetKnown, GetNew, PutInQueue, Send,
                      Dropped, Confirmed, At, Finish
  <2>. QED  BY <2>1, <2>2 DEF workVars
<1>8. CASE Work
  <2>1. Locking' = Locking
    BY <1>8 DEF Work, WorkStart, WorkTake, WorkSend, WorkSendFails, WorkDone,
     WorkUnlock,
                frameVars, Locking
  <2>2. CASE WorkStart \/ WorkTake \/ WorkSend \/ WorkSendFails \/ WorkDone
    BY <1>1, <2>1, <2>2
       DEF WorkStart, WorkTake, WorkSend, WorkSendFails, WorkDone
  <2>3. CASE WorkUnlock
    BY <1>1, <2>1, <2>3 DEF WorkUnlock
  <2>. QED  BY <1>8, <2>2, <2>3 DEF Work
<1>9. CASE Reset
  <2>1. Locking' = Locking
    BY <1>9 DEF Reset, ResetStart, ResetChip, ResetInit, ResetUnlock,
                frameVars, Locking
  <2>2. CASE ResetStart \/ ResetChip \/ ResetInit
    BY <1>1, <2>1, <2>2 DEF ResetStart, ResetChip, ResetInit, workVars
  <2>3. CASE ResetUnlock
    BY <1>1, <2>1, <2>3 DEF ResetUnlock, workVars
  <2>. QED  BY <1>9, <2>2, <2>3 DEF Reset
<1>10. CASE UNCHANGED vars
  BY <1>10 DEF vars, frameVars, workVars, chipVars, Locking
<1>. QED  BY <1>4, <1>5, <1>6, <1>7, <1>8, <1>9, <1>10 DEF Next, Handle

\* Every entry that is in use is at the chip or on its way.
LEMMA UploadNext ==
  ASSUME Inv, [Next]_vars
  PROVE  Uploads'
<1>. USE PolicyAssumption
       DEF Inv, TypeOK, Uploads, vars, frameVars, cacheVars, workVars,
           chipVars, Goto, At
<1>1. ASSUME NEW f \in Frames,
             \/ \E r \in Rates : Start(f, r)
             \/ GetNone(f) \/ GetKnown(f) \/ PutInQueue(f) \/ Send(f)
             \/ UnlockTx(f) \/ Dropped(f) \/ Confirmed(f)
      PROVE  Uploads'
  <2>1. UNCHANGED <<rates, uploaded, workVars, chipVars, resetPc>>
    BY <1>1 DEF Start, GetNone, GetKnown, PutInQueue, Send, UnlockTx, Dropped,
                Confirmed
  <2>2. stage[f] \notin {"lock", "schedule"}
    BY <1>1 DEF Start, GetNone, GetKnown, PutInQueue, Send, UnlockTx, Dropped,
                Confirmed
  <2>3. \A g \in Frames : g # f => /\ stage'[g] = stage[g]
                                   /\ policy'[g] = policy[g]
    <3>1. \E s : stage' = [stage EXCEPT ![f] = s]
      BY <1>1 DEF Start, GetNone, GetKnown, PutInQueue, Send, UnlockTx,
                  Dropped, Confirmed, Finish
    <3>2. UNCHANGED policy \/ \E i : policy' = [policy EXCEPT ![f] = i]
      BY <1>1 DEF Start, GetNone, GetKnown, Use, PutInQueue, Send, UnlockTx,
                  Dropped, Confirmed, Finish
    <3>. QED  BY <3>1, <3>2
  <2>. QED  BY <2>1, <2>2, <2>3
<1>2. ASSUME NEW f \in Frames, GetNew(f)
      PROVE  Uploads'
  <2>. PICK i \in Policies \ used :
          /\ rates' = [rates EXCEPT ![i] = want[f]]
          /\ uploaded' = [uploaded EXCEPT ![i] = FALSE]
          /\ failed' = failed \ {i}
          /\ Use(f, i, 0)
    BY <1>2 DEF GetNew
  <2>1. /\ stage' = [stage EXCEPT ![f] = "lock"] /\ stage[f] = "get"
        /\ policy' = [policy EXCEPT ![f] = i]
        /\ UNCHANGED <<workVars, chipRates, resetPc>>
    BY <1>2 DEF GetNew, Use
  <2>2. \A g \in Frames : g # f => /\ stage'[g] = stage[g]
                                   /\ policy'[g] = policy[g]
    BY <2>1
  <2>3. stage'[f] = "lock" /\ policy'[f] = i
    BY <2>1
  <2>4. \A j \in Policies : j # i => /\ rates'[j] = rates[j]
                                     /\ uploaded'[j] = uploaded[j]
    OBVIOUS
  <2>. QED  BY <2>1, <2>2, <2>3, <2>4
<1>3. ASSUME NEW f \in Frames, LockTx(f)
      PROVE  Uploads'
  <2>1. stage'[f] = "schedule"
        /\ UNCHANGED <<rates, uploaded, workVars, chipVars, resetPc>>
    BY <1>3 DEF LockTx
  <2>. QED  BY <2>1
<1>4. ASSUME NEW f \in Frames, Schedule(f)
      PROVE  Uploads'
  BY <1>4 DEF Schedule
<1>5. CASE WorkStart
  BY <1>5 DEF WorkStart
<1>6. CASE WorkTake
  <2>. PICK i \in ToUpload : /\ uploaded' = [uploaded EXCEPT ![i] = TRUE]
                             /\ workPolicy' = i /\ workRates' = rates[i]
    BY <1>6 DEF WorkTake
  <2>1. i \in Policies
    BY DEF ToUpload
  <2>2. workPc = "scan" /\ workPc' = "send"
        /\ UNCHANGED <<rates, chipVars, resetPc>>
    BY <1>6 DEF WorkTake
  <2>. QED  BY <2>1, <2>2
<1>7. CASE WorkSend
  BY <1>7 DEF WorkSend, Stages
<1>15. CASE WorkSendFails
  BY <1>15 DEF WorkSendFails, Stages
<1>8. CASE WorkDone
  BY <1>8 DEF WorkDone, ToUpload
<1>9. CASE WorkUnlock
  BY <1>9 DEF WorkUnlock
<1>10. CASE ResetStart
  BY <1>10 DEF ResetStart
<1>11. CASE ResetChip
  BY <1>11 DEF ResetChip
<1>12. CASE ResetInit
  BY <1>12 DEF ResetInit
<1>13. CASE ResetUnlock
  BY <1>13 DEF ResetUnlock
<1>14. CASE UNCHANGED vars
  BY <1>14
<1>. QED
  BY <1>1, <1>2, <1>3, <1>4, <1>5, <1>6, <1>7, <1>8, <1>9, <1>10, <1>11,
     <1>12, <1>13, <1>14, <1>15 DEF Next, Handle, Work, Reset

-----------------------------------------------------------------------------
(* The theorems *)

\* Initially there is no frame and no rate.
LEMMA InitInv == Init => Inv
<1>. SUFFICES ASSUME Init PROVE Inv
  OBVIOUS
<1>. USE PolicyAssumption DEF Init
<1>1. TypeOK
  <2>1. stopped \in BOOLEAN /\ workPending \in BOOLEAN
        /\ uploaded \in [Policies -> BOOLEAN]
    OBVIOUS
  <2>. QED  BY <2>1 DEF TypeOK
<1>2. Stages /\ HeldKeepsRates /\ StoppedWhenFull /\ Uploads
  BY DEF Stages, HeldKeepsRates, Holding, StoppedWhenFull, Uploads
<1>3. UsageExact
  <2>1. \A i \in Policies : Holders(i) = {}
    BY DEF Holders, Holding
  <2>. QED  BY <2>1, FS_EmptySet DEF UsageExact
<1>4. TxLockBalanced
  <2>1. Locking = {}
    BY DEF Locking
  <2>. QED  BY <2>1, FS_EmptySet DEF TxLockBalanced, Count
<1>. QED  BY <1>1, <1>2, <1>3, <1>4 DEF Inv

\* The inductive invariant holds in every behaviour.
LEMMA Inductive == Spec => []Inv
<1>1. Inv /\ [Next]_vars => Inv'
  BY TypeNext, UsageNext, LockNext, UploadNext DEF Inv
<1>. QED  BY InitInv, <1>1, PTL DEF Spec

\* usage_count counts the frames that hold the entry, which is on the list
\* `used' exactly while there are some.
THEOREM UsageCorrect == Spec => []UsageExact
<1>1. Inv => UsageExact
  BY DEF Inv
<1>. QED  BY Inductive, <1>1, PTL

\* The rates of an entry never change under a frame that holds it.
THEOREM RatesKept == Spec => []HeldKeepsRates
<1>1. Inv => HeldKeepsRates
  BY DEF Inv
<1>. QED  BY Inductive, <1>1, PTL

\* Every wfx_tx_lock of wfx_tx_get_rate_id and wfx_reset is undone once, by
\* the thread, by a run of the work item or by the reset.
THEOREM LockBalanced == Spec => []TxLockBalanced
<1>1. Inv => TxLockBalanced
  BY DEF Inv
<1>. QED  BY Inductive, <1>1, PTL

\* Every variable keeps its type; above all, no usage_count underflows and
\* tx_lock is never given back too often.
THEOREM PolicyTypeCorrect == Spec => []TypeOK
<1>1. Inv => TypeOK
  BY DEF Inv
<1>. QED  BY Inductive, <1>1, PTL

\* mac80211's queues are stopped exactly while no entry of the cache is free.
THEOREM StoppedExact == Spec => []StoppedWhenFull
<1>1. Inv => StoppedWhenFull
  BY DEF Inv
<1>. QED  BY Inductive, <1>1, PTL

\* A step that sends a frame sends it with its rates, or in the window, or after
\* a failed upload.
LEMMA SentStep ==
  ASSUME Inv, [Next]_vars, NEW f \in Frames,
         stage[f] = "queued", stage'[f] = "chip", policy[f] # Invalid,
         chipRates[policy[f]] # want[f], policy[f] \notin failed
  PROVE  \E g \in Frames : g # f /\ stage[g] = "lock" /\ policy[g] = policy[f]
<1>. USE DEF Inv, TypeOK
<1>1. txLock = 0
  <2>1. stage' # stage
    OBVIOUS
  <2>2. PICK h \in Frames :
           (\E r \in Rates : Start(h, r)) \/ Handle(h) \/ Send(h) \/ Dropped(h)
             \/ Confirmed(h)
    BY <2>1 DEF Next, Work, Reset, vars, frameVars, WorkStart, WorkTake,
       WorkSend, WorkSendFails, WorkDone, WorkUnlock, ResetStart, ResetChip,
       ResetInit, ResetUnlock
  <2>3. Send(h)
    BY <2>2 DEF Handle, Start, GetNone, GetKnown, GetNew, LockTx, Schedule,
       UnlockTx, PutInQueue, Dropped, Confirmed, Finish, Goto, At
  <2>. QED  BY <2>3 DEF Send
<1>2. /\ ~workPending /\ workPc = "idle" /\ resetPc = "idle"
      /\ Cardinality(Locking) = 0
  BY <1>1, HoldersCount DEF TxLockBalanced, Count
<1>3. \A g \in Frames : stage[g] # "schedule"
  BY <1>2, HoldersCount DEF Locking
<1>4. policy[f] \in Policies /\ rates[policy[f]] = want[f] /\ want[f] # NoRates
  BY PolicyAssumption DEF HeldKeepsRates, Holding, Stages
<1>5. ~uploaded[policy[f]]
  BY <1>2, <1>4 DEF Uploads
<1>. QED  BY <1>2, <1>3, <1>4, <1>5 DEF Uploads

\* A frame goes to the chip after the rates of its policy, but for the window
\* between wfx_tx_policy_get and wfx_tx_lock in another thread, and for rates
\* that a failed command did not bring to the chip.
THEOREM RatesFirst == Spec => SentAfterItsRates
<1>. DEFINE Sent == \A f \in Frames :
          (stage[f] = "queued" /\ stage'[f] = "chip" /\ policy[f] # Invalid) =>
              \/ chipRates[policy[f]] = want[f]
              \/ policy[f] \in failed
              \/ \E g \in Frames : g # f /\ stage[g] = "lock"
                                         /\ policy[g] = policy[f]
<1>1. Inv /\ [Next]_vars => [Sent]_vars
  BY SentStep
<1>. QED  BY Inductive, <1>1, PTL DEF Spec, SentAfterItsRates

\* No upload is forgotten: when the work item neither runs nor is queued, and no
\* thread is between wfx_tx_policy_get and its schedule_work, the chip has
\* the rates of every entry of the cache that has some, those apart whose one
\* command failed: wfx_tx_policy_upload ignores that.
UploadedWhenIdle ==
    (/\ ~workPending /\ workPc = "idle" /\ resetPc # "init"
     /\ \A f \in Frames : stage[f] \notin {"lock", "schedule"})
    => \A i \in Policies : (rates[i] # NoRates /\ i \notin failed)
                              => chipRates[i] = rates[i]

\* wfx_tx_policy_upload tries to send every entry, whatever is put and got while
\* it runs.
THEOREM NoUploadForgotten == Spec => []UploadedWhenIdle
<1>1. Inv => UploadedWhenIdle
  BY DEF Inv, Uploads, UploadedWhenIdle
<1>. QED  BY <1>1, Inductive, PTL

\* While mac80211's queues are stopped, each entry has a frame whose confirmation
\* will put it: somebody is left to wake them.
StoppedByFrames == stopped => \A i \in Policies : \E f \in Frames : f \in Holders(i)

\* Stopped queues are never left to themselves.
THEOREM SomebodyWakes == Spec => []StoppedByFrames
<1>1. Inv => StoppedByFrames
  <2>. SUFFICES ASSUME Inv, stopped, NEW i \in Policies
                PROVE  \E f \in Frames : f \in Holders(i)
    BY DEF StoppedByFrames
  <2>1. usage[i] # 0
    BY DEF Inv, UsageExact, StoppedWhenFull, TypeOK
  <2>2. Holders(i) # {}
    BY <2>1, FS_EmptySet DEF Inv, UsageExact
  <2>. QED  BY <2>2 DEF Holders
<1>. QED  BY <1>1, Inductive, PTL

-----------------------------------------------------------------------------
(* The sort of wfx_tx_fixup_rates *)

\* Any list of rates: indexes without a bound, any count mac80211 gives, the
\* unused places anywhere.
Index == {x \in Int : x >= -1}
Rate == [idx : Index, count : 0 .. CountMax, sgi : BOOLEAN]
RateList == [Slots -> Rate]

\* What one comparison of the sort does to two neighbours, and to no other.
Merged(r, q, i) ==
    /\ r[i].idx = r[i + 1].idx /\ r[i].idx # -1
    /\ q[i].idx = r[i].idx /\ q[i + 1].idx = -1
    /\ q[i].count = AtMost(r[i].count + r[i + 1].count, CountMax)
    /\ q[i].sgi = r[i].sgi /\ q[i + 1].sgi = r[i + 1].sgi
Swapped(r, q, i) ==
    r[i].idx < r[i + 1].idx /\ q[i] = r[i + 1] /\ q[i + 1] = r[i]
Kept(r, q, i) ==
    /\ r[i].idx > r[i + 1].idx \/ (r[i].idx = -1 /\ r[i + 1].idx = -1)
    /\ q = r
Compared(r, q, i) ==
    /\ q \in RateList
    /\ \A j \in Slots \ {i, i + 1} : q[j] = r[j]
    /\ Merged(r, q, i) \/ Swapped(r, q, i) \/ Kept(r, q, i)

LEMMA RateUpdates ==
  ASSUME NEW a \in Rate
  PROVE  /\ \A n \in 0 .. CountMax :
              /\ [a EXCEPT !.count = n] \in Rate
              /\ [a EXCEPT !.count = n].idx = a.idx
              /\ [a EXCEPT !.count = n].count = n
              /\ [a EXCEPT !.count = n].sgi = a.sgi
         /\ Removed(a) \in Rate
         /\ Removed(a).idx = -1 /\ Removed(a).sgi = a.sgi
<1>1. ASSUME NEW n \in 0 .. CountMax
      PROVE  /\ [a EXCEPT !.count = n] \in Rate
             /\ [a EXCEPT !.count = n].idx = a.idx
             /\ [a EXCEPT !.count = n].count = n
             /\ [a EXCEPT !.count = n].sgi = a.sgi
  <2>1. [a EXCEPT !.count = n] = [idx |-> a.idx, count |-> n, sgi |-> a.sgi]
    BY DEF Rate
  <2>2. [idx |-> a.idx, count |-> n, sgi |-> a.sgi] \in Rate
    BY DEF Rate
  <2>. QED  BY <2>1, <2>2
<1>2. -1 \in Index /\ 0 \in 0 .. CountMax
  BY DEF Index, CountMax
<1>. QED  BY <1>1, <1>2 DEF Rate, Removed

LEMMA StepCompares ==
  ASSUME NEW r \in RateList, NEW i \in 1 .. 3
  PROVE  Compared(r, Step(r, i), i)
<1>. DEFINE q == Step(r, i)  m == Merge(r, i)
<1>0. i \in Slots /\ i + 1 \in Slots /\ i + 1 # i
  BY DEF Slots
<1>1. r[i] \in Rate /\ r[i + 1] \in Rate
  BY <1>0 DEF RateList
<1>2. CASE r[i + 1].idx = r[i].idx /\ r[i].idx # -1
  <2>. DEFINE n == AtMost(r[i].count + r[i + 1].count, CountMax)
              a == [r[i] EXCEPT !.count = n]
              b == Removed(r[i + 1])
  <2>1. n \in 0 .. CountMax
    BY <1>1 DEF Rate, AtMost, CountMax
  <2>2. m = [r EXCEPT ![i] = a, ![i + 1] = b]
    BY <1>2, <1>0 DEF Merge, RateList
  <2>3. /\ a \in Rate /\ a.idx = r[i].idx /\ a.count = n /\ a.sgi = r[i].sgi
        /\ b \in Rate /\ b.idx = -1 /\ b.sgi = r[i + 1].sgi
    BY <2>1, <1>1, RateUpdates
  <2>. HIDE DEF n, a, b, m
  <2>4. /\ m[i] = a /\ m[i + 1] = b /\ m \in RateList
        /\ \A j \in Slots \ {i, i + 1} : m[j] = r[j]
    BY <2>2, <2>3, <1>0 DEF RateList
  <2>5. ~(m[i + 1].idx > m[i].idx)
    BY <2>3, <2>4, <1>1 DEF Rate, Index
  <2>6. q = m
    BY <2>5 DEF Step, Swap, m
  <2>7. Merged(r, m, i)
    BY <2>3, <2>4, <1>2 DEF Merged, n
  <2>. QED  BY <2>4, <2>6, <2>7 DEF Compared
<1>3. CASE ~(r[i + 1].idx = r[i].idx /\ r[i].idx # -1)
  <2>1. m = r
    BY <1>3 DEF Merge
  <2>2. CASE r[i + 1].idx > r[i].idx
    <3>1. q = [r EXCEPT ![i] = r[i + 1], ![i + 1] = r[i]]
      BY <2>1, <2>2 DEF Step, Swap
    <3>2. q \in RateList /\ q[i] = r[i + 1] /\ q[i + 1] = r[i]
      BY <3>1, <1>0, <1>1 DEF RateList
    <3>3. \A j \in Slots \ {i, i + 1} : q[j] = r[j]
      BY <3>1 DEF RateList
    <3>4. r[i].idx < r[i + 1].idx
      BY <2>2, <1>1 DEF Rate, Index
    <3>. QED  BY <3>2, <3>3, <3>4 DEF Compared, Swapped
  <2>3. CASE ~(r[i + 1].idx > r[i].idx)
    <3>1. q = r
      BY <2>1, <2>3 DEF Step, Swap
    <3>. QED  BY <3>1, <2>3, <1>1, <1>3 DEF Compared, Kept, Rate, Index
  <2>. QED  BY <2>2, <2>3
<1>. QED  BY <1>2, <1>3
\* What a comparison makes of the indexes of two neighbours.
Hi(a, b) == IF b > a THEN b ELSE a
Lo(a, b) == IF a = b THEN -1 ELSE IF b > a THEN a ELSE b
Over(a, b) == a > b \/ b = -1

LEMMA HiLo ==
  ASSUME NEW a \in Index, NEW b \in Index
  PROVE  /\ Hi(a, b) \in Index /\ Lo(a, b) \in Index
         /\ Over(Hi(a, b), Lo(a, b))
         /\ Over(a, b) => Hi(a, b) = a /\ Lo(a, b) = b
  BY DEF Index, Hi, Lo, Over

\* One pass over the four places: the first three end up over the last, and
\* each pass puts one more place in order.
LEMMA PassIndexes ==
  ASSUME NEW a \in Index, NEW b \in Index, NEW c \in Index, NEW d \in Index,
         NEW a1, NEW b1, NEW b2, NEW c1, NEW c2, NEW d1,
         a1 = Hi(a, b), b1 = Lo(a, b), b2 = Hi(b1, c), c1 = Lo(b1, c),
         c2 = Hi(c1, d), d1 = Lo(c1, d)
  PROVE  /\ a1 \in Index /\ b2 \in Index /\ c2 \in Index /\ d1 \in Index
         /\ Over(a1, d1) /\ Over(b2, d1) /\ Over(c2, d1)
         /\ (Over(a, d) /\ Over(b, d) /\ Over(c, d)) =>
               Over(a1, c2) /\ Over(b2, c2)
         /\ (Over(a, d) /\ Over(b, d) /\ Over(c, d) /\ Over(a, c) /\ Over(b, c)) =>
               Over(a1, b2)
<1>1. a1 \in Index /\ b1 \in Index /\ Over(a1, b1)
  BY HiLo
<1>2. b2 \in Index /\ c1 \in Index /\ Over(b2, c1)
  BY HiLo, <1>1
<1>3. c2 \in Index /\ d1 \in Index /\ Over(c2, d1)
  BY HiLo, <1>2
<1>4. Over(a1, c1)
  BY <1>1 DEF Index, Hi, Lo, Over
<1>5. Over(a1, d1) /\ Over(b2, d1)
  BY <1>1, <1>2, <1>4 DEF Index, Hi, Lo, Over
<1>6. (Over(a, d) /\ Over(b, d) /\ Over(c, d)) =>
               Over(a1, c2) /\ Over(b2, c2)
  BY <1>1, <1>2, <1>4 DEF Index, Hi, Lo, Over
<1>7. (Over(a, d) /\ Over(b, d) /\ Over(c, d) /\ Over(a, c) /\ Over(b, c)) =>
               Over(a1, b2)
  BY <1>1, <1>2, <1>4 DEF Index, Hi, Lo, Over
<1>. QED BY <1>1, <1>2, <1>3, <1>5, <1>6, <1>7

LEMMA ComparedIndexes ==
  ASSUME NEW r \in RateList, NEW q, NEW i \in 1 .. 3, Compared(r, q, i)
  PROVE  /\ q[i].idx = Hi(r[i].idx, r[i + 1].idx)
         /\ q[i + 1].idx = Lo(r[i].idx, r[i + 1].idx)
<1>1. r[i].idx \in Index /\ r[i + 1].idx \in Index
  BY DEF RateList, Rate, Slots
<1>. QED  BY <1>1 DEF Compared, Merged, Swapped, Kept, Hi, Lo, Index

LEMMA PassOrders ==
  ASSUME NEW r \in RateList
  PROVE  LET q == Pass(r)
             O(l, i, j) == Over(l[i].idx, l[j].idx)
         IN  /\ q \in RateList
             /\ O(q, 1, 4) /\ O(q, 2, 4) /\ O(q, 3, 4)
             /\ (O(r, 1, 4) /\ O(r, 2, 4) /\ O(r, 3, 4)) =>
                   O(q, 1, 3) /\ O(q, 2, 3)
             /\ (O(r, 1, 4) /\ O(r, 2, 4) /\ O(r, 3, 4) /\ O(r, 1, 3) /\ O(r, 2, 3))
                   => O(q, 1, 2)
<1>. DEFINE p1 == Step(r, 1)  p2 == Step(p1, 2)  p3 == Step(p2, 3)
<1>1. Compared(r, p1, 1)
  BY StepCompares
<1>. HIDE DEF p1
<1>2. p1 \in RateList /\ Compared(p1, p2, 2)
  BY <1>1, StepCompares DEF Compared
<1>. HIDE DEF p2
<1>3. p2 \in RateList /\ Compared(p2, p3, 3)
  BY <1>2, StepCompares DEF Compared
<1>. HIDE DEF p3
<1>4. p3 \in RateList
  BY <1>3 DEF Compared
<1>5. /\ r[1].idx \in Index /\ r[2].idx \in Index
      /\ r[3].idx \in Index /\ r[4].idx \in Index
  BY DEF RateList, Rate, Slots
<1>6. /\ p1[1].idx = Hi(r[1].idx, r[2].idx) /\ p1[2].idx = Lo(r[1].idx, r[2].idx)
      /\ p1[3] = r[3] /\ p1[4] = r[4]
  BY <1>1, ComparedIndexes DEF Compared, Slots
<1>7. /\ p2[2].idx = Hi(p1[2].idx, p1[3].idx) /\ p2[3].idx = Lo(p1[2].idx, p1[3].idx)
      /\ p2[1] = p1[1] /\ p2[4] = p1[4]
  BY <1>2, ComparedIndexes DEF Compared, Slots
<1>8. /\ p3[3].idx = Hi(p2[3].idx, p2[4].idx) /\ p3[4].idx = Lo(p2[3].idx, p2[4].idx)
      /\ p3[1] = p2[1] /\ p3[2] = p2[2]
  BY <1>3, ComparedIndexes DEF Compared, Slots
<1>. DEFINE a == r[1].idx  b == r[2].idx  c == r[3].idx  d == r[4].idx
            a1 == p1[1].idx  b1 == p1[2].idx  b2 == p2[2].idx  c1 == p2[3].idx
            c2 == p3[3].idx  d1 == p3[4].idx
<1>9. /\ a1 = Hi(a, b) /\ b1 = Lo(a, b) /\ b2 = Hi(b1, c) /\ c1 = Lo(b1, c)
      /\ c2 = Hi(c1, d) /\ d1 = Lo(c1, d)
  BY <1>6, <1>7, <1>8
<1>10. p3[1].idx = a1 /\ p3[2].idx = b2
  BY <1>7, <1>8
<1>11. p3 = Pass(r)
  BY DEF p1, p2, p3, Pass
<1>13. a \in Index /\ b \in Index /\ c \in Index /\ d \in Index
  BY <1>5
<1>. HIDE DEF a, b, c, d, a1, b1, b2, c1, c2, d1
<1>12. /\ Over(a1, d1) /\ Over(b2, d1) /\ Over(c2, d1)
       /\ (Over(a, d) /\ Over(b, d) /\ Over(c, d)) =>
               Over(a1, c2) /\ Over(b2, c2)
       /\ (Over(a, d) /\ Over(b, d) /\ Over(c, d) /\ Over(a, c) /\ Over(b, c)) =>
               Over(a1, b2)
  BY <1>13, <1>9, PassIndexes
<1>. QED  BY <1>4, <1>10, <1>11, <1>12 DEF a, b, c, d, c2, d1

\* A list in which each rate is over the later ones.
Ordered(r) == \A i, j \in Slots : i < j => Over(r[i].idx, r[j].idx)

LEMMA SettleOrders ==
  ASSUME NEW r \in RateList
  PROVE  Settle(r) \in RateList /\ Ordered(Settle(r)) /\ Settled(Settle(r))
<1>. DEFINE p1 == Pass(r)  p2 == Pass(p1)  p3 == Pass(p2)
            O(l, i, j) == Over(l[i].idx, l[j].idx)
<1>1. p1 \in RateList /\ O(p1, 1, 4) /\ O(p1, 2, 4) /\ O(p1, 3, 4)
  BY PassOrders
<1>. HIDE DEF p1
<1>2. /\ p2 \in RateList /\ O(p2, 1, 4) /\ O(p2, 2, 4) /\ O(p2, 3, 4)
      /\ O(p2, 1, 3) /\ O(p2, 2, 3)
  BY <1>1, PassOrders
<1>. HIDE DEF p2
<1>3. /\ p3 \in RateList /\ O(p3, 1, 4) /\ O(p3, 2, 4) /\ O(p3, 3, 4)
      /\ O(p3, 1, 3) /\ O(p3, 2, 3) /\ O(p3, 1, 2)
  BY <1>2, PassOrders
<1>. HIDE DEF p3
<1>4. Ordered(p3)
  BY <1>3 DEF Ordered, Slots
<1>5. ASSUME NEW i \in 1 .. 3
      PROVE  Step(p3, i) = p3
  <2>1. Compared(p3, Step(p3, i), i)
    BY <1>3, StepCompares
  <2>2. i \in Slots /\ i + 1 \in Slots /\ i < i + 1
    BY DEF Slots
  <2>3. Over(p3[i].idx, p3[i + 1].idx)
    BY <1>4, <2>2 DEF Ordered
  <2>4. p3[i].idx \in Index /\ p3[i + 1].idx \in Index
    BY <1>3, <2>2 DEF RateList, Rate
  <2>. QED  BY <2>1, <2>3, <2>4
            DEF Compared, Merged, Swapped, Kept, Over, Index
<1>6. p3 = Settle(r)
  BY DEF p1, p2, p3, Settle
<1>. QED  BY <1>3, <1>4, <1>5, <1>6 DEF Settled

\* What the sort keeps of a list: its rates, their tries up to 15, a guard
\* interval all rates share, and that there is a first rate.
Keeps(r, q) ==
    /\ q \in RateList
    /\ RateIndexes(q) = RateIndexes(r)
    /\ \A x \in Int \ {-1} :
          AtMost(Tries(q, x), CountMax) = AtMost(Tries(r, x), CountMax)
    /\ \A g : (\A j \in Slots : r[j].sgi = g) => \A j \in Slots : q[j].sgi = g
    /\ r[1].idx # -1 => q[1].idx # -1

LEMMA TriesAtType ==
  ASSUME NEW r \in RateList, NEW j \in Slots, NEW x
  PROVE  TriesAt(r, j, x) \in 0 .. CountMax
BY DEF TriesAt, RateList, Rate, CountMax

\* The tries of the two neighbours change together, and only by the limit.
LEMMA PairTries ==
  ASSUME NEW r \in RateList, NEW q, NEW i \in 1 .. 3, Compared(r, q, i),
         NEW x \in Int \ {-1}
  PROVE  LET before == TriesAt(r, i, x) + TriesAt(r, i + 1, x)
             after == TriesAt(q, i, x) + TriesAt(q, i + 1, x)
         IN  after = before \/ after = AtMost(before, CountMax)
<1>1. r[i] \in Rate /\ r[i + 1] \in Rate
  BY DEF RateList, Slots
<1>2. CASE Merged(r, q, i)
  <2>. DEFINE c == r[i].count  d == r[i + 1].count
  <2>1. c \in Nat /\ d \in Nat
    BY <1>1 DEF Rate, CountMax
  <2>2. /\ r[i].idx = r[i + 1].idx /\ q[i].idx = r[i].idx /\ q[i + 1].idx = -1
        /\ q[i].count = AtMost(c + d, CountMax)
    BY <1>2 DEF Merged
  <2>3. CASE x = r[i].idx
    <3>1. TriesAt(r, i, x) = c /\ TriesAt(r, i + 1, x) = d
      BY <2>2, <2>3 DEF TriesAt
    <3>2. TriesAt(q, i, x) = AtMost(c + d, CountMax) /\ TriesAt(q, i + 1, x) = 0
      BY <2>2, <2>3 DEF TriesAt
    <3>3. AtMost(c + d, CountMax) \in Nat
      BY <2>1 DEF AtMost, CountMax
    <3>. QED  BY <3>1, <3>2, <3>3
  <2>4. CASE x # r[i].idx
    BY <2>2, <2>4 DEF TriesAt
  <2>. QED  BY <2>3, <2>4
<1>3. CASE Swapped(r, q, i)
  BY <1>1, <1>3 DEF Swapped, TriesAt, Rate, CountMax
<1>4. CASE Kept(r, q, i)
  BY <1>4 DEF Kept
<1>. QED  BY <1>2, <1>3, <1>4 DEF Compared

LEMMA CapSum ==
  ASSUME NEW m \in Nat, NEW n \in Nat
  PROVE  AtMost(m + AtMost(n, CountMax), CountMax) = AtMost(m + n, CountMax)
BY DEF AtMost, CountMax

LEMMA StepTries ==
  ASSUME NEW r \in RateList, NEW q, NEW i \in 1 .. 3, Compared(r, q, i),
         NEW x \in Int \ {-1}
  PROVE  AtMost(Tries(q, x), CountMax) = AtMost(Tries(r, x), CountMax)
<1>. DEFINE t(j) == TriesAt(r, j, x)  u(j) == TriesAt(q, j, x)
            before == t(i) + t(i + 1)  after == u(i) + u(i + 1)
<1>1. after = before \/ after = AtMost(before, CountMax)
  BY PairTries
<1>2. \A j \in Slots \ {i, i + 1} : u(j) = t(j)
  BY DEF Compared, TriesAt
<1>3. \A j \in Slots : t(j) \in Nat /\ u(j) \in Nat
  BY TriesAtType DEF Compared, CountMax
<1>4. Tries(r, x) = t(1) + t(2) + t(3) + t(4)
      /\ Tries(q, x) = u(1) + u(2) + u(3) + u(4)
  BY DEF Tries
<1>. HIDE DEF t, u
<1>5. PICK m \in Nat : Tries(r, x) = m + before /\ Tries(q, x) = m + after
  <2>1. CASE i = 1
    <3>1. t(3) + t(4) \in Nat /\ u(3) = t(3) /\ u(4) = t(4)
      BY <1>2, <1>3, <2>1 DEF Slots
    <3>2. Tries(r, x) = (t(3) + t(4)) + before
          /\ Tries(q, x) = (t(3) + t(4)) + after
      BY <1>3, <1>4, <3>1, <2>1 DEF Slots
    <3>. QED  BY <3>1, <3>2
  <2>2. CASE i = 2
    <3>1. t(1) + t(4) \in Nat /\ u(1) = t(1) /\ u(4) = t(4)
      BY <1>2, <1>3, <2>2 DEF Slots
    <3>2. Tries(r, x) = (t(1) + t(4)) + before
          /\ Tries(q, x) = (t(1) + t(4)) + after
      BY <1>3, <1>4, <3>1, <2>2 DEF Slots
    <3>. QED  BY <3>1, <3>2
  <2>3. CASE i = 3
    <3>1. t(1) + t(2) \in Nat /\ u(1) = t(1) /\ u(2) = t(2)
      BY <1>2, <1>3, <2>3 DEF Slots
    <3>2. Tries(r, x) = (t(1) + t(2)) + before
          /\ Tries(q, x) = (t(1) + t(2)) + after
      BY <1>3, <1>4, <3>1, <2>3 DEF Slots
    <3>. QED  BY <3>1, <3>2
  <2>. QED  BY <2>1, <2>2, <2>3
<1>6. before \in Nat
  BY <1>3 DEF Slots
<1>. HIDE DEF before, after
<1>. QED  BY <1>1, <1>5, <1>6, CapSum

LEMMA StepKeeps ==
  ASSUME NEW r \in RateList, NEW i \in 1 .. 3
  PROVE  Keeps(r, Step(r, i))
<1>. DEFINE q == Step(r, i)
<1>1. Compared(r, q, i)
  BY StepCompares
<1>. HIDE DEF q
<1>0. i \in Slots /\ i + 1 \in Slots
  BY DEF Slots
<1>2. \A x \in Int \ {-1} :
          AtMost(Tries(q, x), CountMax) = AtMost(Tries(r, x), CountMax)
  BY <1>1, StepTries
<1>3. RateIndexes(q) = RateIndexes(r)
  <2>1. ASSUME NEW x, x # -1, NEW j \in Slots, q[j].idx = x
        PROVE  \E k \in Slots : r[k].idx = x
    BY <2>1, <1>0, <1>1 DEF Compared, Merged, Swapped, Kept
  <2>2. ASSUME NEW x, x # -1, NEW j \in Slots, r[j].idx = x
        PROVE  \E k \in Slots : q[k].idx = x
    BY <2>2, <1>0, <1>1 DEF Compared, Merged, Swapped, Kept
  <2>. QED  BY <2>1, <2>2 DEF RateIndexes
<1>4. ASSUME NEW g, \A j \in Slots : r[j].sgi = g
      PROVE  \A j \in Slots : q[j].sgi = g
  BY <1>4, <1>0, <1>1 DEF Compared, Merged, Swapped, Kept
<1>5. ASSUME r[1].idx # -1
      PROVE  q[1].idx # -1
  <2>1. r[1].idx \in Index /\ r[2].idx \in Index
    BY DEF RateList, Rate, Slots
  <2>2. CASE i = 1
    BY <1>1, <1>5, <2>1, <2>2 DEF Compared, Merged, Swapped, Kept, Index
  <2>3. CASE i # 1
    BY <1>1, <1>5, <2>3 DEF Compared, Slots
  <2>. QED  BY <2>2, <2>3
<1>. QED  BY <1>1, <1>2, <1>3, <1>4, <1>5 DEF Keeps, Compared, q

LEMMA PassKeeps ==
  ASSUME NEW r \in RateList
  PROVE  Keeps(r, Pass(r))
<1>. DEFINE p1 == Step(r, 1)  p2 == Step(p1, 2)  p3 == Step(p2, 3)
<1>1. Keeps(r, p1)
  BY StepKeeps
<1>. HIDE DEF p1
<1>2. Keeps(p1, p2)
  <2>1. p1 \in RateList
    BY <1>1 DEF Keeps
  <2>. QED  BY <2>1, StepKeeps
<1>. HIDE DEF p2
<1>3. Keeps(p2, p3)
  <2>1. p2 \in RateList
    BY <1>2 DEF Keeps
  <2>. QED  BY <2>1, StepKeeps
<1>. HIDE DEF p3
<1>4. Pass(r) = p3
  BY DEF Pass, p1, p2, p3
<1>. QED  BY <1>1, <1>2, <1>3, <1>4 DEF Keeps

LEMMA SettleKeeps ==
  ASSUME NEW r \in RateList
  PROVE  Keeps(r, Settle(r))
<1>. DEFINE p1 == Pass(r)  p2 == Pass(p1)  p3 == Pass(p2)
<1>1. Keeps(r, p1)
  BY PassKeeps
<1>. HIDE DEF p1
<1>2. Keeps(p1, p2)
  <2>1. p1 \in RateList
    BY <1>1 DEF Keeps
  <2>. QED  BY <2>1, PassKeeps
<1>. HIDE DEF p2
<1>3. Keeps(p2, p3)
  <2>1. p2 \in RateList
    BY <1>2 DEF Keeps
  <2>. QED  BY <2>1, PassKeeps
<1>. HIDE DEF p3
<1>4. Settle(r) = p3
  BY DEF Settle, p1, p2, p3
<1>. QED  BY <1>1, <1>2, <1>3, <1>4 DEF Keeps

\* The same flags do not change the order of the rates.
LEMMA OneGiKeeps ==
  ASSUME NEW r \in RateList
  PROVE  /\ OneGi(r) \in RateList
         /\ \A i \in Slots : /\ OneGi(r)[i].idx = r[i].idx
                             /\ OneGi(r)[i].count = r[i].count
                             /\ OneGi(r)[i].sgi = r[1].sgi
<1>1. ASSUME NEW i \in Slots
      PROVE  /\ OneGi(r)[i] \in Rate
             /\ OneGi(r)[i].idx = r[i].idx
             /\ OneGi(r)[i].count = r[i].count
             /\ OneGi(r)[i].sgi = r[1].sgi
  <2>1. r[i] \in Rate /\ r[1].sgi \in BOOLEAN
    BY DEF RateList, Rate, Slots
  <2>2. OneGi(r)[i] = [r[i] EXCEPT !.sgi = r[1].sgi]
    BY DEF OneGi
  <2>3. OneGi(r)[i] = [idx |-> r[i].idx, count |-> r[i].count, sgi |-> r[1].sgi]
    BY <2>1, <2>2 DEF Rate
  <2>. QED  BY <2>1, <2>3 DEF Rate
<1>2. OneGi(r) = [i \in Slots |-> OneGi(r)[i]]
  BY DEF OneGi
<1>. QED  BY <1>1, <1>2 DEF RateList

LEMMA SortedList ==
  ASSUME NEW r \in RateList, r[1].idx # -1
  PROVE  LET s == Sorted(r)
         IN  /\ s \in RateList /\ Ordered(s) /\ Settled(s)
             /\ s[1].idx # -1
             /\ RateIndexes(s) = RateIndexes(r)
             /\ \A x \in Int \ {-1} :
                   AtMost(Tries(s, x), CountMax) = AtMost(Tries(r, x), CountMax)
             /\ \A i \in Slots : s[i].sgi = r[1].sgi
<1>. DEFINE o == OneGi(r)  s == Settle(o)
<1>1. /\ o \in RateList
      /\ \A i \in Slots : /\ o[i].idx = r[i].idx /\ o[i].count = r[i].count
                          /\ o[i].sgi = r[1].sgi
  BY OneGiKeeps
<1>. HIDE DEF o
<1>2. RateIndexes(o) = RateIndexes(r)
  BY <1>1 DEF RateIndexes
<1>3. \A x : Tries(o, x) = Tries(r, x)
  BY <1>1 DEF Tries, TriesAt, Slots
<1>4. o[1].idx # -1
  BY <1>1 DEF Slots
<1>5. s \in RateList /\ Ordered(s) /\ Settled(s)
  BY <1>1, SettleOrders
<1>6. Keeps(o, s)
  BY <1>1, SettleKeeps
<1>7. Sorted(r) = s
  BY DEF Sorted, o
<1>. HIDE DEF s
<1>. QED  BY <1>1, <1>2, <1>3, <1>4, <1>5, <1>6, <1>7 DEF Keeps

\* The slot that wfx_tx_fixup_rates gives to the slowest rate.
Added(s, i) == s[i].idx = -1 /\ \A j \in Slots : j < i => s[j].idx > 0

LEMMA FixedRates ==
  ASSUME NEW s \in RateList, NEW i \in Slots
  PROVE  LET f == LongGi(Lowest(s))
         IN  /\ f[i] \in Rate
             /\ Added(s, i) => /\ f[i].idx = 0
                               /\ f[i].sgi = FALSE
             /\ ~Added(s, i) => /\ f[i].idx = s[i].idx
                                /\ f[i].count = s[i].count
                                /\ f[i].sgi = (s[i].sgi /\ i = 1)
<1>. DEFINE f == LongGi(Lowest(s))  l == Lowest(s)[i]
<1>1. f[i] = [l EXCEPT !.sgi = @ /\ i = 1]
  BY DEF LongGi
<1>2. CASE Added(s, i)
  <2>1. l = [idx |-> 0, count |-> 8, sgi |-> FALSE]
    BY <1>2 DEF Lowest, Added
  <2>2. l \in Rate /\ l.idx = 0 /\ ~l.sgi
    BY <2>1 DEF Rate, Index, CountMax
  <2>3. f[i] = [idx |-> l.idx, count |-> l.count, sgi |-> (l.sgi /\ i = 1)]
    BY <1>1, <2>2 DEF Rate
  <2>4. (l.sgi /\ i = 1) = FALSE
    BY <2>2
  <2>. QED  BY <1>2, <2>2, <2>3, <2>4 DEF Rate
<1>3. CASE ~Added(s, i)
  <2>1. l = s[i]
    BY <1>3 DEF Lowest, Added
  <2>2. s[i] \in Rate
    BY DEF RateList
  <2>3. f[i] = [idx |-> s[i].idx, count |-> s[i].count, sgi |-> s[i].sgi /\ i = 1]
    BY <1>1, <2>1, <2>2 DEF Rate
  <2>4. (s[i].sgi /\ i = 1) \in BOOLEAN
    OBVIOUS
  <2>. QED  BY <1>3, <2>2, <2>3, <2>4 DEF Rate
<1>. QED  BY <1>2, <1>3

LEMMA FixedOrder ==
  ASSUME NEW s \in RateList, Ordered(s), NEW i \in Slots, NEW j \in Slots, i < j
  PROVE  LET f == LongGi(Lowest(s))
         IN  f[i].idx > f[j].idx \/ f[j].idx = -1
<1>1. s[i].idx \in Index /\ s[j].idx \in Index
  BY DEF RateList, Rate
<1>2. s[i].idx > s[j].idx \/ s[j].idx = -1
  BY DEF Ordered, Over
<1>3. CASE Added(s, i)
  <2>1. ~Added(s, j)
    BY <1>3 DEF Added
  <2>2. s[j].idx = -1
    BY <1>1, <1>2, <1>3 DEF Added, Index
  <2>. QED  BY <2>1, <2>2, FixedRates
<1>4. CASE ~Added(s, i) /\ Added(s, j)
  <2>1. s[i].idx > 0
    BY <1>4 DEF Added
  <2>. QED  BY <1>4, <2>1, FixedRates
<1>5. CASE ~Added(s, i) /\ ~Added(s, j)
  BY <1>2, <1>5, FixedRates
<1>. QED  BY <1>3, <1>4, <1>5

\* Room is left exactly if the last place of the sorted list is unused.
LEMMA RoomLeft ==
  ASSUME NEW s \in RateList, Ordered(s)
  PROVE  Cardinality(RateIndexes(s)) < 4 <=> s[4].idx = -1
<1>. DEFINE a == s[1].idx  b == s[2].idx  c == s[3].idx  d == s[4].idx
<1>1. a \in Index /\ b \in Index /\ c \in Index /\ d \in Index
  BY DEF RateList, Rate, Slots
<1>2. /\ Over(a, b) /\ Over(a, c) /\ Over(a, d)
      /\ Over(b, c) /\ Over(b, d) /\ Over(c, d)
  BY DEF Ordered, Slots
<1>3. RateIndexes(s) = {a, b, c, d} \ {-1}
  BY DEF RateIndexes, Slots
<1>. HIDE DEF a, b, c, d
<1>4. IsFiniteSet({}) /\ Cardinality({}) = 0
  BY FS_EmptySet
<1>5. IsFiniteSet({a}) /\ Cardinality({a}) = 1
  BY <1>4, FS_Singleton
<1>6. IsFiniteSet({a, b}) /\ Cardinality({a, b}) = IF b = a THEN 1 ELSE 2
  <2>1. {a, b} = {a} \cup {b}
    OBVIOUS
  <2>. QED  BY <1>5, <2>1, FS_AddElement
<1>7. /\ IsFiniteSet({a, b, c}) /\ Cardinality({a, b, c}) <= 3
      /\ (b # a /\ c \notin {a, b}) => Cardinality({a, b, c}) = 3
      /\ Cardinality({a, b, c}) \in Nat
  <2>1. {a, b, c} = {a, b} \cup {c}
    OBVIOUS
  <2>2. /\ IsFiniteSet({a, b} \cup {c})
        /\ Cardinality({a, b} \cup {c}) =
              IF c \in {a, b} THEN Cardinality({a, b})
                              ELSE Cardinality({a, b}) + 1
    BY <1>6, FS_AddElement
  <2>3. CASE b = a
    BY <1>6, <2>1, <2>2, <2>3
  <2>4. CASE b # a
    BY <1>6, <2>1, <2>2, <2>4
  <2>. QED  BY <2>3, <2>4
<1>8. CASE d = -1
  <2>1. RateIndexes(s) \in SUBSET {a, b, c}
    BY <1>3, <1>8
  <2>2. Cardinality(RateIndexes(s)) <= Cardinality({a, b, c})
        /\ Cardinality(RateIndexes(s)) \in Nat
    BY <1>7, <2>1, FS_Subset, FS_CardinalityType
  <2>. QED  BY <1>7, <1>8, <2>2 DEF d
<1>9. CASE d # -1
  <2>1. b # a /\ c \notin {a, b} /\ d \notin {a, b, c} /\ -1 \notin {a, b, c, d}
    BY <1>1, <1>2, <1>9 DEF Over, Index
  <2>2. RateIndexes(s) = {a, b, c} \cup {d}
    BY <1>3, <2>1
  <2>3. Cardinality(RateIndexes(s)) = 4
    BY <1>7, <2>1, <2>2, FS_AddElement
  <2>. QED  BY <1>9, <2>3 DEF d
<1>. QED  BY <1>8, <1>9

LEMMA FixedIndexes ==
  ASSUME NEW s \in RateList, Ordered(s), s[1].idx # -1
  PROVE  LET f == LongGi(Lowest(s))
         IN  RateIndexes(f) = RateIndexes(s)
                \cup IF Cardinality(RateIndexes(s)) < 4 THEN {0} ELSE {}
<1>. DEFINE f == LongGi(Lowest(s))
<1>1. \A i \in Slots : s[i].idx \in Index
  BY DEF RateList, Rate
<1>2. \A i \in Slots : f[i].idx = IF Added(s, i) THEN 0 ELSE s[i].idx
  BY FixedRates
<1>. HIDE DEF f
<1>3. RateIndexes(s) \subseteq RateIndexes(f)
  BY <1>2 DEF RateIndexes, Added
<1>4. RateIndexes(f) \subseteq RateIndexes(s) \cup {0}
  BY <1>2 DEF RateIndexes
<1>5. CASE s[4].idx = -1
  <2>1. 0 \in RateIndexes(f)
    <3>1. CASE 0 \in RateIndexes(s)
      BY <1>3, <3>1
    <3>2. CASE 0 \notin RateIndexes(s)
      <4>1. \A i \in Slots : s[i].idx # -1 => s[i].idx > 0
        BY <1>1, <3>2 DEF RateIndexes, Index
      <4>2. PICK i \in Slots : Added(s, i)
        <5>1. CASE s[2].idx = -1
          BY <4>1, <5>1 DEF Added, Slots
        <5>2. CASE s[2].idx # -1 /\ s[3].idx = -1
          BY <4>1, <5>2 DEF Added, Slots
        <5>3. CASE s[2].idx # -1 /\ s[3].idx # -1
          BY <1>5, <4>1, <5>3 DEF Added, Slots
        <5>. QED  BY <5>1, <5>2, <5>3
      <4>. QED  BY <1>2, <4>2 DEF RateIndexes
    <3>. QED  BY <3>1, <3>2
  <2>2. RateIndexes(f) = RateIndexes(s) \cup {0}
    BY <1>3, <1>4, <2>1
  <2>3. Cardinality(RateIndexes(s)) < 4
    BY <1>5, RoomLeft
  <2>. QED  BY <2>2, <2>3 DEF f
<1>6. CASE s[4].idx # -1
  <2>1. \A i \in Slots : s[i].idx # -1
    BY <1>1, <1>6 DEF Ordered, Over, Slots, Index
  <2>2. \A i \in Slots : ~Added(s, i)
    BY <2>1 DEF Added
  <2>3. RateIndexes(f) = RateIndexes(s)
    BY <1>2, <2>2 DEF RateIndexes
  <2>4. ~(Cardinality(RateIndexes(s)) < 4)
    BY <1>6, RoomLeft
  <2>. QED  BY <2>3, <2>4 DEF f
<1>. QED  BY <1>5, <1>6

\* In a list without duplicates a rate has one place, or none.
LEMMA OrderedTries ==
  ASSUME NEW s \in RateList, Ordered(s), NEW x \in Int \ {-1}
  PROVE  AtMost(Tries(s, x), CountMax) = Tries(s, x)
<1>1. \A i \in Slots : s[i].idx \in Index /\ s[i].count \in 0 .. CountMax
  BY DEF RateList, Rate
<1>2. \A i, j \in Slots : i < j /\ s[i].idx = x => s[j].idx # x
  BY <1>1 DEF Ordered, Over, Index
<1>3. \A i \in Slots : /\ s[i].idx = x => TriesAt(s, i, x) \in 0 .. CountMax
                       /\ s[i].idx # x => TriesAt(s, i, x) = 0
  BY <1>1 DEF TriesAt
<1>4. Tries(s, x) \in 0 .. CountMax
  <2>1. CASE s[1].idx = x
    BY <2>1, <1>2, <1>3 DEF Tries, Slots, CountMax
  <2>2. CASE s[1].idx # x /\ s[2].idx = x
    BY <2>2, <1>2, <1>3 DEF Tries, Slots, CountMax
  <2>3. CASE s[1].idx # x /\ s[2].idx # x /\ s[3].idx = x
    BY <2>3, <1>2, <1>3 DEF Tries, Slots, CountMax
  <2>4. CASE s[1].idx # x /\ s[2].idx # x /\ s[3].idx # x
    BY <2>4, <1>3 DEF Tries, Slots, CountMax
  <2>. QED  BY <2>1, <2>2, <2>3, <2>4
<1>. QED  BY <1>4 DEF AtMost, CountMax

LEMMA FixedTries ==
  ASSUME NEW s \in RateList, Ordered(s), NEW x \in RateIndexes(s)
  PROVE  Tries(LongGi(Lowest(s)), x) = Tries(s, x)
<1>. DEFINE f == LongGi(Lowest(s))
<1>1. \A i \in Slots : s[i].idx \in Index
  BY DEF RateList, Rate
<1>2. PICK k \in Slots : s[k].idx = x /\ x # -1
  BY DEF RateIndexes
<1>3. ASSUME NEW i \in Slots
      PROVE  TriesAt(f, i, x) = TriesAt(s, i, x)
  <2>1. CASE Added(s, i)
    <3>1. s[i].idx = -1 /\ f[i].idx = 0
      BY <2>1, FixedRates DEF Added
    <3>2. x # 0
      <4>1. CASE k < i
        BY <1>2, <2>1, <4>1 DEF Added
      <4>2. CASE k = i
        BY <1>2, <3>1, <4>2
      <4>3. CASE i < k
        BY <1>1, <1>2, <3>1, <4>3 DEF Ordered, Over, Index
      <4>. QED  BY <4>1, <4>2, <4>3 DEF Slots
    <3>. QED  BY <1>2, <3>1, <3>2 DEF TriesAt
  <2>2. CASE ~Added(s, i)
    BY <2>2, FixedRates DEF TriesAt
  <2>. QED  BY <2>1, <2>2
<1>. HIDE DEF f
<1>4. Tries(f, x) = Tries(s, x)
  BY <1>3 DEF Tries, Slots
<1>. QED  BY <1>4 DEF f

LEMMA FixupFixes ==
  ASSUME NEW r \in RateList, r[1].idx # -1
  PROVE  /\ Fixed(r)
         /\ Fixup(r) \in RateList /\ Ordered(Fixup(r))
<1>. DEFINE s == Sorted(r)  f == LongGi(Lowest(s))
<1>1. /\ s \in RateList /\ Ordered(s) /\ Settled(s) /\ s[1].idx # -1
      /\ RateIndexes(s) = RateIndexes(r)
      /\ \A x \in Int \ {-1} :
            AtMost(Tries(s, x), CountMax) = AtMost(Tries(r, x), CountMax)
      /\ \A i \in Slots : s[i].sgi = r[1].sgi
  BY SortedList
<1>2. Fixup(r) = f
  BY DEF Fixup
<1>. HIDE DEF s
<1>3. \A i, j \in Slots : i < j => f[i].idx > f[j].idx \/ f[j].idx = -1
  BY <1>1, FixedOrder
<1>4. RateIndexes(f) = RateIndexes(r)
          \cup IF Cardinality(RateIndexes(r)) < 4 THEN {0} ELSE {}
  BY <1>1, FixedIndexes
<1>5. ASSUME NEW x \in RateIndexes(r)
      PROVE  Tries(f, x) = AtMost(Tries(r, x), CountMax)
  <2>1. x \in Int \ {-1}
    BY DEF RateIndexes, RateList, Rate, Index
  <2>2. Tries(f, x) = Tries(s, x)
    BY <1>1, FixedTries
  <2>3. AtMost(Tries(s, x), CountMax) = Tries(s, x)
    BY <1>1, <2>1, OrderedTries
  <2>. QED  BY <1>1, <2>1, <2>2, <2>3
<1>6. ASSUME NEW i \in Slots
      PROVE  f[i].sgi = (i = 1 /\ r[1].sgi)
  <2>1. r[1].sgi \in BOOLEAN /\ s[i].sgi = r[1].sgi /\ s \in RateList
    BY <1>1 DEF RateList, Rate, Slots
  <2>2. CASE Added(s, i)
    <3>1. i # 1
      BY <1>1, <2>2 DEF Added
    <3>2. f[i].sgi = FALSE
      BY <2>1, <2>2, FixedRates
    <3>. QED  BY <3>1, <3>2
  <2>3. CASE ~Added(s, i)
    <3>1. f[i].sgi = (s[i].sgi /\ i = 1)
      BY <2>1, <2>3, FixedRates
    <3>. QED  BY <2>1, <3>1
  <2>. QED  BY <2>2, <2>3
<1>7. f \in RateList
  <2>1. \A i \in Slots : f[i] \in Rate
    BY <1>1, FixedRates
  <2>2. f = [i \in Slots |-> f[i]]
    BY DEF LongGi
  <2>. QED  BY <2>1, <2>2 DEF RateList
<1>. HIDE DEF f
<1>8. Fixed(r)
  BY <1>1, <1>2, <1>3, <1>4, <1>5, <1>6 DEF Fixed, s
<1>. QED  BY <1>2, <1>3, <1>7, <1>8 DEF Ordered, Over

-----------------------------------------------------------------------------
(* wfx_tx_fill_rates *)

LEMMA FillReports ==
  ASSUME NEW f \in RateList, Ordered(f), NEW n \in 0 .. Total(f), NEW i \in Slots
  PROVE  LET g == FillRates(f, n)
             b == Before(f, i)
         IN  /\ b \in Nat
             /\ f[i].idx = -1 => g[i] = f[i]
             /\ f[i].idx # -1 =>
                   /\ n > b + f[i].count => g[i] = f[i]
                   /\ n <= b => g[i].idx = -1
                   /\ Reported(g, i) = IF n > b + f[i].count THEN f[i].count
                                       ELSE IF n <= b THEN 0 ELSE n - b
<1>1. /\ f[i] \in Rate
      /\ \A j \in Slots : f[j].count \in Nat
  BY DEF RateList, Rate, CountMax
<1>2. Before(f, i) \in Nat
  BY <1>1 DEF Before, Slots
<1>3. n \in Nat
  <2>1. Total(f) \in Nat
    BY <1>1 DEF Total, Reported, Slots
  <2>. QED  BY <2>1
<1>. DEFINE b == Before(f, i)  g == FillRates(f, n)
<1>4. g[i] = IF f[i].idx = -1 \/ n > b + f[i].count THEN f[i]
             ELSE IF n <= b THEN Removed(f[i])
             ELSE [f[i] EXCEPT !.count = n - b]
  BY DEF FillRates
<1>5. Removed(f[i]).idx = -1
  BY DEF Removed
<1>6. CASE f[i].idx = -1 \/ n > b + f[i].count
  BY <1>2, <1>3, <1>4, <1>6, <1>1 DEF Reported
<1>7. CASE f[i].idx # -1 /\ ~(n > b + f[i].count) /\ n <= b
  BY <1>2, <1>3, <1>4, <1>5, <1>7, <1>1 DEF Reported
<1>8. CASE f[i].idx # -1 /\ ~(n > b + f[i].count) /\ ~(n <= b)
  <2>1. g[i] = [f[i] EXCEPT !.count = n - b]
    BY <1>4, <1>8
  <2>2. n - b \in 0 .. CountMax
    BY <1>1, <1>2, <1>3, <1>8 DEF Rate, CountMax
  <2>3. g[i].idx = f[i].idx /\ g[i].count = n - b
    BY <1>1, <2>1, <2>2, RateUpdates
  <2>. QED  BY <1>2, <1>8, <2>3 DEF Reported
<1>. QED  BY <1>6, <1>7, <1>8

LEMMA FillShares ==
  ASSUME NEW f \in RateList, Ordered(f)
  PROVE  Filled(f)
<1>. DEFINE R(i) == Reported(f, i)
<1>1. \A i \in Slots : f[i].idx \in Index /\ f[i].count \in Nat /\ R(i) \in Nat
  BY DEF RateList, Rate, CountMax, Reported
<1>2. \A i, j \in Slots : i < j /\ f[i].idx = -1 => f[j].idx = -1
  BY <1>1 DEF Ordered, Over, Index
<1>3. SUFFICES ASSUME NEW n \in 0 .. Total(f)
               PROVE  LET g == FillRates(f, n)
                      IN  /\ Total(g) = n
                          /\ \A i \in Slots :
                                \/ g[i] = f[i]
                                \/ \A j \in Slots : j > i => g[j].idx = -1
  BY DEF Filled
<1>. DEFINE g == FillRates(f, n)  G(i) == Reported(g, i)
            P1 == 0  P2 == R(1)  P3 == P2 + R(2)  P4 == P3 + R(3)  P5 == P4 + R(4)
<1>4. /\ P1 \in Nat /\ P2 \in Nat /\ P3 \in Nat /\ P4 \in Nat /\ P5 \in Nat
      /\ Total(f) = P5
  BY <1>1 DEF Total, Slots
<1>5. n \in Nat /\ n <= P5
  BY <1>4
<1>6. /\ f[1].idx # -1 => Before(f, 1) = P1
      /\ f[2].idx # -1 => Before(f, 2) = P2
      /\ f[3].idx # -1 => Before(f, 3) = P3
      /\ f[4].idx # -1 => Before(f, 4) = P4
  BY <1>1, <1>2 DEF Before, Reported, Slots
<1>7. ASSUME NEW i \in Slots, NEW p \in Nat, f[i].idx # -1 => Before(f, i) = p
      PROVE  G(i) \in Nat /\ AtMost(n, p) + G(i) = AtMost(n, p + R(i))
  <2>1. CASE f[i].idx = -1
    <3>1. R(i) = 0 /\ G(i) = 0
      BY <2>1, FillReports DEF Reported
    <3>. QED  BY <3>1, <1>5 DEF AtMost
  <2>2. CASE f[i].idx # -1
    <3>1. R(i) = f[i].count /\ R(i) \in Nat
      BY <1>1, <2>2 DEF Reported
    <3>2. G(i) = IF n > p + R(i) THEN R(i) ELSE IF n <= p THEN 0 ELSE n - p
      BY <1>7, <2>2, <3>1, FillReports
    <3>3. G(i) \in Nat
      BY <1>5, <3>1, <3>2
    <3>. HIDE DEF G, R
    <3>. QED  BY <1>5, <3>1, <3>2, <3>3 DEF AtMost
  <2>. QED  BY <2>1, <2>2
<1>8. /\ G(1) \in Nat /\ AtMost(n, P1) + G(1) = AtMost(n, P2)
      /\ G(2) \in Nat /\ AtMost(n, P2) + G(2) = AtMost(n, P3)
      /\ G(3) \in Nat /\ AtMost(n, P3) + G(3) = AtMost(n, P4)
      /\ G(4) \in Nat /\ AtMost(n, P4) + G(4) = AtMost(n, P5)
  <2>1. 1 \in Slots /\ 2 \in Slots /\ 3 \in Slots /\ 4 \in Slots
    BY DEF Slots
  <2>2. P1 + R(1) = P2
    BY <1>1, <2>1
  <2>. HIDE DEF G, R
  <2>. QED  BY <1>4, <1>6, <1>7, <2>1, <2>2
<1>9. Total(g) = n
  <2>1. Total(g) = G(1) + G(2) + G(3) + G(4)
    BY DEF Total
  <2>2. AtMost(n, P1) = 0 /\ AtMost(n, P5) = n
    BY <1>5, <1>4 DEF AtMost
  <2>3. AtMost(n, P2) \in Nat /\ AtMost(n, P3) \in Nat /\ AtMost(n, P4) \in Nat
    BY <1>4, <1>5 DEF AtMost
  <2>. HIDE DEF G, P1, P2, P3, P4, P5, g
  <2>. QED  BY <1>5, <1>8, <2>1, <2>2, <2>3
<1>10. ASSUME NEW i \in Slots, g[i] # f[i], NEW j \in Slots, j > i
       PROVE  g[j].idx = -1
  <2>1. f[i].idx # -1 /\ ~(n > Before(f, i) + f[i].count)
        /\ Before(f, i) \in Nat /\ Before(f, j) \in Nat
    BY <1>10, FillReports
  <2>2. Before(f, i) + f[i].count <= Before(f, j)
    BY <1>1, <1>10 DEF Before, Slots
  <2>3. n <= Before(f, j)
    BY <1>1, <1>5, <2>1, <2>2
  <2>. QED  BY <2>3, FillReports
<1>. QED  BY <1>9, <1>10

-----------------------------------------------------------------------------
(* The theorems about the lists of rates *)

\* The loop of wfx_tx_fixup_rates ends: after three passes no comparison finds
\* anything to do.  When none does after fewer, the list is the same, so the
\* model's three passes give the list with which the code leaves its loop.
THEOREM SortEnds ==
  \A r \in RateList :
     /\ Settled(Settle(r))
     /\ Settled(r) => Settle(r) = r
     /\ Settled(Pass(r)) => Settle(r) = Pass(r)
     /\ Settled(Pass(Pass(r))) => Settle(r) = Pass(Pass(r))
<1>1. \A r : Settled(r) => Pass(r) = r
  BY DEF Settled, Pass
<1>2. \A r \in RateList : Settled(Settle(r))
  BY SettleOrders
<1>. QED  BY <1>1, <1>2 DEF Settle

\* For every list with a first rate, whatever its indexes, their order, their
\* duplicates and their counts: what wfx_tx_fixup_rates makes of it is sorted
\* and complete, and what wfx_tx_fill_rates then reports adds up.
THEOREM FixupCorrect ==
  \A r \in RateList : r[1].idx # -1 => Fixed(r) /\ Filled(Fixup(r))
BY FixupFixes, FillShares

\* The lists that are checked are lists of rates with a first one.
LEMMA InputsAreLists == \A r \in Inputs : r \in RateList /\ r[1].idx # -1
<1>1. SUFFICES ASSUME NEW r \in Inputs
               PROVE  r \in RateList /\ r[1].idx # -1
  OBVIOUS
<1>2. PICK g \in BOOLEAN :
         r \in {<<a, b, c, d>> : a \in Offers(g), b \in Offers(~g) \cup {Unused},
                  c \in Offers(~g) \cup {Unused}, d \in Offers(~g) \cup {Unused}}
  BY DEF Inputs, Lists
<1>3. PICK a \in Offers(g), b \in Offers(~g) \cup {Unused},
           c \in Offers(~g) \cup {Unused}, d \in Offers(~g) \cup {Unused} :
         r = <<a, b, c, d>>
  BY <1>2
<1>4. \A h \in BOOLEAN : \A e \in Offers(h) : e \in Rate /\ e.idx # -1
  BY DEF Offers, Rate, Index, CountMax
<1>5. Unused \in Rate
  BY DEF Unused, Rate, Index, CountMax
<1>6. a \in Rate /\ b \in Rate /\ c \in Rate /\ d \in Rate /\ a.idx # -1
  BY <1>3, <1>4, <1>5
<1>. QED  BY <1>3, <1>6 DEF RateList, Slots

\* Whatever list came with a frame at the chip, its policy and the report made
\* for it are right.
THEOREM ListsFixedUp == Spec => []RatesFixedUp
<1>1. RatesFixedUp
  BY InputsAreLists, FixupCorrect DEF RatesFixedUp, AllFixedUp
<1>. QED  BY <1>1, PTL
=============================================================================
