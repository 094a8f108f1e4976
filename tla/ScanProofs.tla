----------------------------- MODULE ScanProofs -----------------------------
(***************************************************************************)
(* Theorems about Scan, for any number of chunks, of requests and of       *)
(* notifications of heat.                                                  *)
(***************************************************************************)
EXTENDS Scan, TLAPS

-----------------------------------------------------------------------------
(* The inductive invariant *)

\* conf_mutex belongs to the thread that is past taking it.
ConfOwner ==
    /\ confMutex = "scan" <=> scanPc \notin {"idle", "queued"}
    /\ confMutex = "conf" <=> joinPc # "idle" /\ ~unlocked

\* There is a chunk left while the work asks for one.
ChunkLeft ==
    scanPc \in {"queued", "join", "prepare", "request", "wait"}
        => chunk < Chunks

RepeatsCounted == repeats <= hots

\* The chip is not asked to scan while a join is in progress, except one that
\* wfx_join_ibss began without conf_mutex.
NoScanWhileJoining ==
    scanPc \in {"prepare", "request", "wait"} => ~joining \/ unlocked

\* A cancellation sets scan_abort, which only a new chunk resets.
CancelKept ==
    /\ cancelPc = "stop" => cancelled
    /\ cancelled => scanAbort \/ lost

\* The chunks before this one have been scanned; and the wait for this one
\* goes on until the chip ends it or is stopped by a cancellation.
Progress ==
    \/ lost \/ stale \/ aborted
    \/ /\ scanPc \in {"queued", "join", "prepare", "request", "wait"}
             => scanned >= chunk
       /\ scanPc = "request" => complete = 0
       /\ scanPc = "wait" /\ chipScans =>
             /\ complete = 0
             /\ \A i \in DOMAIN output : output[i] # "end"
       /\ scanPc = "wait" /\ ~chipScans => scanAbort \/ scanned > chunk
       /\ scanPc \in {"stop", "stopped"} => FALSE
       /\ scanPc = "report" => scanned >= Chunks

Inv == TypeOK /\ ConfOwner /\ ChunkLeft /\ RepeatsCounted /\ LockExact
         /\ NoScanWhileJoining /\ CancelKept /\ Progress

-----------------------------------------------------------------------------
(* Each step keeps the invariant *)

\* Every step keeps the types.
LEMMA KeepsTypes ==
  ASSUME TypeOK, ChunkLeft, RepeatsCounted, [Next]_vars
  PROVE  TypeOK' /\ ChunkLeft' /\ RepeatsCounted'
<1>. USE CoolingAssumption, ScanAssumption DEF TypeOK, CoolingTypeOK,
      ChunkLeft, RepeatsCounted, B2N, vars, coolingVars, workVars, confVars,
      cancelVars, chipVars, ghostVars, scanVars
<1>1. CASE HwScan
  <2>1. aborted' \in BOOLEAN /\ cancelled' \in BOOLEAN /\ lost' \in BOOLEAN /\ stale' \in BOOLEAN
    BY <1>1 DEF HwScan
  <2>. QED  BY <1>1, <2>1 DEF HwScan
<1>2. CASE ScanStarts
  BY <1>2 DEF ScanStarts
<1>3. CASE AbortJoin
  <2>1. joining' \in BOOLEAN
    BY <1>3 DEF AbortJoin
  <2>. QED  BY <1>3, <2>1 DEF AbortJoin
<1>4. CASE Prepare
  <2>1. lost' \in BOOLEAN /\ scanAbort' \in BOOLEAN
    BY <1>4 DEF Prepare
  <2>. QED  BY <1>4, <2>1 DEF Prepare
<1>5. CASE Accepted
  BY <1>5 DEF Accepted
<1>6. CASE Refused
  BY <1>6 DEF Refused
<1>7. CASE Waited
  <2>1. aborted' \in BOOLEAN
    BY <1>7 DEF Waited
  <2>. QED  BY <1>7, <2>1 DEF Waited
<1>8. CASE WaitTimesOut
  BY <1>8 DEF WaitTimesOut
<1>9. CASE StopAfterTimeout
  <2>1. chipScans' \in BOOLEAN
    BY <1>9 DEF StopAfterTimeout, ChipStops
  <2>. QED  BY <1>9, <2>1 DEF StopAfterTimeout, ChipStops
<1>10. CASE StoppedAfterTimeout
  BY <1>10 DEF StoppedAfterTimeout
<1>11. CASE Report
  BY <1>11 DEF Report
<1>12. CASE Cancel
  BY <1>12 DEF Cancel
<1>13. CASE CancelStops
  <2>1. chipScans' \in BOOLEAN /\ output' \in Seq({"end", "late"}) /\ owed' \in Nat
    <3>1. chipScans' \in BOOLEAN
      BY <1>13 DEF CancelStops, ChipStops
    <3>2. output' = output \/ output' = Append(output, "end")
      BY <1>13 DEF CancelStops, ChipStops
    <3>3. owed' = owed \/ owed' = owed + 1
      BY <1>13 DEF CancelStops, ChipStops
    <3>. QED  BY <3>1, <3>2, <3>3
  <2>. QED  BY <1>13, <2>1 DEF CancelStops
<1>14. CASE CancelReturns
  BY <1>14 DEF CancelReturns
<1>15. CASE ChunkEnds
  <2>1. chipScans' \in BOOLEAN
    BY <1>15 DEF ChunkEnds
  <2>. QED  BY <1>15, <2>1 DEF ChunkEnds
<1>16. CASE LateEnd
  BY <1>16 DEF LateEnd
<1>17. CASE ScanComplete
  BY <1>17 DEF ScanComplete
<1>18. CASE ConfStarts
  <2>1. unlocked' \in BOOLEAN
    BY <1>18 DEF ConfStarts
  <2>. QED  BY <1>18, <2>1 DEF ConfStarts
<1>19. CASE JoinLocks
  BY <1>19 DEF JoinLocks
<1>20. CASE Join
  <2>1. joining' \in BOOLEAN /\ stale' \in BOOLEAN /\ chipScans' \in BOOLEAN
    BY <1>20 DEF Join, Disturbs, ChipStops
  <2>. QED  BY <1>20, <2>1 DEF Join, Disturbs, ChipStops
<1>21. CASE JoinUnlocks
  BY <1>21 DEF JoinUnlocks, ConfReturns
<1>22. CASE ConfEnds
  <2>1. joining' \in BOOLEAN
    BY <1>22 DEF ConfEnds, ConfReturns
  <2>. QED  BY <1>22, <2>1 DEF ConfEnds, ConfReturns
<1>28. CASE IbssStarts
  <2>1. unlocked' \in BOOLEAN
    BY <1>28 DEF IbssStarts
  <2>. QED  BY <1>28, <2>1 DEF IbssStarts
<1>29. CASE Leave
  <2>1. joining' \in BOOLEAN /\ stale' \in BOOLEAN /\ chipScans' \in BOOLEAN
    BY <1>29 DEF Leave, Disturbs, ChipStops
  <2>. QED  BY <1>29, <2>1 DEF Leave, ConfReturns, Disturbs, ChipStops
<1>23. CASE Hot /\ UNCHANGED scanVars
  <2>1. cooling' \in BOOLEAN
    BY <1>23 DEF Hot
  <2>. QED  BY <1>23, <2>1 DEF Hot
<1>24. CASE Cool /\ UNCHANGED scanVars
  <2>1. cooling' \in BOOLEAN
    BY <1>24 DEF Cool
  <2>. QED  BY <1>24, <2>1 DEF Cool
<1>25. CASE CoolTimeout /\ UNCHANGED scanVars
  <2>1. cooling' \in BOOLEAN /\ timedOut' \in BOOLEAN /\ chipFrozen' \in BOOLEAN
    BY <1>25 DEF CoolTimeout
  <2>. QED  BY <1>25, <2>1 DEF CoolTimeout
<1>26. CASE CoolUnlock /\ UNCHANGED scanVars
  <2>1. timedOut' \in BOOLEAN
    BY <1>26 DEF CoolUnlock
  <2>. QED  BY <1>26, <2>1 DEF CoolUnlock
<1>27. CASE UNCHANGED vars
  BY <1>27
<1>. QED  BY <1>1, <1>2, <1>3, <1>4, <1>5, <1>6, <1>7, <1>8, <1>9, <1>10,
  <1>11, <1>12, <1>13, <1>14, <1>15, <1>16, <1>17, <1>18, <1>19, <1>20, <1>21,
  <1>22, <1>23, <1>24, <1>25, <1>26, <1>27, <1>28, <1>29 DEF Next, Work, CancelThread,
  Reception, ConfThread, CoolingNext

\* Every step keeps the owner of conf_mutex, under which no join starts during a
\* scan.
LEMMA KeepsOwner ==
  ASSUME TypeOK, ConfOwner, NoScanWhileJoining, [Next]_vars
  PROVE  ConfOwner' /\ NoScanWhileJoining'
<1>. USE CoolingAssumption, ScanAssumption DEF TypeOK, ConfOwner,
      NoScanWhileJoining, vars, coolingVars, workVars, confVars, cancelVars,
      chipVars, ghostVars, scanVars
<1>1. CASE HwScan
  BY <1>1 DEF HwScan
<1>2. CASE ScanStarts
  BY <1>2 DEF ScanStarts
<1>3. CASE AbortJoin
  BY <1>3 DEF AbortJoin
<1>4. CASE Prepare
  BY <1>4 DEF Prepare
<1>5. CASE Accepted
  BY <1>5 DEF Accepted
<1>6. CASE Refused
  BY <1>6 DEF Refused
<1>7. CASE Waited
  BY <1>7 DEF Waited
<1>8. CASE WaitTimesOut
  BY <1>8 DEF WaitTimesOut
<1>9. CASE StopAfterTimeout
  BY <1>9 DEF StopAfterTimeout, ChipStops
<1>10. CASE StoppedAfterTimeout
  BY <1>10 DEF StoppedAfterTimeout
<1>11. CASE Report
  BY <1>11 DEF Report
<1>12. CASE Cancel
  BY <1>12 DEF Cancel
<1>13. CASE CancelStops
  BY <1>13 DEF CancelStops, ChipStops
<1>14. CASE CancelReturns
  BY <1>14 DEF CancelReturns
<1>15. CASE ChunkEnds
  BY <1>15 DEF ChunkEnds
<1>16. CASE LateEnd
  BY <1>16 DEF LateEnd
<1>17. CASE ScanComplete
  BY <1>17 DEF ScanComplete
<1>18. CASE ConfStarts
  BY <1>18 DEF ConfStarts
<1>19. CASE JoinLocks
  BY <1>19 DEF JoinLocks
<1>20. CASE Join
  BY <1>20 DEF Join, Disturbs, ChipStops
<1>21. CASE JoinUnlocks
  BY <1>21 DEF JoinUnlocks, ConfReturns
<1>22. CASE ConfEnds
  BY <1>22 DEF ConfEnds, ConfReturns
<1>28. CASE IbssStarts
  BY <1>28 DEF IbssStarts
<1>29. CASE Leave
  BY <1>29 DEF Leave, ConfReturns, Disturbs, ChipStops
<1>23. CASE Hot /\ UNCHANGED scanVars
  BY <1>23 DEF Hot
<1>24. CASE Cool /\ UNCHANGED scanVars
  BY <1>24 DEF Cool
<1>25. CASE CoolTimeout /\ UNCHANGED scanVars
  BY <1>25 DEF CoolTimeout
<1>26. CASE CoolUnlock /\ UNCHANGED scanVars
  BY <1>26 DEF CoolUnlock
<1>27. CASE UNCHANGED vars
  BY <1>27
<1>. QED  BY <1>1, <1>2, <1>3, <1>4, <1>5, <1>6, <1>7, <1>8, <1>9, <1>10,
  <1>11, <1>12, <1>13, <1>14, <1>15, <1>16, <1>17, <1>18, <1>19, <1>20, <1>21,
  <1>22, <1>23, <1>24, <1>25, <1>26, <1>27, <1>28, <1>29 DEF Next, Work, CancelThread,
  Reception, ConfThread, CoolingNext

\* Every step keeps tx_lock and its holders in balance.
LEMMA KeepsLock ==
  ASSUME TypeOK, ConfOwner, LockExact, [Next]_vars
  PROVE  LockExact'
<1>. USE CoolingAssumption, ScanAssumption DEF TypeOK, CoolingTypeOK,
      ConfOwner, LockExact, CoolingHolds, B2N, vars, coolingVars, workVars,
      confVars, cancelVars, chipVars, ghostVars, scanVars
<1>1. CASE HwScan
  BY <1>1 DEF HwScan
<1>2. CASE ScanStarts
  BY <1>2 DEF ScanStarts
<1>3. CASE AbortJoin
  BY <1>3 DEF AbortJoin
<1>4. CASE Prepare
  BY <1>4 DEF Prepare
<1>5. CASE Accepted
  BY <1>5 DEF Accepted
<1>6. CASE Refused
  BY <1>6 DEF Refused
<1>7. CASE Waited
  BY <1>7 DEF Waited
<1>8. CASE WaitTimesOut
  BY <1>8 DEF WaitTimesOut
<1>9. CASE StopAfterTimeout
  BY <1>9 DEF StopAfterTimeout, ChipStops
<1>10. CASE StoppedAfterTimeout
  BY <1>10 DEF StoppedAfterTimeout
<1>11. CASE Report
  BY <1>11 DEF Report
<1>12. CASE Cancel
  BY <1>12 DEF Cancel
<1>13. CASE CancelStops
  BY <1>13 DEF CancelStops, ChipStops
<1>14. CASE CancelReturns
  BY <1>14 DEF CancelReturns
<1>15. CASE ChunkEnds
  BY <1>15 DEF ChunkEnds
<1>16. CASE LateEnd
  BY <1>16 DEF LateEnd
<1>17. CASE ScanComplete
  BY <1>17 DEF ScanComplete
<1>18. CASE ConfStarts
  BY <1>18 DEF ConfStarts
<1>19. CASE JoinLocks
  BY <1>19 DEF JoinLocks
<1>20. CASE Join
  BY <1>20 DEF Join, Disturbs, ChipStops
<1>21. CASE JoinUnlocks
  BY <1>21 DEF JoinUnlocks, ConfReturns
<1>22. CASE ConfEnds
  BY <1>22 DEF ConfEnds, ConfReturns
<1>28. CASE IbssStarts
  BY <1>28 DEF IbssStarts
<1>29. CASE Leave
  BY <1>29 DEF Leave, ConfReturns, Disturbs, ChipStops
<1>23. CASE Hot /\ UNCHANGED scanVars
  BY <1>23 DEF Hot
<1>24. CASE Cool /\ UNCHANGED scanVars
  BY <1>24 DEF Cool
<1>25. CASE CoolTimeout /\ UNCHANGED scanVars
  BY <1>25 DEF CoolTimeout
<1>26. CASE CoolUnlock /\ UNCHANGED scanVars
  BY <1>26 DEF CoolUnlock
<1>27. CASE UNCHANGED vars
  BY <1>27
<1>. QED  BY <1>1, <1>2, <1>3, <1>4, <1>5, <1>6, <1>7, <1>8, <1>9, <1>10,
  <1>11, <1>12, <1>13, <1>14, <1>15, <1>16, <1>17, <1>18, <1>19, <1>20, <1>21,
  <1>22, <1>23, <1>24, <1>25, <1>26, <1>27, <1>28, <1>29 DEF Next, Work, CancelThread,
  Reception, ConfThread, CoolingNext

\* Every step keeps what is known of the chunks.
LEMMA KeepsProgress ==
  ASSUME TypeOK, ChunkLeft, CancelKept, Progress, [Next]_vars
  PROVE  CancelKept' /\ Progress'
<1>. USE CoolingAssumption, ScanAssumption DEF TypeOK, CoolingTypeOK,
      ChunkLeft, CancelKept, Progress, B2N, vars, coolingVars, workVars,
      confVars, cancelVars, chipVars, ghostVars, scanVars
<1>1. CASE HwScan
  BY <1>1 DEF HwScan
<1>2. CASE ScanStarts
  BY <1>2 DEF ScanStarts
<1>3. CASE AbortJoin
  BY <1>3 DEF AbortJoin
<1>4. CASE Prepare
  BY <1>4 DEF Prepare
<1>5. CASE Accepted
  BY <1>5 DEF Accepted
<1>6. CASE Refused
  BY <1>6 DEF Refused
<1>7. CASE Waited
  BY <1>7 DEF Waited
<1>8. CASE WaitTimesOut
  BY <1>8 DEF WaitTimesOut
<1>9. CASE StopAfterTimeout
  BY <1>9 DEF StopAfterTimeout, ChipStops
<1>10. CASE StoppedAfterTimeout
  BY <1>10 DEF StoppedAfterTimeout
<1>11. CASE Report
  BY <1>11 DEF Report
<1>12. CASE Cancel
  BY <1>12 DEF Cancel
<1>13. CASE CancelStops
  BY <1>13 DEF CancelStops, ChipStops
<1>14. CASE CancelReturns
  BY <1>14 DEF CancelReturns
<1>15. CASE ChunkEnds
  BY <1>15 DEF ChunkEnds
<1>16. CASE LateEnd
  BY <1>16 DEF LateEnd
<1>17. CASE ScanComplete
  <2>1. Head(output) \in {"end", "late"} /\ Head(output) = output[1] /\ 1 \in DOMAIN output
    BY <1>17 DEF ScanComplete
  <2>2. scanPc = "wait" /\ chipScans => lost \/ stale' \/ aborted
    BY <1>17, <2>1 DEF ScanComplete
  <2>. QED  BY <1>17, <2>2 DEF ScanComplete
<1>18. CASE ConfStarts
  BY <1>18 DEF ConfStarts
<1>19. CASE JoinLocks
  BY <1>19 DEF JoinLocks
<1>20. CASE Join
  BY <1>20 DEF Join, Disturbs, ChipStops
<1>21. CASE JoinUnlocks
  BY <1>21 DEF JoinUnlocks, ConfReturns
<1>22. CASE ConfEnds
  BY <1>22 DEF ConfEnds, ConfReturns
<1>28. CASE IbssStarts
  BY <1>28 DEF IbssStarts
<1>29. CASE Leave
  BY <1>29 DEF Leave, ConfReturns, Disturbs, ChipStops
<1>23. CASE Hot /\ UNCHANGED scanVars
  BY <1>23 DEF Hot
<1>24. CASE Cool /\ UNCHANGED scanVars
  BY <1>24 DEF Cool
<1>25. CASE CoolTimeout /\ UNCHANGED scanVars
  BY <1>25 DEF CoolTimeout
<1>26. CASE CoolUnlock /\ UNCHANGED scanVars
  BY <1>26 DEF CoolUnlock
<1>27. CASE UNCHANGED vars
  BY <1>27
<1>. QED  BY <1>1, <1>2, <1>3, <1>4, <1>5, <1>6, <1>7, <1>8, <1>9, <1>10,
  <1>11, <1>12, <1>13, <1>14, <1>15, <1>16, <1>17, <1>18, <1>19, <1>20, <1>21,
  <1>22, <1>23, <1>24, <1>25, <1>26, <1>27, <1>28, <1>29 DEF Next, Work, CancelThread,
  Reception, ConfThread, CoolingNext

-----------------------------------------------------------------------------
(* The theorems *)

\* The invariant holds in every state.
THEOREM Invariance == Spec => []Inv
<1>1. Init => Inv
  <2>. SUFFICES ASSUME Init PROVE Inv
    OBVIOUS
  <2>. USE CoolingAssumption, ScanAssumption DEF Init, CoolingInit
  <2>1. CoolingTypeOK
    <3>1. chipFrozen \in BOOLEAN /\ cooling \in BOOLEAN /\ timedOut \in BOOLEAN
      OBVIOUS
    <3>. QED  BY <3>1 DEF CoolingTypeOK
  <2>2. TypeOK
    <3>1. /\ aborted \in BOOLEAN /\ scanAbort \in BOOLEAN /\ joining \in BOOLEAN
          /\ unlocked \in BOOLEAN /\ cancelled \in BOOLEAN /\ chipScans \in BOOLEAN
          /\ lost \in BOOLEAN /\ stale \in BOOLEAN
      OBVIOUS
    <3>. QED  BY <2>1, <3>1 DEF TypeOK
  <2>3. ConfOwner /\ ChunkLeft /\ RepeatsCounted /\ NoScanWhileJoining
    BY DEF ConfOwner, ChunkLeft, RepeatsCounted, NoScanWhileJoining
  <2>4. LockExact
    BY DEF LockExact, CoolingHolds, B2N
  <2>5. CancelKept /\ Progress
    BY DEF CancelKept, Progress
  <2>. QED  BY <2>2, <2>3, <2>4, <2>5 DEF Inv
<1>2. Inv /\ [Next]_vars => Inv'
  BY KeepsTypes, KeepsOwner, KeepsLock, KeepsProgress DEF Inv
<1>. QED  BY <1>1, <1>2, PTL DEF Spec

\* Every variable keeps its type; above all, no completion and no chunk is
\* counted below zero or past the last.
THEOREM TypeCorrect == Spec => []TypeOK
<1>1. Inv => TypeOK
  BY DEF Inv
<1>. QED  BY <1>1, Invariance, PTL

\* tx_lock is what its holders account for: a chunk, a join, the heat.
THEOREM LockBalanced == Spec => []LockExact
<1>1. Inv => LockExact
  BY DEF Inv
<1>. QED  BY <1>1, Invariance, PTL

\* A scan that is reported complete has been scanned, unless its cancellation
\* was lost or an indication of another scan came in between.
THEOREM ScannedWhenComplete == Spec => []CompleteMeansScanned
<1>1. Inv => CompleteMeansScanned
  BY DEF Inv, Progress, CompleteMeansScanned
<1>. QED  BY <1>1, Invariance, PTL

\* wfx_hw_scan_work never asks for a scan while a join that began under
\* conf_mutex is in progress, be it not yet answered or not yet finalized: what it
\* finds when it has the mutex it resets, and no other begins. Only wfx_join_ibss
\* can set join_in_progress during a scan.
THEOREM JoinAborted == Spec => []NoScanWhileJoining
<1>1. Inv => NoScanWhileJoining
  BY DEF Inv
<1>. QED  BY <1>1, Invariance, PTL
=============================================================================
