-------------------------------- MODULE Scan --------------------------------
(***************************************************************************)
(* Scans of one interface (scan.c) next to the other users of tx_lock: a   *)
(* thread of mac80211 that joins or leaves a network, and the cooling of   *)
(* the chip (Cooling). That thread holds conf_mutex, as the scan does, in  *)
(* wfx_bss_info_changed, and no lock in wfx_join_ibss, wfx_leave_ibss and  *)
(* wfx_stop_ap. wfx_hw_scan_work asks the chip for one chunk of channels   *)
(* after the other (those with the same power and flags) and waits for     *)
(* each, with a timeout; wfx_cancel_hw_scan sets scan_abort and then stops *)
(* the chip, without any lock.                                             *)
(*                                                                         *)
(* A command to the chip is one step, taken when the chip handles it: as   *)
(* everything the chip has sent before its confirmation is handled first,  *)
(* the step needs `output' to be empty.  The chip reports the end of a     *)
(* stopped scan before or some time after it confirms the stop.  Commands  *)
(* fail at once when the chip is frozen.  The probe request's template and *)
(* the output power are messages without any effect here.                  *)
(***************************************************************************)
EXTENDS Cooling, Sequences

CONSTANTS
    Chunks,         \* chunks of channels in a request
    MaxScans        \* bound: requests of mac80211

ASSUME ScanAssumption == Chunks \in Nat \ {0} /\ MaxScans \in Nat

VARIABLES
    scanPc,         \* where wfx_hw_scan_work is
    chunk,          \* chan_cur, in chunks
    aborted,        \* what it will report: ret < 0
    scanAbort,      \* scan_abort
    complete,       \* the completion scan_complete
    confMutex,      \* owner of conf_mutex
    joining,        \* join_in_progress
    joinPc,         \* where the thread of mac80211 is, in wfx_join
    unlocked,       \* it is there, or was there last, without conf_mutex
    cancelPc,       \* where wfx_cancel_hw_scan is
    cancelled,      \* mac80211 has cancelled this request
    chipScans,      \* the chip scans
    owed,           \* scan_complete indications of stopped scans, still to come
    output,         \* indications on their way to the host
    requests,       \* counts the requests
    scanned,        \* chunks the chip has scanned to their end in this request
    lost,           \* the cancellation of this request was forgotten
    stale           \* what ended a wait may not be the end of its chunk

workVars   == <<scanPc, chunk, aborted, scanAbort, complete>>
confVars   == <<confMutex, joining, joinPc, unlocked>>
cancelVars == <<cancelPc, cancelled>>
chipVars   == <<chipScans, owed, output>>
ghostVars  == <<requests, scanned, lost, stale>>
scanVars   == <<workVars, confVars, cancelVars, chipVars, ghostVars>>
vars == <<txLock, coolingVars, scanVars>>

\* Type correctness of every variable.
TypeOK ==
    /\ CoolingTypeOK
    /\ scanPc \in {"idle", "queued", "join", "prepare", "request", "wait",
                   "stop", "stopped", "report"}
    /\ chunk \in 0 .. Chunks
    /\ aborted \in BOOLEAN
    /\ scanAbort \in BOOLEAN
    /\ complete \in Nat
    /\ confMutex \in {"none", "scan", "conf"}
    /\ joining \in BOOLEAN
    /\ joinPc \in {"idle", "conf", "join", "unlock"}
    /\ unlocked \in BOOLEAN
    /\ cancelPc \in {"idle", "stop", "stopped"}
    /\ cancelled \in BOOLEAN
    /\ chipScans \in BOOLEAN
    /\ owed \in Nat
    /\ output \in Seq({"end", "late"})
    /\ requests \in 0 .. MaxScans
    /\ scanned \in Nat
    /\ lost \in BOOLEAN
    /\ stale \in BOOLEAN

Init ==
    /\ CoolingInit
    /\ scanPc = "idle" /\ chunk = 0 /\ aborted = FALSE
    /\ scanAbort = FALSE /\ complete = 0
    /\ confMutex = "none" /\ joining = FALSE /\ joinPc = "idle"
    /\ unlocked = FALSE
    /\ cancelPc = "idle" /\ cancelled = FALSE
    /\ chipScans = FALSE /\ owed = 0 /\ output = <<>>
    /\ requests = 0 /\ scanned = 0 /\ lost = FALSE /\ stale = FALSE

-----------------------------------------------------------------------------
(* The work item *)

\* wfx_hw_scan.  mac80211 has one request at a time, and cancels it once.
HwScan ==
    /\ scanPc = "idle" /\ cancelPc = "idle"
    /\ requests < MaxScans
    /\ requests' = requests + 1
    /\ scanPc' = "queued"
    /\ chunk' = 0 /\ aborted' = FALSE
    /\ cancelled' = FALSE
    /\ scanned' = 0 /\ lost' = FALSE /\ stale' = FALSE
    /\ UNCHANGED <<txLock, coolingVars, scanAbort, complete, confVars, cancelPc,
                   chipVars>>

\* conf_mutex and scan_lock are taken, always together and in this order.
ScanStarts ==
    /\ scanPc = "queued"
    /\ confMutex = "none"
    /\ confMutex' = "scan"
    /\ scanPc' = IF joining THEN "join" ELSE "prepare"
    /\ UNCHANGED <<txLock, coolingVars, chunk, aborted, scanAbort, complete,
                   joining, joinPc, unlocked, cancelVars, chipVars, ghostVars>>

\* wfx_reset: it takes tx_lock, resets the interface and gives tx_lock back.
AbortJoin ==
    /\ scanPc = "join"
    /\ output = <<>> \/ chipFrozen
    /\ joining' = FALSE
    /\ scanPc' = "prepare"
    /\ UNCHANGED <<txLock, coolingVars, chunk, aborted, scanAbort, complete,
                   confMutex, joinPc, unlocked, cancelVars, chipVars, ghostVars>>

\* Mutant of Prepare: scan_complete is not reinitialised.
PrepareKeeps ==
    /\ scanPc = "prepare"
    /\ txLock' = txLock + 1
    /\ lost' = (lost \/ (cancelled /\ scanAbort))
    /\ scanAbort' = FALSE
    /\ scanPc' = "request"
    /\ UNCHANGED <<coolingVars, chunk, aborted, complete, confVars, cancelVars,
                   chipVars, requests, scanned, stale>>

\* send_scan_req, up to hif_scan.  A cancellation that came first is lost.
Prepare ==
    /\ scanPc = "prepare"
    /\ txLock' = txLock + 1
    /\ lost' = (lost \/ (cancelled /\ scanAbort))
    /\ scanAbort' = FALSE
    /\ complete' = 0
    /\ scanPc' = "request"
    /\ UNCHANGED <<coolingVars, chunk, aborted, confVars, cancelVars,
                   chipVars, requests, scanned, stale>>

\* hif_scan succeeds: an idle chip scans the chunk.
Accepted ==
    /\ scanPc = "request"
    /\ ~chipFrozen /\ output = <<>> /\ ~chipScans
    /\ chipScans' = TRUE
    /\ scanPc' = "wait"
    /\ UNCHANGED <<txLock, coolingVars, chunk, aborted, scanAbort, complete,
                   confVars, cancelVars, owed, output, ghostVars>>

\* hif_scan fails (-EIO): the chip refuses, or is frozen.
Refused ==
    /\ scanPc = "request"
    /\ chipFrozen \/ output = <<>>
    /\ txLock' = txLock - 1
    /\ aborted' = TRUE
    /\ scanPc' = "report"
    /\ UNCHANGED <<coolingVars, chunk, scanAbort, complete, confVars,
                   cancelVars, chipVars, ghostVars>>

\* The wait for scan_complete ends, and the loop of wfx_hw_scan_work goes on
\* unless the scan was aborted (-ECONNABORTED).
Waited ==
    /\ scanPc = "wait"
    /\ complete > 0
    /\ complete' = complete - 1
    /\ txLock' = txLock - 1
    /\ IF scanAbort
       THEN /\ aborted' = TRUE
            /\ scanPc' = "report"
            /\ UNCHANGED chunk
       ELSE /\ chunk' = chunk + 1
            /\ scanPc' = IF chunk + 1 < Chunks THEN "prepare" ELSE "report"
            /\ UNCHANGED aborted
    /\ UNCHANGED <<coolingVars, scanAbort, confVars, cancelVars,
                   chipVars, ghostVars>>

\* Mutant of WaitTimesOut: the wait has no timeout.
WaitTimesOutNever == scanPc = "none" /\ UNCHANGED vars

\* The wait times out: -ETIMEDOUT, after hif_stop_scan.
WaitTimesOut ==
    /\ scanPc = "wait"
    /\ complete = 0
    /\ txLock' = txLock - 1
    /\ aborted' = TRUE
    /\ scanPc' = "stop"
    /\ UNCHANGED <<coolingVars, chunk, scanAbort, complete, confVars,
                   cancelVars, chipVars, ghostVars>>

\* The chip handles hif_stop_scan.  It owes an indication if it was scanning,
\* which it sends at once or later.
ChipStops ==
    \/ /\ chipFrozen \/ ~chipScans
       /\ UNCHANGED chipVars
    \/ /\ ~chipFrozen /\ chipScans
       /\ chipScans' = FALSE
       /\ \/ output' = Append(output, "end") /\ UNCHANGED owed
          \/ owed' = owed + 1 /\ UNCHANGED output

StopAfterTimeout ==
    /\ scanPc = "stop"
    /\ ChipStops
    /\ scanPc' = "stopped"
    /\ UNCHANGED <<txLock, coolingVars, chunk, aborted, scanAbort, complete,
                   confVars, cancelVars, ghostVars>>

\* The confirmation of the stop is behind what the chip had sent.
StoppedAfterTimeout ==
    /\ scanPc = "stopped"
    /\ output = <<>> \/ chipFrozen
    /\ scanPc' = "report"
    /\ UNCHANGED <<txLock, coolingVars, chunk, aborted, scanAbort, complete,
                   confVars, cancelVars, chipVars, ghostVars>>

\* The mutexes are given back and ieee80211_scan_completed is called.
Report ==
    /\ scanPc = "report"
    /\ confMutex' = "none"
    /\ scanPc' = "idle"
    /\ UNCHANGED <<txLock, coolingVars, chunk, aborted, scanAbort, complete,
                   joining, joinPc, unlocked, cancelVars, chipVars, ghostVars>>

-----------------------------------------------------------------------------
(* The cancellation *)

Cancel ==
    /\ scanPc # "idle" /\ ~cancelled
    /\ cancelled' = TRUE
    /\ scanAbort' = TRUE
    /\ cancelPc' = "stop"
    /\ UNCHANGED <<txLock, coolingVars, scanPc, chunk, aborted, complete,
                   confVars, chipVars, ghostVars>>

CancelStops ==
    /\ cancelPc = "stop"
    /\ ChipStops
    /\ cancelPc' = "stopped"
    /\ UNCHANGED <<txLock, coolingVars, workVars, confVars, cancelled, ghostVars>>

CancelReturns ==
    /\ cancelPc = "stopped"
    /\ output = <<>> \/ chipFrozen
    /\ cancelPc' = "idle"
    /\ UNCHANGED <<txLock, coolingVars, workVars, confVars, cancelled, chipVars,
                   ghostVars>>

-----------------------------------------------------------------------------
(* The chip and the reception *)

\* The chip reaches the end of the chunk.
ChunkEnds ==
    /\ chipScans
    /\ chipScans' = FALSE
    /\ output' = Append(output, "end")
    /\ scanned' = scanned + 1
    /\ UNCHANGED <<txLock, coolingVars, workVars, confVars, cancelVars, owed,
                   requests, lost, stale>>

\* The chip reports at last the end of a scan it was told to stop.
LateEnd ==
    /\ owed > 0
    /\ owed' = owed - 1
    /\ output' = Append(output, "late")
    /\ UNCHANGED <<txLock, coolingVars, workVars, confVars, cancelVars,
                   chipScans, ghostVars>>

\* wfx_scan_complete.  After a chunk is accepted only a late indication is
\* not that chunk's.
ScanComplete ==
    /\ output # <<>>
    /\ output' = Tail(output)
    /\ complete' = complete + 1
    /\ stale' = (stale \/ scanPc = "request"
                       \/ (scanPc = "wait" /\ Head(output) = "late"))
    /\ UNCHANGED <<txLock, coolingVars, scanPc, chunk, aborted, scanAbort,
                   confVars, cancelVars, chipScans, owed, requests, scanned, lost>>

-----------------------------------------------------------------------------
(* The thread of mac80211; it serialises the callbacks of an interface *)

\* wfx_bss_info_changed.
ConfStarts ==
    /\ joinPc = "idle"
    /\ confMutex = "none"
    /\ confMutex' = "conf"
    /\ joinPc' = "conf" /\ unlocked' = FALSE
    /\ UNCHANGED <<txLock, coolingVars, workVars, joining, cancelVars, chipVars,
                   ghostVars>>

\* wfx_join_ibss, wfx_leave_ibss, wfx_stop_ap.
IbssStarts ==
    /\ joinPc = "idle"
    /\ joinPc' = "conf" /\ unlocked' = TRUE
    /\ UNCHANGED <<txLock, coolingVars, workVars, joining, confMutex, cancelVars,
                   chipVars, ghostVars>>

ConfReturns ==
    /\ joinPc' = "idle"
    /\ confMutex' = IF unlocked THEN confMutex ELSE "none"

\* wfx_join finds no BSS; or under conf_mutex the change is no join, or the
\* association is complete (wfx_join_finalize).
ConfEnds ==
    /\ joinPc = "conf"
    /\ \/ UNCHANGED joining
       \/ ~unlocked /\ joining' = FALSE
    /\ ConfReturns
    /\ UNCHANGED <<txLock, coolingVars, workVars, unlocked, cancelVars, chipVars,
                   ghostVars>>

\* wfx_join, up to hif_join.
JoinLocks ==
    /\ joinPc = "conf"
    /\ txLock' = txLock + 1
    /\ joining' = TRUE
    /\ joinPc' = "join"
    /\ UNCHANGED <<coolingVars, workVars, confMutex, unlocked, cancelVars, chipVars,
                   ghostVars>>

\* A join or a reset in the middle of a scan, which conf_mutex has not kept
\* apart, may end what the chip scans.
Disturbs ==
    \/ UNCHANGED <<chipVars, stale>>
    \/ chipScans /\ ~chipFrozen /\ ChipStops /\ stale' = TRUE

\* hif_join succeeds, or fails and wfx_reset ends the join.
Join ==
    /\ joinPc = "join"
    /\ output = <<>> \/ chipFrozen
    /\ joining' \in {~chipFrozen, FALSE}
    /\ joinPc' = "unlock"
    /\ Disturbs
    /\ UNCHANGED <<txLock, coolingVars, workVars, confMutex, unlocked, cancelVars,
                   requests, scanned, lost>>

JoinUnlocks ==
    /\ joinPc = "unlock"
    /\ txLock' = txLock - 1
    /\ ConfReturns
    /\ UNCHANGED <<coolingVars, workVars, joining, unlocked, cancelVars, chipVars,
                   ghostVars>>

\* wfx_reset in wfx_leave_ibss and wfx_stop_ap.
Leave ==
    /\ joinPc = "conf" /\ unlocked
    /\ output = <<>> \/ chipFrozen
    /\ joining' = FALSE
    /\ ConfReturns
    /\ Disturbs
    /\ UNCHANGED <<txLock, coolingVars, workVars, unlocked, cancelVars,
                   requests, scanned, lost>>

-----------------------------------------------------------------------------
Work == ScanStarts \/ AbortJoin \/ Prepare \/ Accepted \/ Refused \/ Waited
          \/ WaitTimesOut \/ StopAfterTimeout \/ StoppedAfterTimeout \/ Report
CancelThread == CancelStops \/ CancelReturns
Reception == ScanComplete
ConfThread == JoinLocks \/ Join \/ JoinUnlocks \/ ConfEnds \/ Leave

Next ==
    \/ HwScan \/ Work \/ Cancel \/ CancelThread
    \/ ChunkEnds \/ LateEnd \/ Reception
    \/ ConfStarts \/ IbssStarts \/ ConfThread
    \/ CoolingNext /\ UNCHANGED scanVars

Spec == Init /\ [][Next]_vars

\* The work queue, the cancelling thread, the thread of mac80211 and the
\* bottom half run; mutexes are fair, as ScanStarts competes for conf_mutex.
\* Nothing is assumed of the chip: the waits for it have timeouts.
FairSpec ==
    /\ Spec
    /\ WF_vars(Work) /\ SF_vars(ScanStarts)
    /\ WF_vars(CancelThread) /\ WF_vars(Reception) /\ WF_vars(ConfThread)

-----------------------------------------------------------------------------
\* tx_lock counts exactly those that hold it: a chunk being asked or waited
\* for, a join, the cooling of the chip.  Hence wfx_tx_unlock never warns
\* "inconsistent tx_lock value", and frames leave again when nobody holds it;
\* except that each notification of heat received while the timeout is pending
\* takes a lock that nothing gives back.
LockExact ==
    txLock = B2N(scanPc \in {"request", "wait"})
               + B2N(joinPc \in {"join", "unlock"}) + CoolingHolds

\* What mac80211 is told is a complete scan is one: the chip has scanned every
\* chunk to its end, unless the request was cancelled and the work item forgot
\* it, or an indication that belongs to another chunk ended a wait, or an IBSS
\* was joined or left during the scan, with which it shares no lock.
CompleteMeansScanned ==
    scanPc = "report" /\ ~aborted => (scanned >= Chunks) \/ lost \/ stale

\* Every request is reported to mac80211, whatever the chip does.
ScanEnds == scanPc = "queued" ~> scanPc = "idle"
=============================================================================
