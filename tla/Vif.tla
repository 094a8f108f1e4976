-------------------------------- MODULE Vif --------------------------------
(***************************************************************************)
(* The life of one interface in station mode (sta.c), with the tables of   *)
(* Stations.  A change of the power save mode (wfx_update_pm) waits at most*)
(* 512 TU for the indication of the change before, the completion          *)
(* set_pm_mode_complete.  It is called by a thread that holds conf_mutex   *)
(* (wfx_bss_info_changed, wfx_conf_tx) and, without it, by another that    *)
(* starts or stops an access point on the second interface.  The loss of   *)
(* beacons is reported by a delayed work that schedules itself again, until*)
(* the chip regains the network or the interface is reset.                 *)
(*                                                                         *)
(* Indications arrive in order, and a command is one step, taken when all  *)
(* that the chip sent before its confirmation has been handled.  mac80211  *)
(* serialises wfx_remove_interface with both threads.                      *)
(***************************************************************************)
EXTENDS Stations, Sequences

CONSTANTS
    MaxEvents,      \* bound: events of the chip
    MaxPm           \* bound: calls of wfx_update_pm

ASSUME VifAssumption == MaxEvents \in Nat /\ MaxPm \in Nat

Threads == {"conf", "ap"}

VARIABLES
    present,        \* the interface is in wdev->vif
    assoc,          \* bss_conf.assoc
    pmPc,           \* where wfx_update_pm is in each thread
    pmDone,         \* the completion set_pm_mode_complete
    resetPc,        \* where wfx_reset is, in the thread of conf_mutex
    removePc,       \* where wfx_remove_interface is
    lossPending, lossRunning,   \* beacon_loss_work
    joined,         \* the chip has joined a network and watches its beacons
    chipPm,         \* changes of mode under way in the chip
    indications,    \* on their way to the host
    events, pms,    \* counts
    overlap,        \* a wait timed out while a change was under way
    lost,           \* since the last join, the last event was BSSLOST
    raced,          \* BSSREGAINED was handled while the work ran
    stale,          \* the chip joined again while the work was scheduled
    orphan          \* an indication found no interface

pmVars   == <<pmPc, pmDone, pms, overlap>>
lossVars == <<lossPending, lossRunning, lost, raced, stale>>
lifeVars == <<present, assoc, resetPc, removePc>>
chipVars == <<joined, chipPm, indications, events>>
vars == <<staVars, keyVars, pmVars, lossVars, lifeVars, chipVars, orphan>>

\* Type correctness of every variable.
TypeOK ==
    /\ StationsTypeOK
    /\ present \in BOOLEAN /\ assoc \in BOOLEAN
    /\ pmPc \in [Threads -> {"idle", "wait", "set"}]
    /\ pmDone \in Nat
    /\ resetPc \in {"idle", "chip", "cancel"}
    /\ removePc \in {"idle", "wait", "reset", "cancel"}
    /\ lossPending \in BOOLEAN /\ lossRunning \in BOOLEAN
    /\ joined \in BOOLEAN
    /\ chipPm \in Nat
    /\ indications \in Seq({"pm", "lost", "regained"})
    /\ events \in 0 .. MaxEvents /\ pms \in 0 .. MaxPm
    /\ overlap \in BOOLEAN /\ orphan \in BOOLEAN
    /\ lost \in BOOLEAN /\ raced \in BOOLEAN /\ stale \in BOOLEAN

Init ==
    /\ StationsInit
    /\ present = FALSE /\ assoc = FALSE
    /\ pmPc = [t \in Threads |-> "idle"] /\ pmDone = 0
    /\ resetPc = "idle" /\ removePc = "idle"
    /\ lossPending = FALSE /\ lossRunning = FALSE
    /\ joined = FALSE /\ chipPm = 0 /\ indications = <<>>
    /\ events = 0 /\ pms = 0
    /\ overlap = FALSE /\ orphan = FALSE
    /\ lost = FALSE /\ raced = FALSE /\ stale = FALSE

ConfIdle == pmPc["conf"] = "idle" /\ resetPc = "idle"
Ready == present /\ removePc = "idle"

-----------------------------------------------------------------------------
(* Adding and removing the interface *)

AddInterface ==
    /\ ~present
    /\ present' = TRUE
    /\ pmDone' = 1
    /\ UNCHANGED <<staVars, keyVars, pmPc, pms, overlap, lossVars, assoc,
                   resetPc, removePc, chipVars, orphan>>

\* mac80211 has disassociated the interface and removed its stations.  The
\* chip may still watch a network: after a failed authentication mac80211 only
\* clears the BSSID, for which wfx_join does nothing.
RemoveStarts ==
    /\ Ready /\ ~assoc
    /\ \A t \in Threads : pmPc[t] = "idle"
    /\ resetPc = "idle"
    /\ Added = {}
    /\ removePc' = "wait"
    /\ UNCHANGED <<staVars, keyVars, pmVars, lossVars, present, assoc, resetPc,
                   chipVars, orphan>>

\* A change of mode is under way: asked, or its indication on its way.
Pms == chipPm + Cardinality({i \in DOMAIN indications : indications[i] = "pm"})
Setting == {t \in Threads : pmPc[t] = "set"}
UnderWay == Pms > 0 \/ Setting # {}

\* Mutant of RemoveWaits: the last change of mode is not waited for.
RemoveWaitsNot ==
    /\ removePc = "wait"
    /\ removePc' = "reset"
    /\ UNCHANGED <<staVars, keyVars, pmVars, lossVars, present, assoc, resetPc,
                   chipVars, orphan>>

\* The wait for set_pm_mode_complete, 300 ms.
RemoveWaits ==
    /\ removePc = "wait"
    /\ removePc' = "reset"
    /\ \/ pmDone > 0 /\ pmDone' = pmDone - 1 /\ UNCHANGED overlap
       \/ pmDone = 0 /\ overlap' = (overlap \/ UnderWay) /\ UNCHANGED pmDone
    /\ UNCHANGED <<staVars, keyVars, pmPc, pms, lossVars, present, assoc,
                   resetPc, chipVars, orphan>>

\* hif_reset: the chip leaves the network and may forget a change of mode.
ChipResets ==
    /\ indications = <<>>
    /\ joined' = FALSE
    /\ chipPm' \in {chipPm, 0}
    /\ UNCHANGED <<indications, events>>

RemoveResets ==
    /\ removePc = "reset"
    /\ ChipResets
    /\ removePc' = "cancel"
    /\ UNCHANGED <<staVars, keyVars, pmVars, lossVars, present, assoc, resetPc,
                   orphan>>

\* cancel_delayed_work_sync: it waits for the work and keeps it from being
\* scheduled again.
CancelSync ==
    /\ ~lossRunning
    /\ lossPending' = FALSE
    /\ UNCHANGED lossRunning

RemoveEnds ==
    /\ removePc = "cancel"
    /\ CancelSync
    /\ present' = FALSE
    /\ removePc' = "idle"
    /\ UNCHANGED <<staVars, keyVars, pmVars, lost, raced, stale, assoc,
                   resetPc, chipVars, orphan>>

-----------------------------------------------------------------------------
(* Joining and leaving a network, under conf_mutex *)

\* wfx_join, for each change of the BSSID, the basic rates or the beacon interval
\* of a BSS that cfg80211 knows, and also if the chip has joined already.
\* Nothing resets the interface before, and beacon_loss_work stays scheduled.
\* If the chip refuses, wfx_reset follows.
Join ==
    /\ Ready /\ ConfIdle
    /\ indications = <<>>
    /\ \/ /\ joined' = TRUE
          /\ lost' = FALSE /\ raced' = FALSE
          /\ stale' = (lossPending \/ lossRunning)
          /\ UNCHANGED resetPc
       \/ /\ joined' \in {joined, FALSE}
          /\ resetPc' = "chip"
          /\ UNCHANGED <<lost, raced, stale>>
    /\ UNCHANGED <<staVars, keyVars, pmVars, lossPending, lossRunning, present,
                   assoc, removePc, chipPm, indications, events, orphan>>

\* The call of wfx_update_pm by the thread that holds conf_mutex, whose first
\* step is the wait.
AsksPm ==
    /\ pms < MaxPm /\ pms' = pms + 1
    /\ pmPc' = [pmPc EXCEPT !["conf"] = "wait"]

\* bss_conf.assoc becomes true: wfx_join_finalize, and its wfx_update_pm.
Associate ==
    /\ Ready /\ ConfIdle
    /\ ~assoc /\ assoc' = TRUE
    /\ AsksPm
    /\ UNCHANGED <<staVars, keyVars, pmDone, overlap, lossVars, present,
                   resetPc, removePc, chipVars, orphan>>

\* bss_conf.assoc changed and is false: wfx_reset follows.
Leave ==
    /\ Ready /\ ConfIdle
    /\ assoc' = FALSE
    /\ resetPc' = "chip"
    /\ UNCHANGED <<staVars, keyVars, pmVars, lossVars, present, removePc,
                   chipVars, orphan>>

\* Mutant of Reset: the work is cancelled before the chip is reset.
ResetCancelsFirst ==
    \/ /\ resetPc = "chip"
       /\ CancelSync
       /\ resetPc' = "cancel"
       /\ UNCHANGED <<staVars, keyVars, pmVars, lost, raced, stale, present,
                      assoc, removePc, chipVars, orphan>>
    \/ /\ resetPc = "cancel"
       /\ ChipResets
       /\ resetPc' = "idle"
       /\ UNCHANGED <<staVars, keyVars, pmVars, lossVars, present, assoc,
                      removePc, orphan>>

\* wfx_reset: the chip first, then beacon_loss_work, then wfx_update_pm, which
\* does nothing for an interface that is not associated.
Reset ==
    \/ /\ resetPc = "chip"
       /\ ChipResets
       /\ resetPc' = "cancel"
       /\ UNCHANGED <<staVars, keyVars, pmVars, lossVars, present, assoc,
                      removePc, orphan>>
    \/ /\ resetPc = "cancel"
       /\ CancelSync
       /\ resetPc' = "idle"
       /\ IF assoc THEN AsksPm ELSE UNCHANGED <<pmPc, pms>>
       /\ UNCHANGED <<staVars, keyVars, pmDone, overlap, lost, raced, stale,
                      present, assoc, removePc, chipVars, orphan>>

-----------------------------------------------------------------------------
(* wfx_update_pm *)

\* Mutant of UpdatePm: one thread does not wait.
UpdatePmNow(t) ==
    /\ Ready /\ assoc
    /\ pmPc[t] = "idle" /\ (t = "conf" => resetPc = "idle")
    /\ pms < MaxPm /\ pms' = pms + 1
    /\ pmPc' = [pmPc EXCEPT ![t] = IF t = "ap" THEN "set" ELSE "wait"]
    /\ UNCHANGED <<staVars, keyVars, pmDone, overlap, lossVars, lifeVars,
                   chipVars, orphan>>

UpdatePm(t) ==
    /\ Ready /\ assoc
    /\ pmPc[t] = "idle" /\ (t = "conf" => resetPc = "idle")
    /\ pms < MaxPm /\ pms' = pms + 1
    /\ pmPc' = [pmPc EXCEPT ![t] = "wait"]
    /\ UNCHANGED <<staVars, keyVars, pmDone, overlap, lossVars, lifeVars,
                   chipVars, orphan>>

\* The wait ends, or times out with a mere warning.
WaitedPm(t) ==
    /\ pmPc[t] = "wait"
    /\ pmPc' = [pmPc EXCEPT ![t] = "set"]
    /\ \/ pmDone > 0 /\ pmDone' = pmDone - 1 /\ UNCHANGED overlap
       \/ pmDone = 0 /\ overlap' = (overlap \/ UnderWay) /\ UNCHANGED pmDone
    /\ UNCHANGED <<staVars, keyVars, pms, lossVars, lifeVars, chipVars,
                   orphan>>

\* hif_set_pm: the chip may refuse, and then sends no indication.
SetPm(t) ==
    /\ pmPc[t] = "set"
    /\ indications = <<>>
    /\ pmPc' = [pmPc EXCEPT ![t] = "idle"]
    /\ chipPm' \in {chipPm, chipPm + 1}
    /\ UNCHANGED <<staVars, keyVars, pmDone, pms, overlap, lossVars, lifeVars,
                   joined, indications, events, orphan>>

-----------------------------------------------------------------------------
(* The chip and the reception *)

ChipPmDone ==
    /\ chipPm > 0
    /\ chipPm' = chipPm - 1
    /\ indications' = Append(indications, "pm")
    /\ UNCHANGED <<staVars, keyVars, pmVars, lossVars, lifeVars, joined,
                   events, orphan>>

ChipEvent(e) ==
    /\ joined
    /\ events < MaxEvents /\ events' = events + 1
    /\ indications' = Append(indications, e)
    /\ UNCHANGED <<staVars, keyVars, pmVars, lossVars, lifeVars, joined,
                   chipPm, orphan>>

Handle(i) == indications # <<>> /\ Head(indications) = i
                /\ indications' = Tail(indications)

\* hif_pm_mode_complete_indication: without interface, WARN_ON and a fault.
PmComplete ==
    /\ Handle("pm")
    /\ IF present THEN pmDone' = pmDone + 1 /\ UNCHANGED orphan
                  ELSE orphan' = TRUE /\ UNCHANGED pmDone
    /\ UNCHANGED <<staVars, keyVars, pmPc, pms, overlap, lossVars, lifeVars,
                   joined, chipPm, events>>

\* hif_event_indication.
BssLost ==
    /\ Handle("lost")
    /\ lossPending' = (lossPending \/ present)
    /\ lost' = TRUE
    /\ UNCHANGED <<staVars, keyVars, pmVars, lossRunning, raced, stale,
                   lifeVars, joined, chipPm, events, orphan>>

\* cancel_delayed_work does not wait: a work that runs schedules itself again.
BssRegained ==
    /\ Handle("regained")
    /\ lossPending' = FALSE
    /\ lost' = FALSE
    /\ raced' = lossRunning /\ stale' = FALSE
    /\ UNCHANGED <<staVars, keyVars, pmVars, lossRunning, lifeVars, joined,
                   chipPm, events, orphan>>

\* wfx_beacon_loss_work.
LossRuns ==
    /\ lossPending /\ ~lossRunning
    /\ lossPending' = FALSE
    /\ lossRunning' = TRUE
    /\ UNCHANGED <<staVars, keyVars, pmVars, lost, raced, stale, lifeVars,
                   chipVars, orphan>>

LossReschedules ==
    /\ lossRunning
    /\ lossRunning' = FALSE
    /\ lossPending' = ("cancel" \notin {resetPc, removePc})
    /\ UNCHANGED <<staVars, keyVars, pmVars, lost, raced, stale, lifeVars,
                   chipVars, orphan>>

-----------------------------------------------------------------------------
Next ==
    \/ AddInterface
    \/ RemoveStarts \/ RemoveWaits \/ RemoveResets \/ RemoveEnds
    \/ Join \/ Associate \/ Leave \/ Reset
    \/ \E t \in Threads : UpdatePm(t) \/ WaitedPm(t) \/ SetPm(t)
    \/ ChipPmDone \/ ChipEvent("lost") \/ ChipEvent("regained")
    \/ PmComplete \/ BssLost \/ BssRegained \/ LossRuns \/ LossReschedules
    \/ Ready /\ StationsNext
             /\ UNCHANGED <<pmVars, lossVars, lifeVars, chipVars, orphan>>

Spec == Init /\ [][Next]_vars

-----------------------------------------------------------------------------
\* At most one change of the power save mode is under way, although two
\* threads ask for them without a common lock, and a change that the chip
\* refuses or forgets is never waited for in vain for ever: the next one times
\* out and takes its place.  Only a chip slower than the timeout breaks it.
PmOneAtATime == ~overlap => pmDone + Pms + Cardinality(Setting) <= 1

\* No indication finds the interface gone (hif_pm_mode_complete_indication
\* would use a null pointer): it is removed when the last change of mode is
\* complete, unless the chip is slower than the timeout.
NoOrphan == ~overlap => ~orphan

\* Loss of beacons is reported only while the chip watches a network or the
\* interface is being reset, and only after the chip lost that network and did
\* not regain it.  Two reports outlive their cause: a work that runs when the
\* chip regains the network goes on reporting, and so does a work that is
\* scheduled when the chip joins again, for a loss from before.
LossJustified ==
    lossPending \/ lossRunning =>
        /\ joined \/ resetPc # "idle" \/ removePc = "cancel"
        /\ lost \/ raced \/ stale
=============================================================================
