------------------------------ MODULE TxQueues ------------------------------
(***************************************************************************)
(* The way of a data frame through the driver (queue.c, data_tx.c, bh.c):  *)
(* wfx_tx puts it in a queue, the bottom half moves it to tx_pending and   *)
(* to the chip, and its confirmation, or a flush, gives it back to         *)
(* mac80211.  Around it: tx_lock and the threads that stop the traffic     *)
(* with wfx_tx_lock_flush (join, scan, reset), wfx_flush with its timeouts *)
(* and the recovery of a frozen chip, and the multicast frames of an access*)
(* point, that wait in `cab' for the signal that follows a DTIM beacon,    *)
(* which the chip only gives while the TIM it was given announces them.    *)
(*                                                                         *)
(* Abstracted: the contents of a frame; commands, which share the input    *)
(* buffers with the frames and hif_cmd.lock with the flushes (module       *)
(* HifCmd); retry policies (TxPolicy); several confirmations in a message. *)
(* Queues may belong to several interfaces; at most one of them is an      *)
(* access point, the owner of every frame of Mcast.                        *)
(***************************************************************************)
EXTENDS Integers, Sequences, FiniteSets

CONSTANTS
    Frames,         \* frames (struct sk_buff), each submitted once
    Mcast,          \* those with IEEE80211_TX_CTL_SEND_AFTER_DTIM
    Queues,         \* numbers of the queues, in the order of wvif_iterate
    QueueOf,        \* the queue of each frame
    Priority,       \* wfx_queue.priority of each queue
    Flushers,       \* threads that call wfx_flush
    Lockers,        \* threads that call wfx_tx_lock_flush
    NumBufs,        \* hw_caps.num_inp_ch_bufs
    MayHang,        \* the chip may stop answering
    LateAnswers,    \* the chip may confirm after it was declared frozen
    MaxCalls,       \* bound: flushes or locks per thread
    MaxBusErrors,   \* bound: bus writes that fail
    None            \* no frame (NULL)

Procs == Flushers \cup Lockers

ASSUME QueuesAssumption ==
    /\ IsFiniteSet(Frames) /\ None \notin Frames
    /\ Mcast \subseteq Frames
    /\ Queues \subseteq Nat
    /\ QueueOf \in [Frames -> Queues]
    /\ Priority \in [Queues -> Nat \ {0}]
    /\ Flushers \cap Lockers = {} /\ IsFiniteSet(Flushers \cup Lockers)
    /\ NumBufs \in Nat \ {0}
    /\ MayHang \in BOOLEAN /\ LateAnswers \in BOOLEAN
    /\ MaxCalls \in Nat /\ MaxBusErrors \in Nat

VARIABLES
    stage,          \* where the thread in wfx_tx is, for each frame
    normal, cab,    \* the two lists of each queue
    txPending,      \* the frames of wdev->tx_pending
    pendingFrames,  \* the counter pending_frames of each queue
    reports,        \* how often mac80211 got each frame back
    txLock,         \* tx_lock
    frozen,         \* chip_frozen
    afterDtim,      \* after_dtim_tx_allowed
    timPending,     \* update_tim_work is queued
    timPc, timBit,  \* the running update_tim_work; what it read
    beacon,         \* the chip sends beacons
    tim,            \* the multicast bit of the TIM in them
    bhPending,      \* the work item hif.bh is queued
    bhPc, bhFrame, bhRequeue,   \* the running bottom half, the frame it handles
    bhDid,          \* num_tx or num_rx is not zero
    txUsed,         \* tx_buffers_used
    chipTx,         \* the frames the chip has
    output,         \* its messages for the driver, in their order
    hung,           \* it answers no more
    pc, calls,      \* where each thread of Procs is; its calls so far
    drop, todo, before,     \* wfx_flush: its argument; the queues still to go
                            \* through; the frames that were in the driver
    late,           \* the wait for a queue timed out, or was left out though
                    \* the queue had frames, as the chip was frozen
    hand, dropped,  \* wfx_pending_drop: the frame in hand; the list `dropped'
    lost            \* frames whose bus write failed

queueVars == <<normal, cab, txPending, pendingFrames>>
timVars   == <<timPending, timPc, timBit, tim, beacon>>
bhVars    == <<bhPc, bhFrame, bhRequeue, bhDid>>
chipVars  == <<chipTx, output, hung>>
procVars  == <<pc, calls, drop, todo, before, late, hand, dropped>>
vars == <<stage, queueVars, reports, txLock, frozen, afterDtim, timVars,
          bhPending, bhVars, txUsed, chipVars, procVars, lost>>

ToProc == {"idle", "drop", "wait", "check", "empty", "unlock", "quiet",
           "decide", "pending", "count", "report"}
\* What the chip says: how a frame ended (requeue: its DTIM period was over
\* before it could be sent), or that multicast frames may be sent now.
Confirmations == [frame : Mcast, requeue : BOOLEAN]
                    \cup [frame : Frames \ Mcast, requeue : {FALSE}]
ResumeMc == [frame |-> None, requeue |-> FALSE]

Sending   == {"append", "write"}
Finishing == {"find", "count", "unlink", "report"}

\* Type correctness of every variable; that the counters are not negative is
\* the matter of the other properties.
TypeOK ==
    /\ stage \in [Frames -> {"new", "schedule", "given"}]
    /\ normal \in [Queues -> Seq(Frames)] /\ cab \in [Queues -> Seq(Frames)]
    /\ txPending \in SUBSET Frames
    /\ pendingFrames \in [Queues -> Int]
    /\ reports \in [Frames -> Nat]
    /\ txLock \in Int
    /\ {frozen, afterDtim, timPending, timBit, tim, beacon} \subseteq BOOLEAN
    /\ timPc \in {"idle", "send"}
    /\ {bhPending, bhRequeue, bhDid, hung} \subseteq BOOLEAN
    /\ bhPc \in {"idle", "tx", "pick", "normal", "rx"} \cup Sending \cup Finishing
    /\ bhFrame \in Frames \cup {None}
    /\ txUsed \in Int
    /\ chipTx \in SUBSET Frames
    /\ output \in Seq(Confirmations \cup {ResumeMc})
    /\ pc \in [Procs -> ToProc]
    /\ calls \in [Procs -> 0 .. MaxCalls]
    /\ drop \in [Procs -> BOOLEAN] /\ late \in [Procs -> BOOLEAN]
    /\ todo \in [Procs -> SUBSET Queues]
    /\ before \in [Procs -> SUBSET Frames]
    /\ hand \in [Procs -> Frames \cup {None}]
    /\ dropped \in [Procs -> SUBSET Frames]
    /\ lost \in SUBSET Frames

\* Before the first frame; an access point sends beacons.
Init ==
    /\ stage = [f \in Frames |-> "new"]
    /\ normal = [q \in Queues |-> <<>>] /\ cab = [q \in Queues |-> <<>>]
    /\ txPending = {}
    /\ pendingFrames = [q \in Queues |-> 0]
    /\ reports = [f \in Frames |-> 0]
    /\ txLock = 0
    /\ frozen = FALSE
    /\ afterDtim = FALSE
    /\ timPending = FALSE /\ timPc = "idle" /\ timBit = FALSE
    /\ tim = FALSE /\ beacon = (Mcast # {})
    /\ bhPending = FALSE
    /\ bhPc = "idle" /\ bhFrame = None /\ bhRequeue = FALSE /\ bhDid = FALSE
    /\ txUsed = 0
    /\ chipTx = {} /\ output = <<>> /\ hung = FALSE
    /\ pc = [p \in Procs |-> "idle"]
    /\ calls = [p \in Procs |-> 0]
    /\ drop = [p \in Procs |-> FALSE] /\ late = [p \in Procs |-> FALSE]
    /\ todo = [p \in Procs |-> {}]
    /\ before = [p \in Procs |-> {}]
    /\ hand = [p \in Procs |-> None]
    /\ dropped = [p \in Procs |-> {}]
    /\ lost = {}

ListOf(s) == {s[i] : i \in DOMAIN s}
Queued == UNION {ListOf(normal[q]) \cup ListOf(cab[q]) : q \in Queues}

\* wfx_tx_queues_has_cab.
HasCab == \E q \in Queues : cab[q] # <<>>

-----------------------------------------------------------------------------
(* wfx_tx *)

Goto(p, l) == pc' = [pc EXCEPT ![p] = l]
At(p, l)   == pc[p] = l

\* The work item hif.bh is queued (wfx_bh_request_tx, the interrupt).
RequestBh == bhPending' = TRUE

Enqueue(f) ==
    LET q == QueueOf[f] IN
    IF f \in Mcast
      THEN cab' = [cab EXCEPT ![q] = Append(@, f)] /\ UNCHANGED normal
      ELSE normal' = [normal EXCEPT ![q] = Append(@, f)] /\ UNCHANGED cab

\* Mutant of Put: the update of the TIM is scheduled first, and the frame is
\* queued afterwards.
PutLate(f) ==
    /\ \/ /\ stage[f] = "new" /\ f \in Mcast
          /\ stage' = [stage EXCEPT ![f] = "schedule"]
          /\ timPending' = TRUE
          /\ UNCHANGED <<normal, cab>>
       \/ /\ stage[f] = IF f \in Mcast THEN "schedule" ELSE "new"
          /\ stage' = [stage EXCEPT ![f] = "given"]
          /\ Enqueue(f)
          /\ UNCHANGED timPending
    /\ RequestBh
    /\ UNCHANGED <<txPending, pendingFrames, reports, txLock, frozen, afterDtim,
                   timPc, timBit, tim, beacon, bhVars, txUsed, chipVars,
                   procVars, lost>>

\* wfx_tx_queues_put.
Put(f) ==
    /\ stage[f] = "new"
    /\ Enqueue(f)
    /\ stage' = [stage EXCEPT ![f] = IF f \in Mcast THEN "schedule" ELSE "given"]
    /\ bhPending' = (bhPending \/ f \notin Mcast)
    /\ UNCHANGED <<txPending, pendingFrames, reports, txLock, frozen, afterDtim,
                   timVars, bhVars, txUsed, chipVars, procVars, lost>>

\* Mutant of ScheduleTim: the work item is not scheduled.
ScheduleTimForgotten(f) ==
    /\ stage[f] = "schedule"
    /\ stage' = [stage EXCEPT ![f] = "given"]
    /\ RequestBh
    /\ UNCHANGED <<queueVars, reports, txLock, frozen, afterDtim, timVars,
                   bhVars, txUsed, chipVars, procVars, lost>>

\* The rest of wfx_tx_inner, for a multicast frame.
ScheduleTim(f) ==
    /\ stage[f] = "schedule"
    /\ stage' = [stage EXCEPT ![f] = "given"]
    /\ timPending' = TRUE
    /\ RequestBh
    /\ UNCHANGED <<queueVars, reports, txLock, frozen, afterDtim, timPc, timBit,
                   tim, beacon, bhVars, txUsed, chipVars, procVars, lost>>

-----------------------------------------------------------------------------
(* The work item update_tim_work, and the end of the beacons *)

\* wfx_update_tim reads the queues...
TimRead ==
    /\ timPending
    /\ timPc = "idle"
    /\ timPending' = FALSE
    /\ timPc' = "send"
    /\ timBit' = HasCab
    /\ UNCHANGED <<stage, queueVars, reports, txLock, frozen, afterDtim, tim,
                   beacon, bhPending, bhVars, txUsed, chipVars, procVars, lost>>

\* ...and hif_update_ie_beacon gives the TIM to the chip.
TimSend ==
    /\ timPc = "send"
    /\ timPc' = "idle"
    /\ tim' = IF hung \/ frozen THEN tim ELSE timBit
    /\ timBit' = FALSE
    /\ UNCHANGED <<stage, queueVars, reports, txLock, frozen, afterDtim,
                   timPending, beacon, bhPending, bhVars, txUsed, chipVars,
                   procVars, lost>>

\* wfx_enable_beacon(false): nothing announces the multicast frames any more,
\* so that those queued may leave at once.
StopBeacon ==
    /\ beacon
    /\ beacon' = FALSE
    /\ afterDtim' = (afterDtim \/ HasCab)
    /\ bhPending' = (bhPending \/ HasCab)
    /\ UNCHANGED <<stage, queueVars, reports, txLock, frozen, timPending, timPc,
                   timBit, tim, bhVars, txUsed, chipVars, procVars, lost>>

-----------------------------------------------------------------------------
(* The bottom half sends *)

BhStart ==
    /\ bhPc = "idle"
    /\ bhPending
    /\ bhPending' = FALSE
    /\ bhPc' = "tx"
    /\ UNCHANGED <<stage, queueVars, reports, txLock, frozen, afterDtim, timVars,
                   bhFrame, bhRequeue, bhDid, txUsed, chipVars, procVars, lost>>

\* Mutant of BhTest: tx_lock is not looked at.
BhTestUnlocked ==
    /\ bhPc = "tx"
    /\ bhPc' = IF txUsed < NumBufs THEN "pick" ELSE "rx"
    /\ UNCHANGED <<stage, queueVars, reports, txLock, frozen, afterDtim, timVars,
                   bhPending, bhFrame, bhRequeue, bhDid, txUsed, chipVars,
                   procVars, lost>>

\* bh_work_tx and wfx_tx_queues_get: the tests before a queue is looked at.
BhTest ==
    /\ bhPc = "tx"
    /\ bhPc' = IF txUsed < NumBufs /\ txLock = 0 THEN "pick" ELSE "rx"
    /\ UNCHANGED <<stage, queueVars, reports, txLock, frozen, afterDtim, timVars,
                   bhPending, bhFrame, bhRequeue, bhDid, txUsed, chipVars,
                   procVars, lost>>

\* wfx_tx_queue_get_weight, and the order wfx_tx_queues_get_skb sorts in.
Weight(q) == pendingFrames[q] * Priority[q]
Precedes(q, r) ==
    \/ Weight(q) < Weight(r)
    \/ Weight(q) = Weight(r) /\ q <= r

\* q is the first of the sorted queues whose list is not empty.
IsFirst(q, list) ==
    /\ list[q] # <<>>
    /\ \A r \in Queues : list[r] # <<>> => Precedes(q, r)

\* The frame leaves its list and is counted as pending.
Take(q, f) ==
    /\ bhFrame' = f
    /\ pendingFrames' = [pendingFrames EXCEPT ![q] = @ + 1]
    /\ bhPc' = "append"

BhTakeCab ==
    /\ bhPc = "pick"
    /\ afterDtim
    /\ \E q \in Queues :
          /\ IsFirst(q, cab)
          /\ Take(q, Head(cab[q]))
          /\ cab' = [cab EXCEPT ![q] = Tail(@)]
    /\ UNCHANGED <<stage, normal, txPending, reports, txLock, frozen, afterDtim,
                   timVars, bhPending, bhRequeue, bhDid, txUsed, chipVars,
                   procVars, lost>>

\* No multicast frame may leave: if one might have, the TIM is updated.
BhCabDone ==
    /\ bhPc = "pick"
    /\ afterDtim => ~HasCab
    /\ afterDtim' = FALSE
    /\ timPending' = (timPending \/ afterDtim)
    /\ bhPc' = "normal"
    /\ UNCHANGED <<stage, queueVars, reports, txLock, frozen, timPc, timBit, tim,
                   beacon, bhPending, bhFrame, bhRequeue, bhDid, txUsed,
                   chipVars, procVars, lost>>

BhTakeNormal ==
    /\ bhPc = "normal"
    /\ \E q \in Queues :
          /\ IsFirst(q, normal)
          /\ Take(q, Head(normal[q]))
          /\ normal' = [normal EXCEPT ![q] = Tail(@)]
    /\ UNCHANGED <<stage, cab, txPending, reports, txLock, frozen, afterDtim,
                   timVars, bhPending, bhRequeue, bhDid, txUsed, chipVars,
                   procVars, lost>>

BhTakeNone ==
    /\ bhPc = "normal"
    /\ \A q \in Queues : normal[q] = <<>>
    /\ bhPc' = "rx"
    /\ UNCHANGED <<stage, queueVars, reports, txLock, frozen, afterDtim, timVars,
                   bhPending, bhFrame, bhRequeue, bhDid, txUsed, chipVars,
                   procVars, lost>>

\* The frame becomes visible in tx_pending.
BhAppend ==
    /\ bhPc = "append"
    /\ txPending' = txPending \cup {bhFrame}
    /\ bhPc' = "write"
    /\ UNCHANGED <<stage, normal, cab, pendingFrames, reports, txLock, frozen,
                   afterDtim, timVars, bhPending, bhFrame, bhRequeue, bhDid,
                   txUsed, chipVars, procVars, lost>>

\* tx_helper.
BhWrite ==
    /\ bhPc = "write"
    /\ txUsed' = txUsed + 1
    /\ chipTx' = chipTx \cup {bhFrame}
    /\ bhFrame' = None /\ bhPc' = "tx" /\ bhDid' = TRUE
    /\ UNCHANGED <<stage, queueVars, reports, txLock, frozen, afterDtim, timVars,
                   bhPending, bhRequeue, output, hung, procVars, lost>>

\* tx_helper: the write fails, and nobody hears of it.
BhWriteFails ==
    /\ bhPc = "write"
    /\ Cardinality(lost) < MaxBusErrors
    /\ lost' = lost \cup {bhFrame}
    /\ bhFrame' = None /\ bhPc' = "tx" /\ bhDid' = TRUE
    /\ UNCHANGED <<stage, queueVars, reports, txLock, frozen, afterDtim, timVars,
                   bhPending, bhRequeue, txUsed, chipVars, procVars>>

-----------------------------------------------------------------------------
(* The bottom half receives *)

\* rx_helper: the input buffer of the frame is free from now on.
BhReadCnf ==
    /\ bhPc = "rx"
    /\ output # <<>> /\ Head(output) # ResumeMc
    /\ output' = Tail(output)
    /\ txUsed' = txUsed - 1
    /\ bhFrame' = Head(output).frame /\ bhRequeue' = Head(output).requeue
    /\ bhPc' = "find" /\ bhDid' = TRUE
    /\ UNCHANGED <<stage, queueVars, reports, txLock, frozen, afterDtim, timVars,
                   bhPending, chipTx, hung, procVars, lost>>

\* wfx_pending_get: the frame is looked for with the lock of tx_pending, which
\* is dropped when it is found.
BhFind ==
    /\ bhPc = "find"
    /\ IF bhFrame \in txPending
         THEN bhPc' = "count" /\ UNCHANGED <<bhFrame, bhRequeue>>
         ELSE bhPc' = "rx" /\ bhFrame' = None /\ bhRequeue' = FALSE
    /\ UNCHANGED <<stage, queueVars, reports, txLock, frozen, afterDtim, timVars,
                   bhPending, bhDid, txUsed, chipVars, procVars, lost>>

BhCount ==
    /\ bhPc = "count"
    /\ pendingFrames' = [pendingFrames EXCEPT ![QueueOf[bhFrame]] = @ - 1]
    /\ bhPc' = "unlink"
    /\ UNCHANGED <<stage, normal, cab, txPending, reports, txLock, frozen,
                   afterDtim, timVars, bhPending, bhFrame, bhRequeue, bhDid,
                   txUsed, chipVars, procVars, lost>>

\* Mutant of BhUnlink: the frame stays in tx_pending.
BhUnlinkForgotten ==
    /\ bhPc = "unlink"
    /\ bhPc' = "report"
    /\ UNCHANGED <<stage, queueVars, reports, txLock, frozen, afterDtim, timVars,
                   bhPending, bhFrame, bhRequeue, bhDid, txUsed, chipVars,
                   procVars, lost>>

\* skb_unlink takes the frame out of the list it is in, whichever that is.
BhUnlink ==
    /\ bhPc = "unlink"
    /\ txPending' = txPending \ {bhFrame}
    /\ dropped' = [p \in Procs |-> dropped[p] \ {bhFrame}]
    /\ bhPc' = "report"
    /\ UNCHANGED <<stage, normal, cab, pendingFrames, reports, txLock, frozen,
                   afterDtim, timVars, bhPending, bhFrame, bhRequeue, bhDid,
                   txUsed, chipVars, pc, calls, drop, todo, before, late, hand,
                   lost>>

\* The rest of wfx_tx_confirm_cb.  A multicast frame that missed its DTIM
\* period goes back to mac80211, and the others wait for the next period.
BhReport ==
    /\ bhPc = "report"
    /\ reports' = [reports EXCEPT ![bhFrame] = @ + 1]
    /\ IF bhRequeue /\ bhFrame \in Mcast
         THEN afterDtim' = FALSE /\ timPending' = TRUE
         ELSE UNCHANGED <<afterDtim, timPending>>
    /\ bhFrame' = None /\ bhRequeue' = FALSE /\ bhPc' = "rx"
    /\ UNCHANGED <<stage, queueVars, txLock, frozen, timPc, timBit, tim, beacon,
                   bhPending, bhDid, txUsed, chipVars, procVars, lost>>

\* wfx_suspend_resume_mc.
BhResumeMc ==
    /\ bhPc = "rx"
    /\ output # <<>> /\ Head(output) = ResumeMc
    /\ output' = Tail(output)
    /\ afterDtim' = TRUE
    /\ RequestBh
    /\ bhDid' = TRUE
    /\ UNCHANGED <<stage, queueVars, reports, txLock, frozen, timVars, bhPc,
                   bhFrame, bhRequeue, txUsed, chipTx, hung, procVars, lost>>

\* Nothing to read: bh_work ends if it has done nothing at all.
BhReadNone ==
    /\ bhPc = "rx"
    /\ output = <<>>
    /\ bhPc' = IF bhDid THEN "tx" ELSE "idle"
    /\ bhDid' = FALSE
    /\ UNCHANGED <<stage, queueVars, reports, txLock, frozen, afterDtim, timVars,
                   bhPending, bhFrame, bhRequeue, txUsed, chipVars, procVars,
                   lost>>

-----------------------------------------------------------------------------
(* The chip *)

ChipConfirms(f) ==
    /\ f \in chipTx
    /\ ~hung
    /\ chipTx' = chipTx \ {f}
    /\ \E c \in Confirmations : c.frame = f /\ output' = Append(output, c)
    /\ RequestBh
    /\ UNCHANGED <<stage, queueVars, reports, txLock, frozen, afterDtim, timVars,
                   bhVars, txUsed, hung, procVars, lost>>

\* A DTIM beacon that announces multicast frames has been sent.
ChipDtim ==
    /\ beacon /\ tim
    /\ ~hung
    /\ ~\E i \in DOMAIN output : output[i] = ResumeMc
    /\ output' = Append(output, ResumeMc)
    /\ RequestBh
    /\ UNCHANGED <<stage, queueVars, reports, txLock, frozen, afterDtim, timVars,
                   bhVars, txUsed, chipTx, hung, procVars, lost>>

ChipHangs ==
    /\ MayHang
    /\ ~hung
    /\ hung' = TRUE
    /\ UNCHANGED <<stage, queueVars, reports, txLock, frozen, afterDtim, timVars,
                   bhPending, bhVars, txUsed, chipTx, output, procVars, lost>>

\* All that the chip said before it hung has been handled: with timely
\* answers no timeout expires earlier.
Silent == LateAnswers \/ (hung /\ output = <<>> /\ bhPc \notin Finishing)

\* Another part of the driver finds out that the chip is frozen (a command
\* without answer, an exception, a chip that does not cool down).
Freeze ==
    /\ ~frozen
    /\ Silent
    /\ frozen' = TRUE
    /\ UNCHANGED <<stage, queueVars, reports, txLock, afterDtim, timVars,
                   bhPending, bhVars, txUsed, chipVars, procVars, lost>>

-----------------------------------------------------------------------------
(* wfx_flush and wfx_tx_lock_flush *)

\* The rest of the state, for the actions of the threads.
OthersUnchanged ==
    UNCHANGED <<stage, reports, afterDtim, timVars, bhVars, txUsed, chipVars,
                calls, before, lost>>

\* wfx_flush(drop): remembers, for the properties, what is in the driver.
FlushStart(p) ==
    /\ p \in Flushers
    /\ At(p, "idle")
    /\ calls[p] < MaxCalls
    /\ calls' = [calls EXCEPT ![p] = @ + 1]
    /\ \E d \in BOOLEAN :
          /\ drop' = [drop EXCEPT ![p] = d]
          /\ Goto(p, IF d THEN "drop" ELSE "wait")
    /\ todo' = [todo EXCEPT ![p] = Queues]
    /\ before' = [before EXCEPT ![p] =
                     {f \in Frames : stage[f] # "new" /\ reports[f] = 0}]
    /\ UNCHANGED <<stage, queueVars, reports, txLock, frozen, afterDtim, timVars,
                   bhPending, bhVars, txUsed, chipVars, late, hand, dropped, lost>>

\* wfx_flush goes through the queues in their order.
IsNext(p, q) == q \in todo[p] /\ \A r \in todo[p] : q <= r

\* wfx_tx_queue_drop.
FlushDrop(p, q) ==
    /\ At(p, "drop")
    /\ IsNext(p, q)
    /\ dropped' = [dropped EXCEPT ![p] = @ \cup ListOf(cab[q]) \cup ListOf(normal[q])]
    /\ cab' = [cab EXCEPT ![q] = <<>>]
    /\ normal' = [normal EXCEPT ![q] = <<>>]
    /\ IF todo[p] = {q}
         THEN Goto(p, "wait") /\ todo' = [todo EXCEPT ![p] = Queues]
         ELSE todo' = [todo EXCEPT ![p] = @ \ {q}] /\ UNCHANGED pc
    /\ OthersUnchanged
    /\ UNCHANGED <<txPending, pendingFrames, txLock, frozen, bhPending, drop,
                   late, hand>>

\* Mutant of Empty: the queues are not waited for.
EmptyAlways(q) == q \in Queues

\* wfx_tx_queue_empty.
Empty(q) == normal[q] = <<>> /\ cab[q] = <<>>

\* wfx_flush_vif returns: all queues were waited for, or none, as the chip is
\* frozen.
FlushWaited(p) ==
    /\ At(p, "wait")
    /\ todo[p] = {} \/ (todo[p] = Queues /\ frozen)
    /\ todo' = [todo EXCEPT ![p] = {}]
    /\ late' = [late EXCEPT ![p] = @ \/ \E q \in todo[p] : ~Empty(q)]
    /\ Goto(p, "check")
    /\ OthersUnchanged
    /\ UNCHANGED <<queueVars, txLock, frozen, bhPending, drop, hand, dropped>>

\* wfx_flush_vif waits for one queue to be empty, at most 1 s.
FlushWait(p, q) ==
    /\ At(p, "wait")
    /\ IsNext(p, q)
    /\ todo' = [todo EXCEPT ![p] = @ \ {q}]
    /\ late' = [late EXCEPT ![p] = @ \/ ~Empty(q)]
    /\ OthersUnchanged
    /\ UNCHANGED <<queueVars, txLock, frozen, bhPending, pc, drop, hand, dropped>>

\* Mutant of Lock: tx_lock is taken after the flush.
LockLate(p) ==
    /\ p \in Lockers
    /\ At(p, "idle")
    /\ calls[p] < MaxCalls
    /\ calls' = [calls EXCEPT ![p] = @ + 1]
    /\ Goto(p, "check")
    /\ UNCHANGED <<stage, queueVars, reports, txLock, frozen, afterDtim, timVars,
                   bhPending, bhVars, txUsed, chipVars, drop, todo, before, late,
                   hand, dropped, lost>>

\* wfx_tx_lock_flush, called by join, scan, reset and the key renewal.
Lock(p) ==
    /\ p \in Lockers
    /\ At(p, "idle")
    /\ calls[p] < MaxCalls
    /\ calls' = [calls EXCEPT ![p] = @ + 1]
    /\ txLock' = txLock + 1
    /\ Goto(p, "check")
    /\ UNCHANGED <<stage, queueVars, reports, frozen, afterDtim, timVars,
                   bhPending, bhVars, txUsed, chipVars, drop, todo, before, late,
                   hand, dropped, lost>>

\* What follows wfx_tx_flush.
AfterFlush(p) == IF p \in Lockers THEN "quiet" ELSE "decide"

\* wfx_tx_flush: nothing to wait for if the chip is frozen.
Check(p) ==
    /\ At(p, "check")
    /\ IF frozen
         THEN Goto(p, AfterFlush(p)) /\ UNCHANGED txLock
         ELSE Goto(p, "empty") /\ txLock' = txLock + 1
    /\ OthersUnchanged
    /\ UNCHANGED <<queueVars, frozen, bhPending, drop, todo, late, hand, dropped>>

\* tx_buffers_empty, or 3 s without it.
ChipEmpty(p) ==
    /\ At(p, "empty")
    /\ txUsed = 0
    /\ Goto(p, "unlock")
    /\ OthersUnchanged
    /\ UNCHANGED <<queueVars, txLock, frozen, bhPending, drop, todo, late, hand,
                   dropped>>

ChipStuck(p) ==
    /\ At(p, "empty")
    /\ txUsed # 0
    /\ Silent
    /\ frozen' = TRUE
    /\ Goto(p, "unlock")
    /\ OthersUnchanged
    /\ UNCHANGED <<queueVars, txLock, bhPending, drop, todo, late, hand, dropped>>

\* wfx_tx_unlock: the last one restarts the bottom half.
Unlock ==
    /\ txLock' = txLock - 1
    /\ bhPending' = (bhPending \/ txLock = 1)

FlushUnlock(p) ==
    /\ At(p, "unlock")
    /\ Unlock
    /\ Goto(p, AfterFlush(p))
    /\ OthersUnchanged
    /\ UNCHANGED <<queueVars, frozen, drop, todo, late, hand, dropped>>

\* The thread that wanted the silence has done its work.
LockEnd(p) ==
    /\ At(p, "quiet")
    /\ Unlock
    /\ Goto(p, "idle")
    /\ OthersUnchanged
    /\ UNCHANGED <<queueVars, frozen, drop, todo, late, hand, dropped>>

\* wfx_flush: the pending frames of a frozen chip are dropped.
Decide(p) ==
    /\ At(p, "decide")
    /\ Goto(p, IF frozen THEN "pending" ELSE "report")
    /\ OthersUnchanged
    /\ UNCHANGED <<queueVars, txLock, frozen, bhPending, drop, todo, late, hand,
                   dropped>>

\* wfx_pending_drop: a frame is taken out of tx_pending...
PendingTake(p) ==
    /\ At(p, "pending")
    /\ \E f \in txPending :
          /\ txPending' = txPending \ {f}
          /\ hand' = [hand EXCEPT ![p] = f]
    /\ Goto(p, "count")
    /\ OthersUnchanged
    /\ UNCHANGED <<normal, cab, pendingFrames, txLock, frozen, bhPending, drop,
                   todo, late, dropped>>

\* Mutant of PendingCount: the frame stays counted.
PendingCountForgotten(p) ==
    /\ At(p, "count")
    /\ dropped' = [dropped EXCEPT ![p] = @ \cup {hand[p]}]
    /\ hand' = [hand EXCEPT ![p] = None]
    /\ Goto(p, "pending")
    /\ OthersUnchanged
    /\ UNCHANGED <<queueVars, txLock, frozen, bhPending, drop, todo, late>>

\* ...counted off, and kept in `dropped'.
PendingCount(p) ==
    /\ At(p, "count")
    /\ pendingFrames' = [pendingFrames EXCEPT ![QueueOf[hand[p]]] = @ - 1]
    /\ dropped' = [dropped EXCEPT ![p] = @ \cup {hand[p]}]
    /\ hand' = [hand EXCEPT ![p] = None]
    /\ Goto(p, "pending")
    /\ OthersUnchanged
    /\ UNCHANGED <<normal, cab, txPending, txLock, frozen, bhPending, drop, todo,
                   late>>

PendingDone(p) ==
    /\ At(p, "pending")
    /\ txPending = {}
    /\ Goto(p, "report")
    /\ OthersUnchanged
    /\ UNCHANGED <<queueVars, txLock, frozen, bhPending, drop, todo, late, hand,
                   dropped>>

\* wfx_flush gives a dropped frame back to mac80211 (wfx_skb_dtor).
FlushReport(p) ==
    /\ At(p, "report")
    /\ \E f \in dropped[p] :
          /\ reports' = [reports EXCEPT ![f] = @ + 1]
          /\ dropped' = [dropped EXCEPT ![p] = @ \ {f}]
    /\ UNCHANGED <<stage, queueVars, txLock, frozen, afterDtim, timVars,
                   bhPending, bhVars, txUsed, chipVars, pc, calls, drop, todo,
                   before, late, hand, lost>>

FlushEnd(p) ==
    /\ At(p, "report")
    /\ dropped[p] = {}
    /\ Goto(p, "idle")
    /\ drop' = [drop EXCEPT ![p] = FALSE]
    /\ late' = [late EXCEPT ![p] = FALSE]
    /\ before' = [before EXCEPT ![p] = {}]
    /\ UNCHANGED <<stage, queueVars, reports, txLock, frozen, afterDtim, timVars,
                   bhPending, bhVars, txUsed, chipVars, calls, todo, hand,
                   dropped, lost>>

-----------------------------------------------------------------------------
(* Specification *)

Call(p) == FlushStart(p) \/ Lock(p)

\* What a thread does once it has called.
Advance(p) ==
    \/ \E q \in Queues : FlushDrop(p, q) \/ FlushWait(p, q)
    \/ FlushWaited(p) \/ Check(p) \/ ChipEmpty(p) \/ ChipStuck(p)
    \/ FlushUnlock(p) \/ LockEnd(p) \/ Decide(p)
    \/ PendingTake(p) \/ PendingCount(p) \/ PendingDone(p)
    \/ FlushReport(p) \/ FlushEnd(p)

BottomHalf ==
    \/ BhStart \/ BhTest \/ BhTakeCab \/ BhCabDone \/ BhTakeNormal \/ BhTakeNone
    \/ BhAppend \/ BhWrite \/ BhWriteFails
    \/ BhReadCnf \/ BhFind \/ BhCount \/ BhUnlink \/ BhReport \/ BhResumeMc \/ BhReadNone

TimWork == TimRead \/ TimSend

Next ==
    \/ \E f \in Frames : Put(f) \/ ScheduleTim(f) \/ ChipConfirms(f)
    \/ \E p \in Procs : Call(p) \/ Advance(p)
    \/ BottomHalf \/ TimWork
    \/ StopBeacon \/ ChipDtim \/ ChipHangs \/ Freeze

Spec == Init /\ [][Next]_vars

\* Threads and work items run, timers expire, and a chip that is alive
\* confirms its frames and sends its beacons.  bh_work_rx ends in spite of new
\* messages: it reads 32 of them at most.
Fairness ==
    /\ \A f \in Frames : WF_vars(ScheduleTim(f)) /\ WF_vars(ChipConfirms(f))
    /\ \A p \in Procs : WF_vars(Advance(p))
    /\ WF_vars(BottomHalf) /\ SF_vars(BhReadNone)
    /\ WF_vars(TimWork)
    /\ WF_vars(ChipDtim)

FairSpec == Spec /\ Fairness

-----------------------------------------------------------------------------
(* Properties *)

Count(b) == IF b THEN 1 ELSE 0
Times(s, f) == Cardinality({i \in DOMAIN s : s[i] = f})

\* How many parts of the driver are in charge of the frame.
Owners(f) ==
    Times(normal[QueueOf[f]], f) + Times(cab[QueueOf[f]], f)
    + Count(f \in txPending)
    + Count(bhFrame = f /\ bhPc \in {"append", "report"})
    + Cardinality({p \in Procs : hand[p] = f})
    + Cardinality({p \in Procs : f \in dropped[p]})
    + reports[f]

\* From the moment wfx_tx queues it, a frame has exactly one owner, until it
\* is back in mac80211, where it goes exactly once.  tx_pending owns a frame
\* from before the bus write on: that the bottom half is not reading any more
\* what wfx_pending_drop frees is not part of this.
OneOwner == \A f \in Frames : Owners(f) = Count(stage[f] # "new")

\* The frames of a queue that are pending, or about to be, or about to be
\* counted off.
Counted(q) ==
    {f \in Frames :
        /\ QueueOf[f] = q
        /\ \/ f \in txPending /\ ~(bhFrame = f /\ bhPc = "unlink")
           \/ bhFrame = f /\ bhPc = "append"
           \/ \E p \in Procs : hand[p] = f}

\* pending_frames, which decides between the queues, is exact.
PendingExact == \A q \in Queues : pendingFrames[q] = Cardinality(Counted(q))

\* The WARN_ON(!pending_frames) of wfx_pending_get and wfx_pending_drop: a
\* frame about to be counted off is counted.
CountedOff ==
    /\ bhPc = "count" => pendingFrames[QueueOf[bhFrame]] > 0
    /\ \A p \in Procs : At(p, "count") => pendingFrames[QueueOf[hand[p]]] > 0

\* The confirmations of frames that the bottom half has not read yet.
Confirmed == {i \in DOMAIN output : output[i] # ResumeMc}

\* Between wfx_tx_lock_flush and wfx_tx_unlock at most one data frame is at
\* the chip or in the bottom half: the one for which the bottom half had
\* passed the test of tx_lock.  Not so if the chip is frozen: wfx_tx_flush does
\* not wait then, and what the chip was given stays there.
InFlight ==
    Cardinality(chipTx) + Cardinality(Confirmed)
        + Count(bhPc \in {"pick", "normal"} \cup Sending \cup Finishing)
QuietWhenLocked == \A p \in Lockers : At(p, "quiet") /\ ~frozen => InFlight <= 1

\* When wfx_flush returns, all the frames it was called for are back in
\* mac80211, except the one the bottom half held between the queue and the
\* chip, or was reporting, and those whose bus write failed.  A flush that does
\* not drop is excused if a wait timed out, or was left out because the chip
\* was frozen already: the frames in the queues stay there.  A chip that
\* freezes after that, at any point of the flush, excuses nothing.
FlushComplete ==
    [][\A p \in Flushers :
          (At(p, "report") /\ pc'[p] = "idle" /\ (drop[p] \/ ~late[p])) =>
              Cardinality({f \in before[p] : reports[f] = 0} \ lost) <= 1]_vars

\* As long as multicast frames are queued, the chip announces them, or an
\* update of the TIM that will see them is on its way.
CabAnnounced ==
    HasCab => \/ tim \/ hung \/ frozen
              \/ timPending \/ timPc = "send"
              \/ \E f \in Mcast : stage[f] = "schedule"

\* Each frame goes back to mac80211, if the chip lives, the bus write did not
\* fail and, for a multicast frame, the beacons go on.
FrameEnds ==
    \A f \in Frames :
        stage[f] # "new" ~>
            \/ reports[f] > 0
            \/ hung \/ f \in lost
            \/ f \in Mcast /\ ~beacon
=============================================================================
