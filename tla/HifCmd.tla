------------------------------- MODULE HifCmd -------------------------------
(***************************************************************************)
(* The command layer of the driver: the threads that call wfx_cmd_send     *)
(* (hif_tx.c), wfx_tx_flush (queue.c) and wfx_sl_renew_key (secure_link.c),*)
(* the bottom-half work item that moves every message over the bus (bh.c), *)
(* the dispatch of confirmations (hif_rx.c), and the chip.                 *)
(*                                                                         *)
(* A thread publishes a request in hif_cmd.buf_send under hif_cmd.lock and *)
(* waits for hif_cmd.done; the bottom half sends it when the chip has a    *)
(* free input buffer (tx_buffers_used < num_inp_ch_bufs) and completes     *)
(* `done' when a confirmation with the same message id comes back.  Data   *)
(* frames share the input buffers with the requests.                       *)
(*                                                                         *)
(* Abstracted: message bodies; the interrupt and piggyback registers (the  *)
(* chip's output is readable as soon as it exists and raises the work      *)
(* item); the limit of 32 messages per batch, never reached with fewer     *)
(* than 32 input buffers; the order of the chip's output queue.            *)
(***************************************************************************)
EXTENDS Integers, FiniteSets

CONSTANTS
    Procs,          \* threads that use the command layer
    Ids,            \* message ids of the ordinary commands
    SlExchange,     \* HIF_REQ_ID_SL_EXCHANGE_PUB_KEYS
    ShutDown,       \* HIF_REQ_ID_SHUT_DOWN, the command without reply
    NumBufs,        \* hw_caps.num_inp_ch_bufs
    LateAnswers,    \* the chip may answer after the command was given up
    MayHang,        \* the chip may stop answering, or report an error
    MayHeat,        \* the chip may get too hot
    MaxCalls,       \* bound: uses of the command layer per thread
    MaxFrames,      \* bound: data frames in flight
    MaxBusErrors,   \* bound: bus transfers that fail
    None,           \* no thread, no request (NULL)
    Frame,          \* a data frame on its way through the bottom half
    TimedOut,       \* -ETIMEDOUT
    Unconfirmed     \* the 0 returned by a command without reply

AllIds == Ids \cup {SlExchange, ShutDown}

ASSUME ConstantsAssumption ==
    /\ IsFiniteSet(Procs)
    /\ None \notin Procs
    /\ SlExchange \notin Ids
    /\ ShutDown \notin Ids \cup {SlExchange}
    /\ NumBufs \in Nat \ {0}
    /\ LateAnswers \in BOOLEAN /\ MayHang \in BOOLEAN
    /\ MayHeat \in BOOLEAN
    /\ MaxCalls \in Nat /\ MaxFrames \in Nat /\ MaxBusErrors \in Nat

\* One allocation of a struct hif_msg.  Every call allocates a fresh one.
Requests == [by : Procs, call : Nat, id : AllIds]

\* A request on the chip's side.  `copy' tells apart the transmissions of a
\* request that was sent again before the chip was done with it.
Messages == [req : Requests, copy : Nat]

ASSUME SentinelsAssumption ==
    /\ {None, Frame, TimedOut, Unconfirmed} \cap Requests = {}
    /\ None \notin {Frame, TimedOut, Unconfirmed}
    /\ Frame \notin {TimedOut, Unconfirmed}
    /\ TimedOut # Unconfirmed

VARIABLES
    pc, op,         \* where each thread is; which function it executes
    req,            \* the request of the thread's current or last call
    ret,            \* what the thread's last wfx_cmd_send returned
    calls,          \* calls made so far
    keyRenewLock,   \* owner of hif_cmd.key_renew_lock
    lock,           \* owner of hif_cmd.lock
    bufSend,        \* hif_cmd.buf_send
    hifRet,         \* hif_cmd.ret and buf_recv: the request they answer
    ready, done,    \* completion counters
    frozen,         \* chip_frozen
    txLock,         \* tx_lock
    cooling,        \* cooling_timeout_work is scheduled
    queued,         \* data frames in the driver's queues
    bhPc, bhMsg,    \* where bh_work is; the message it handles
    bhDid,          \* num_tx || num_rx of the current iteration
    bhPending,      \* the work item is queued
    txUsed,         \* hif.tx_buffers_used
    chipTx, chipCmd,    \* frames and requests in the chip's input buffers
    cnfTx, cnfCmd,      \* their confirmations, not read yet
    exception,      \* an error or exception indication, not read yet
    hung,           \* the chip does not answer any more
    busErrors,      \* failed transfers so far
    lost            \* confirmations lost by a failed read

threadVars == <<pc, op, req, ret, calls>>
lockVars   == <<keyRenewLock, lock>>
cmdVars    == <<bufSend, hifRet, ready, done>>
bhVars     == <<bhPc, bhMsg, bhDid, bhPending>>
chipVars   == <<chipTx, chipCmd, cnfTx, cnfCmd, exception, hung>>
busVars    == <<busErrors, lost>>
freezeVars == <<frozen, cooling>>

vars == <<threadVars, lockVars, cmdVars, freezeVars, txLock, queued, bhVars,
          txUsed, chipVars, busVars>>

-----------------------------------------------------------------------------
(* Types and initial state *)

CmdPcs   == {"check", "renewLock", "cmdLock", "publish", "kick", "sleep",
             "wait", "waitMore", "giveUp", "collect", "release"}
FlushPcs == {"flCheck", "flLock", "flWait", "flRelease"}
RenewPcs == {"slLock", "slUnlock"}

Returns == Requests \cup {None, TimedOut, Unconfirmed}

\* Type correctness of every variable.
TypeOK ==
    /\ pc \in [Procs -> {"idle"} \cup CmdPcs \cup FlushPcs \cup RenewPcs]
    /\ op \in [Procs -> {"cmd", "flush", "renew"}]
    /\ req \in [Procs -> Requests \cup {None}]
    /\ ret \in [Procs -> Returns]
    /\ calls \in [Procs -> Nat]
    /\ keyRenewLock \in Procs \cup {None}
    /\ lock \in Procs \cup {None}
    /\ bufSend \in Requests \cup {None}
    /\ hifRet \in Requests \cup {None}
    /\ ready \in Nat /\ done \in Nat
    /\ frozen \in BOOLEAN
    /\ txLock \in Int /\ cooling \in BOOLEAN
    /\ queued \in Nat
    /\ bhPc \in {"idle", "tx", "send", "rx", "confirm"}
    /\ bhMsg \in Requests \cup {None, Frame}
    /\ bhDid \in BOOLEAN /\ bhPending \in BOOLEAN
    /\ txUsed \in Int
    /\ chipTx \in Nat /\ cnfTx \in Nat
    /\ chipCmd \in SUBSET Messages /\ cnfCmd \in SUBSET Messages
    /\ exception \in BOOLEAN /\ hung \in BOOLEAN
    /\ busErrors \in Nat /\ lost \in Nat

Init ==
    /\ pc = [p \in Procs |-> "idle"]
    /\ op = [p \in Procs |-> "cmd"]
    /\ req = [p \in Procs |-> None]
    /\ ret = [p \in Procs |-> None]
    /\ calls = [p \in Procs |-> 0]
    /\ keyRenewLock = None /\ lock = None
    /\ bufSend = None /\ hifRet = None
    /\ ready = 0 /\ done = 0
    /\ frozen = FALSE
    /\ txLock = 0 /\ cooling = FALSE /\ queued = 0
    /\ bhPc = "idle" /\ bhMsg = None /\ bhDid = FALSE /\ bhPending = FALSE
    /\ txUsed = 0
    /\ chipTx = 0 /\ chipCmd = {} /\ cnfTx = 0 /\ cnfCmd = {}
    /\ exception = FALSE /\ hung = FALSE
    /\ busErrors = 0 /\ lost = 0

-----------------------------------------------------------------------------
(* Time.  A timeout of the code is an action; these predicates say when    *)
(* the timer may run out before the answer.                                *)

BhQuiet == bhPc = "idle" /\ ~bhPending

\* The answer to p's request will never come: the chip does not have the
\* request, or is hung, and the bottom half can do nothing about it.  After
\* a failed read the bottom half waits for the next interrupt, so it may be
\* quiet with an answer still unread.
Hopeless(p) ==
    /\ (\A m \in cnfCmd : m.req # req[p]) \/ BhQuiet
    /\ bhMsg # req[p]
    /\ hung \/ \A m \in chipCmd : m.req # req[p]
    /\ ready = 0 \/ (hung /\ BhQuiet)

\* First wait, 1 second: the chip may take longer over a request it has, but
\* it gives back an input buffer within that time.
OverdueOnce(p) == Hopeless(p) \/ (BhQuiet /\ ready = 0) \/ LateAnswers

\* Second wait, 3 seconds: no answer comes after it, LateAnswers apart.
Overdue(p) == Hopeless(p) \/ LateAnswers

\* msleep(100): enough for the bottom half to run, when it can do anything.
SleptEnough(p) ==
    \/ BhQuiet
    \/ ready = 0 /\ bhMsg # req[p]
    \/ LateAnswers

\* The 3 seconds of wfx_tx_flush: the chip gives its buffers back in time
\* unless it is hung or a confirmation was lost on the bus.
FlushOverdue == (hung /\ BhQuiet) \/ lost > 0 \/ LateAnswers

-----------------------------------------------------------------------------
(* Threads *)

Goto(p, label) == pc' = [pc EXCEPT ![p] = label]
At(p, label)   == pc[p] = label

Closing == \E p \in Procs : req[p] # None /\ req[p].id = ShutDown
Idle    == \A p \in Procs : At(p, "idle")

\* A thread enters wfx_cmd_send with a new request.  hif_shutdown is called
\* by wfx_release, when no other user of the driver is left.
Call(p, id) ==
    /\ At(p, "idle")
    /\ ~Closing
    /\ calls[p] < MaxCalls
    /\ id = ShutDown => Idle
    /\ calls' = [calls EXCEPT ![p] = @ + 1]
    /\ req' = [req EXCEPT ![p] = [by |-> p, call |-> calls[p] + 1, id |-> id]]
    /\ ret' = [ret EXCEPT ![p] = None]
    /\ op' = [op EXCEPT ![p] = "cmd"]
    /\ Goto(p, "check")
    /\ UNCHANGED <<lockVars, cmdVars, freezeVars, txLock, queued, bhVars,
                   txUsed, chipVars, busVars>>

\* wfx_tx_flush, also from wfx_tx_lock_flush.
CallFlush(p) ==
    /\ At(p, "idle")
    /\ ~Closing
    /\ calls[p] < MaxCalls
    /\ calls' = [calls EXCEPT ![p] = @ + 1]
    /\ ret' = [ret EXCEPT ![p] = None]
    /\ op' = [op EXCEPT ![p] = "flush"]
    /\ Goto(p, "flCheck")
    /\ UNCHANGED <<req, lockVars, cmdVars, freezeVars, txLock, queued, bhVars,
                   txUsed, chipVars, busVars>>

\* wfx_sl_renew_key: a work item, so it never runs twice at the same time.
\* It starts with wfx_tx_lock_flush.
CallRenew(p) ==
    /\ At(p, "idle")
    /\ ~Closing
    /\ calls[p] < MaxCalls
    /\ \A q \in Procs : op[q] = "renew" => At(q, "idle")
    /\ calls' = [calls EXCEPT ![p] = @ + 1]
    /\ ret' = [ret EXCEPT ![p] = None]
    /\ op' = [op EXCEPT ![p] = "renew"]
    /\ txLock' = txLock + 1
    /\ Goto(p, "flCheck")
    /\ UNCHANGED <<req, lockVars, cmdVars, freezeVars, queued, bhVars, txUsed,
                   chipVars, busVars>>

\* Mutant of Check: chip_frozen is not tested.
CheckForgotten(p) ==
    /\ At(p, "check")
    /\ Goto(p, IF req[p].id = SlExchange THEN "cmdLock" ELSE "renewLock")
    /\ UNCHANGED <<op, req, ret, calls, lockVars, cmdVars, freezeVars, txLock,
                   queued, bhVars, txUsed, chipVars, busVars>>

\* Mutant of Check: nobody but the renewal takes key_renew_lock.
CheckSkipsRenewLock(p) ==
    /\ At(p, "check")
    /\ IF frozen
         THEN /\ ret' = [ret EXCEPT ![p] = TimedOut]
              /\ Goto(p, IF op[p] = "renew" THEN "slUnlock" ELSE "idle")
         ELSE Goto(p, "cmdLock") /\ UNCHANGED ret
    /\ UNCHANGED <<op, req, calls, lockVars, cmdVars, freezeVars, txLock,
                   queued, bhVars, txUsed, chipVars, busVars>>

\* wfx_cmd_send: the test of chip_frozen, before any lock is taken.
Check(p) ==
    /\ At(p, "check")
    /\ IF frozen
         THEN /\ ret' = [ret EXCEPT ![p] = TimedOut]
              /\ Goto(p, IF op[p] = "renew" THEN "slUnlock" ELSE "idle")
         ELSE /\ UNCHANGED ret
              /\ Goto(p, IF req[p].id = SlExchange THEN "cmdLock"
                                                   ELSE "renewLock")
    /\ UNCHANGED <<op, req, calls, lockVars, cmdVars, freezeVars, txLock,
                   queued, bhVars, txUsed, chipVars, busVars>>

TakeRenewLock(p) ==
    /\ At(p, "renewLock")
    /\ keyRenewLock = None
    /\ keyRenewLock' = p
    /\ Goto(p, "cmdLock")
    /\ UNCHANGED <<op, req, ret, calls, lock, cmdVars, freezeVars, txLock,
                   queued, bhVars, txUsed, chipVars, busVars>>

TakeLock(p) ==
    /\ At(p, "cmdLock")
    /\ lock = None
    /\ lock' = p
    /\ Goto(p, "publish")
    /\ UNCHANGED <<op, req, ret, calls, keyRenewLock, cmdVars, freezeVars,
                   txLock, queued, bhVars, txUsed, chipVars, busVars>>

\* buf_send = request; complete(ready).
Publish(p) ==
    /\ At(p, "publish")
    /\ bufSend' = req[p]
    /\ ready' = ready + 1
    /\ Goto(p, "kick")
    /\ UNCHANGED <<op, req, ret, calls, lockVars, hifRet, done, freezeVars,
                   txLock, queued, bhVars, txUsed, chipVars, busVars>>

\* wfx_bh_request_tx, then msleep or the first wait.
Kick(p) ==
    /\ At(p, "kick")
    /\ bhPending' = TRUE
    /\ Goto(p, IF req[p].id = ShutDown THEN "sleep" ELSE "wait")
    /\ UNCHANGED <<op, req, ret, calls, lockVars, cmdVars, freezeVars, txLock,
                   queued, bhPc, bhMsg, bhDid, txUsed, chipVars, busVars>>

Slept(p) ==
    /\ At(p, "sleep")
    /\ SleptEnough(p)
    /\ ret' = [ret EXCEPT ![p] = Unconfirmed]
    /\ Goto(p, "release")
    /\ UNCHANGED <<op, req, calls, lockVars, cmdVars, freezeVars, txLock,
                   queued, bhVars, txUsed, chipVars, busVars>>

\* Mutant of Answered: the completion is tested, not consumed.
AnsweredPeeks(p) ==
    /\ pc[p] \in {"wait", "waitMore"}
    /\ done > 0
    /\ Goto(p, "collect")
    /\ UNCHANGED <<op, req, ret, calls, lockVars, cmdVars, freezeVars, txLock,
                   queued, bhVars, txUsed, chipVars, busVars>>

\* wait_for_completion_timeout returns because `done' is completed.
Answered(p) ==
    /\ pc[p] \in {"wait", "waitMore"}
    /\ done > 0
    /\ done' = done - 1
    /\ Goto(p, "collect")
    /\ UNCHANGED <<op, req, ret, calls, lockVars, bufSend, hifRet, ready,
                   freezeVars, txLock, queued, bhVars, txUsed, chipVars,
                   busVars>>

\* "chip is abnormally long to answer": the request is withdrawn from the
\* bottom half if it was not picked up yet.
FirstTimeout(p) ==
    /\ At(p, "wait")
    /\ done = 0
    /\ OverdueOnce(p)
    /\ ready' = 0
    /\ Goto(p, "waitMore")
    /\ UNCHANGED <<op, req, ret, calls, lockVars, bufSend, hifRet, done,
                   freezeVars, txLock, queued, bhVars, txUsed, chipVars,
                   busVars>>

SecondTimeout(p) ==
    /\ At(p, "waitMore")
    /\ done = 0
    /\ Overdue(p)
    /\ Goto(p, "giveUp")
    /\ UNCHANGED <<op, req, ret, calls, lockVars, cmdVars, freezeVars, txLock,
                   queued, bhVars, txUsed, chipVars, busVars>>

\* "chip did not answer".
GiveUp(p) ==
    /\ At(p, "giveUp")
    /\ frozen' = TRUE
    /\ done' = 0
    /\ ret' = [ret EXCEPT ![p] = TimedOut]
    /\ Goto(p, "release")
    /\ UNCHANGED <<cooling, op, req, calls, lockVars, bufSend, hifRet, ready,
                   txLock, queued, bhVars, txUsed, chipVars, busVars>>

\* ret = hif_cmd.ret.
Collect(p) ==
    /\ At(p, "collect")
    /\ ret' = [ret EXCEPT ![p] = hifRet]
    /\ Goto(p, "release")
    /\ UNCHANGED <<op, req, calls, lockVars, cmdVars, freezeVars, txLock,
                   queued, bhVars, txUsed, chipVars, busVars>>

\* Mutant of Release: buf_send is left behind.
ReleaseKeepsBuffer(p) ==
    /\ At(p, "release")
    /\ lock' = None
    /\ IF op[p] = "renew"
         THEN Goto(p, "slUnlock") /\ UNCHANGED keyRenewLock
         ELSE Goto(p, "idle") /\ keyRenewLock' = None
    /\ UNCHANGED <<op, req, ret, calls, cmdVars, freezeVars, txLock, queued,
                   bhVars, txUsed, chipVars, busVars>>

\* buf_send = NULL and the unlocks; key_renew_lock stays with the renewal,
\* which took it itself.
Release(p) ==
    /\ At(p, "release")
    /\ bufSend' = None
    /\ lock' = None
    /\ IF op[p] = "renew"
         THEN /\ UNCHANGED keyRenewLock
              /\ Goto(p, "slUnlock")
         ELSE /\ keyRenewLock' = None
              /\ Goto(p, "idle")
    /\ UNCHANGED <<op, req, ret, calls, hifRet, ready, done, freezeVars,
                   txLock, queued, bhVars, txUsed, chipVars, busVars>>

-----------------------------------------------------------------------------
(* wfx_tx_flush and wfx_sl_renew_key *)

\* wfx_tx_unlock restarts the bottom half when the last lock goes away.
TxUnlock ==
    /\ txLock' = txLock - 1
    /\ bhPending' = (bhPending \/ txLock = 1)

AfterFlush(p) == IF op[p] = "renew" THEN "slLock" ELSE "idle"

FlushCheck(p) ==
    /\ At(p, "flCheck")
    /\ IF frozen
         THEN /\ Goto(p, AfterFlush(p))
              /\ UNCHANGED txLock
         ELSE /\ Goto(p, "flLock")
              /\ txLock' = txLock + 1
    /\ UNCHANGED <<op, req, ret, calls, lockVars, cmdVars, freezeVars, queued,
                   bhVars, txUsed, chipVars, busVars>>

FlushLock(p) ==
    /\ At(p, "flLock")
    /\ lock = None
    /\ lock' = p
    /\ Goto(p, "flWait")
    /\ UNCHANGED <<op, req, ret, calls, keyRenewLock, cmdVars, freezeVars,
                   txLock, queued, bhVars, txUsed, chipVars, busVars>>

FlushEmpty(p) ==
    /\ At(p, "flWait")
    /\ txUsed = 0
    /\ Goto(p, "flRelease")
    /\ UNCHANGED <<op, req, ret, calls, lockVars, cmdVars, freezeVars, txLock,
                   queued, bhVars, txUsed, chipVars, busVars>>

\* "cannot flush tx buffers".
FlushTimeout(p) ==
    /\ At(p, "flWait")
    /\ txUsed > 0
    /\ FlushOverdue
    /\ frozen' = TRUE
    /\ Goto(p, "flRelease")
    /\ UNCHANGED <<cooling, op, req, ret, calls, lockVars, cmdVars, txLock,
                   queued, bhVars, txUsed, chipVars, busVars>>

\* Mutant of FlushRelease: hif_cmd.lock is not given back.
FlushReleaseKeepsLock(p) ==
    /\ At(p, "flRelease")
    /\ TxUnlock
    /\ Goto(p, AfterFlush(p))
    /\ UNCHANGED <<op, req, ret, calls, lockVars, cmdVars, freezeVars, queued,
                   bhPc, bhMsg, bhDid, txUsed, chipVars, busVars>>

FlushRelease(p) ==
    /\ At(p, "flRelease")
    /\ lock' = None
    /\ TxUnlock
    /\ Goto(p, AfterFlush(p))
    /\ UNCHANGED <<op, req, ret, calls, keyRenewLock, cmdVars, freezeVars,
                   queued, bhPc, bhMsg, bhDid, txUsed, chipVars, busVars>>

\* The renewal takes key_renew_lock and calls hif_sl_send_pub_keys.
RenewLock(p) ==
    /\ At(p, "slLock")
    /\ keyRenewLock = None
    /\ keyRenewLock' = p
    /\ req' = [req EXCEPT ![p] =
                 [by |-> p, call |-> calls[p], id |-> SlExchange]]
    /\ Goto(p, "check")
    /\ UNCHANGED <<op, ret, calls, lock, cmdVars, freezeVars, txLock, queued,
                   bhVars, txUsed, chipVars, busVars>>

\* The exchange is over (the chip's key arrived, or not within 500 ms).
RenewUnlock(p) ==
    /\ At(p, "slUnlock")
    /\ keyRenewLock' = None
    /\ TxUnlock
    /\ Goto(p, "idle")
    /\ UNCHANGED <<op, req, ret, calls, lock, cmdVars, freezeVars, queued,
                   bhPc, bhMsg, bhDid, txUsed, chipVars, busVars>>

-----------------------------------------------------------------------------
(* The bottom half: bh_work *)

\* mac80211 queues a data frame: wfx_tx_queues_put and wfx_bh_request_tx.
SubmitFrame ==
    /\ ~Closing
    /\ queued + chipTx + cnfTx < MaxFrames
    /\ queued' = queued + 1
    /\ bhPending' = TRUE
    /\ UNCHANGED <<threadVars, lockVars, cmdVars, freezeVars, txLock, bhPc,
                   bhMsg, bhDid, txUsed, chipVars, busVars>>

\* The work item starts.  A work item queued while it runs runs again.
BhStart ==
    /\ bhPc = "idle"
    /\ bhPending
    /\ bhPending' = FALSE
    /\ bhPc' = "tx"
    /\ bhDid' = FALSE
    /\ UNCHANGED <<threadVars, lockVars, cmdVars, freezeVars, txLock, queued,
                   bhMsg, txUsed, chipVars, busVars>>

HasBuffer == txUsed < NumBufs

\* Mutant of BhTakeCmd: `ready' is tested, not consumed.
BhTakeCmdPeeks ==
    /\ bhPc = "tx"
    /\ HasBuffer
    /\ ready > 0
    /\ bhMsg' = bufSend
    /\ bhPc' = IF bufSend = None THEN "rx" ELSE "send"
    /\ UNCHANGED <<threadVars, lockVars, cmdVars, freezeVars, txLock, queued,
                   bhDid, bhPending, txUsed, chipVars, busVars>>

\* Mutant of BhTakeCmd: `ready' is consumed even without a free buffer.
BhTakeCmdEarly ==
    /\ bhPc = "tx"
    /\ ready > 0
    /\ ready' = ready - 1
    /\ bhMsg' = IF HasBuffer THEN bufSend ELSE None
    /\ bhPc' = IF HasBuffer /\ bufSend # None THEN "send" ELSE "rx"
    /\ UNCHANGED <<threadVars, lockVars, bufSend, hifRet, done, freezeVars,
                   txLock, queued, bhDid, bhPending, txUsed, chipVars,
                   busVars>>

\* bh_work_tx: the command goes first.  buf_send may have been withdrawn.
BhTakeCmd ==
    /\ bhPc = "tx"
    /\ HasBuffer
    /\ ready > 0
    /\ ready' = ready - 1
    /\ bhMsg' = bufSend
    /\ bhPc' = IF bufSend = None THEN "rx" ELSE "send"
    /\ UNCHANGED <<threadVars, lockVars, bufSend, hifRet, done, freezeVars,
                   txLock, queued, bhDid, bhPending, txUsed, chipVars,
                   busVars>>

\* bh_work_tx: wfx_tx_queues_get gives nothing while tx_lock is held.
BhTakeFrame ==
    /\ bhPc = "tx"
    /\ HasBuffer
    /\ ready = 0
    /\ txLock = 0
    /\ queued > 0
    /\ queued' = queued - 1
    /\ bhMsg' = Frame
    /\ bhPc' = "send"
    /\ UNCHANGED <<threadVars, lockVars, cmdVars, freezeVars, txLock, bhDid,
                   bhPending, txUsed, chipVars, busVars>>

BhNothingToSend ==
    /\ bhPc = "tx"
    /\ ~HasBuffer \/ (ready = 0 /\ (txLock > 0 \/ queued = 0))
    /\ bhPc' = "rx"
    /\ UNCHANGED <<threadVars, lockVars, cmdVars, freezeVars, txLock, queued,
                   bhMsg, bhDid, bhPending, txUsed, chipVars, busVars>>

\* The n-th copy of request r is the first one the chip is not busy with.
FirstFreeCopy(r, n) ==
    LET busy == chipCmd \cup cnfCmd
    IN  /\ [req |-> r, copy |-> n] \notin busy
        /\ \A k \in 0 .. n - 1 : [req |-> r, copy |-> k] \in busy

\* tx_helper: the message is in one of the chip's input buffers.
BhSend ==
    /\ bhPc = "send"
    /\ \/ /\ bhMsg = Frame
          /\ chipTx' = chipTx + 1
          /\ UNCHANGED chipCmd
       \/ /\ bhMsg # Frame
          /\ \E n \in 0 .. NumBufs :
                /\ FirstFreeCopy(bhMsg, n)
                /\ chipCmd' = chipCmd \cup {[req |-> bhMsg, copy |-> n]}
          /\ UNCHANGED chipTx
    /\ txUsed' = txUsed + 1
    /\ bhMsg' = None
    /\ bhDid' = TRUE
    /\ bhPc' = "tx"
    /\ UNCHANGED <<threadVars, lockVars, cmdVars, freezeVars, txLock, queued,
                   bhPending, cnfTx, cnfCmd, exception, hung, busVars>>

\* tx_helper: wfx_data_write fails; the message is dropped without a word.
BhSendFails ==
    /\ bhPc = "send"
    /\ busErrors < MaxBusErrors
    /\ busErrors' = busErrors + 1
    /\ bhMsg' = None
    /\ bhDid' = TRUE
    /\ bhPc' = "tx"
    /\ UNCHANGED <<threadVars, lockVars, cmdVars, freezeVars, txLock, queued,
                   bhPending, txUsed, chipVars, lost>>

\* Mutant of BhReadFrames: a multi-transmit confirmation counts for one.
BhReadFramesCountsOne(n) ==
    /\ bhPc = "rx"
    /\ n \in 1 .. cnfTx
    /\ cnfTx' = cnfTx - n
    /\ txUsed' = txUsed - 1
    /\ bhDid' = TRUE
    /\ UNCHANGED <<threadVars, lockVars, cmdVars, freezeVars, txLock, queued,
                   bhPc, bhMsg, bhPending, chipTx, chipCmd, cnfCmd, exception,
                   hung, busVars>>

\* rx_helper: one confirmation for n data frames (n > 1: multi-transmit).
BhReadFrames(n) ==
    /\ bhPc = "rx"
    /\ n \in 1 .. cnfTx
    /\ cnfTx' = cnfTx - n
    /\ txUsed' = txUsed - n
    /\ bhDid' = TRUE
    /\ UNCHANGED <<threadVars, lockVars, cmdVars, freezeVars, txLock, queued,
                   bhPc, bhMsg, bhPending, chipTx, chipCmd, cnfCmd, exception,
                   hung, busVars>>

\* wfx_handle_rx: does the confirmation match the published request?
Matches(r) == lock # None /\ bufSend # None /\ bufSend.id = r.id

\* rx_helper and wfx_handle_rx: the confirmation of a request; one that
\* matches nothing is dropped.
BhReadAnswer(m) ==
    /\ bhPc = "rx"
    /\ m \in cnfCmd
    /\ cnfCmd' = cnfCmd \ {m}
    /\ txUsed' = txUsed - 1
    /\ bhDid' = TRUE
    /\ IF Matches(m.req) THEN bhPc' = "confirm" /\ bhMsg' = m.req
                         ELSE UNCHANGED <<bhPc, bhMsg>>
    /\ UNCHANGED <<threadVars, lockVars, cmdVars, freezeVars, txLock, queued,
                   bhPending, chipTx, chipCmd, cnfTx, exception, hung,
                   busVars>>

\* hif_generic_confirm: buf_send is tested again, then the waiter is woken.
BhConfirm ==
    /\ bhPc = "confirm"
    /\ IF bufSend # None /\ bufSend.id = bhMsg.id
         THEN hifRet' = bhMsg /\ done' = done + 1
         ELSE UNCHANGED <<hifRet, done>>
    /\ bhMsg' = None
    /\ bhPc' = "rx"
    /\ UNCHANGED <<threadVars, lockVars, bufSend, ready, freezeVars, txLock,
                   queued, bhDid, bhPending, txUsed, chipVars, busVars>>

\* hif_error_indication, hif_exception_indication: the chip is declared
\* frozen, although one that reports an error still works and goes on
\* answering.
BhReadException ==
    /\ bhPc = "rx"
    /\ exception
    /\ exception' = FALSE
    /\ frozen' = TRUE
    /\ bhDid' = TRUE
    /\ UNCHANGED <<cooling, threadVars, lockVars, cmdVars, txLock, queued,
                   bhPc, bhMsg, bhPending, txUsed, chipTx, chipCmd, cnfTx,
                   cnfCmd, hung, busVars>>

\* bh_work: one more iteration as long as the last one moved a message.
BhNextIteration ==
    /\ bhPc' = IF bhDid THEN "tx" ELSE "idle"
    /\ bhDid' = FALSE

\* rx_helper fails: the confirmation is lost with its credit, and bh_work_rx
\* stops there.
BhReadFails ==
    /\ bhPc = "rx"
    /\ busErrors < MaxBusErrors
    /\ \/ cnfTx > 0 /\ cnfTx' = cnfTx - 1 /\ UNCHANGED cnfCmd
       \/ \E m \in cnfCmd : cnfCmd' = cnfCmd \ {m} /\ UNCHANGED cnfTx
    /\ busErrors' = busErrors + 1
    /\ lost' = lost + 1
    /\ BhNextIteration
    /\ UNCHANGED <<threadVars, lockVars, cmdVars, freezeVars, txLock, queued,
                   bhMsg, bhPending, txUsed, chipTx, chipCmd, exception,
                   hung>>

\* hif_suspend_resume_indication, wfx_suspend_hot_dev: the chip is too hot.
\* Module Cooling has the chip that recovers in time, and repetitions; here it
\* gets hot at most once before it is frozen, and stays so.
BhReadTooHot ==
    /\ bhPc = "rx"
    /\ MayHeat /\ ~hung
    /\ ~cooling /\ ~frozen
    /\ cooling' = TRUE
    /\ txLock' = txLock + 1
    /\ bhDid' = TRUE
    /\ UNCHANGED <<threadVars, lockVars, cmdVars, frozen, queued, bhPc, bhMsg,
                   bhPending, txUsed, chipVars, busVars>>

\* wfx_cooling_timeout_work: too hot for 10 seconds.  The chip is declared
\* frozen, whether it still answers or not.
CoolingTimeout ==
    /\ cooling
    /\ cooling' = FALSE
    /\ frozen' = TRUE
    /\ TxUnlock
    /\ UNCHANGED <<threadVars, lockVars, cmdVars, queued, bhPc, bhMsg, bhDid,
                   txUsed, chipVars, busVars>>

BhNothingToRead ==
    /\ bhPc = "rx"
    /\ cnfTx = 0 /\ cnfCmd = {} /\ ~exception
    /\ BhNextIteration
    /\ UNCHANGED <<threadVars, lockVars, cmdVars, freezeVars, txLock, queued,
                   bhMsg, bhPending, txUsed, chipVars, busVars>>

-----------------------------------------------------------------------------
(* The chip; its interrupt queues the work item (wfx_bh_request_rx) *)

ChipConfirmsFrame ==
    /\ ~hung
    /\ chipTx > 0
    /\ chipTx' = chipTx - 1
    /\ cnfTx' = cnfTx + 1
    /\ bhPending' = TRUE
    /\ UNCHANGED <<threadVars, lockVars, cmdVars, freezeVars, txLock, queued,
                   bhPc, bhMsg, bhDid, txUsed, chipCmd, cnfCmd, exception,
                   hung, busVars>>

ChipAnswers(m) ==
    /\ ~hung
    /\ m \in chipCmd
    /\ m.req.id # ShutDown
    /\ chipCmd' = chipCmd \ {m}
    /\ cnfCmd' = cnfCmd \cup {m}
    /\ bhPending' = TRUE
    /\ UNCHANGED <<threadVars, lockVars, cmdVars, freezeVars, txLock, queued,
                   bhPc, bhMsg, bhDid, txUsed, chipTx, cnfTx, exception, hung,
                   busVars>>

\* After HIF_REQ_ID_SHUT_DOWN the chip does not answer any more.
ChipShutsDown ==
    /\ ~hung
    /\ \E m \in chipCmd : m.req.id = ShutDown
    /\ hung' = TRUE
    /\ UNCHANGED <<threadVars, lockVars, cmdVars, freezeVars, txLock, queued,
                   bhVars, txUsed, chipTx, chipCmd, cnfTx, cnfCmd, exception,
                   busVars>>

\* The firmware stops, with or without an exception indication.
ChipHangs ==
    /\ MayHang
    /\ ~hung
    /\ hung' = TRUE
    /\ exception' \in BOOLEAN
    /\ bhPending' = (bhPending \/ exception')
    /\ UNCHANGED <<threadVars, lockVars, cmdVars, freezeVars, txLock, queued,
                   bhPc, bhMsg, bhDid, txUsed, chipTx, chipCmd, cnfTx, cnfCmd,
                   busVars>>

\* An error indication of a chip that goes on working.
ChipReportsError ==
    /\ MayHang
    /\ ~hung /\ ~exception
    /\ exception' = TRUE
    /\ bhPending' = TRUE
    /\ UNCHANGED <<threadVars, lockVars, cmdVars, freezeVars, txLock, queued,
                   bhPc, bhMsg, bhDid, txUsed, chipTx, chipCmd, cnfTx, cnfCmd,
                   hung, busVars>>

-----------------------------------------------------------------------------
(* Specification *)

Thread(p) ==
    \/ \E id \in Ids \cup {ShutDown} : Call(p, id)
    \/ CallFlush(p) \/ CallRenew(p)
    \/ Check(p) \/ TakeRenewLock(p) \/ TakeLock(p) \/ Publish(p) \/ Kick(p)
    \/ Slept(p) \/ Answered(p) \/ FirstTimeout(p) \/ SecondTimeout(p)
    \/ GiveUp(p) \/ Collect(p) \/ Release(p)
    \/ FlushCheck(p) \/ FlushLock(p) \/ FlushEmpty(p) \/ FlushTimeout(p)
    \/ FlushRelease(p) \/ RenewLock(p) \/ RenewUnlock(p)

BottomHalf ==
    \/ BhStart \/ BhTakeCmd \/ BhTakeFrame \/ BhNothingToSend
    \/ BhSend \/ BhSendFails
    \/ \E n \in 1 .. cnfTx : BhReadFrames(n)
    \/ \E m \in cnfCmd : BhReadAnswer(m)
    \/ BhConfirm \/ BhReadException \/ BhReadFails \/ BhNothingToRead
    \/ BhReadTooHot

Chip ==
    \/ ChipConfirmsFrame
    \/ \E m \in chipCmd : ChipAnswers(m)
    \/ ChipShutsDown \/ ChipHangs \/ ChipReportsError

Next ==
    \/ \E p \in Procs : Thread(p)
    \/ SubmitFrame
    \/ BottomHalf
    \/ CoolingTimeout
    \/ Chip

Spec == Init /\ [][Next]_vars

\* What a thread does once it is inside the layer, its mutexes apart.
Advance(p) ==
    \/ Check(p) \/ Publish(p) \/ Kick(p) \/ Slept(p) \/ Answered(p)
    \/ FirstTimeout(p) \/ SecondTimeout(p) \/ GiveUp(p) \/ Collect(p)
    \/ Release(p) \/ FlushCheck(p) \/ FlushEmpty(p) \/ FlushTimeout(p)
    \/ FlushRelease(p) \/ RenewUnlock(p)

\* A thread waits for one mutex at a time.
Acquire(p) == TakeRenewLock(p) \/ TakeLock(p) \/ FlushLock(p) \/ RenewLock(p)

\* The scheduler runs every thread and the work item; timers expire; a mutex
\* is handed to every waiter in turn; a chip that is alive answers.
Fairness ==
    /\ \A p \in Procs :
          /\ WF_vars(Advance(p))
          /\ SF_vars(Acquire(p))
    /\ WF_vars(BottomHalf)
    /\ WF_vars(ChipConfirmsFrame)
    /\ WF_vars(\E m \in chipCmd : ChipAnswers(m))

FairSpec == Spec /\ Fairness

-----------------------------------------------------------------------------
(* Properties *)

\* The request has an answer on its way, or is at the chip, or is about to be.
InFlight(p) == pc[p] \in {"kick", "sleep", "wait", "waitMore", "giveUp",
                          "collect", "release"}

\* hif_cmd.lock protects buf_send: it points to a request only while the
\* thread that published that very request holds the lock and waits; the
\* next publisher finds it NULL (the WARN at the top of wfx_cmd_send).
BufSendProtected ==
    /\ bufSend # None =>
          /\ lock = bufSend.by
          /\ InFlight(lock)
          /\ req[lock] = bufSend
    /\ \A p \in Procs : At(p, "publish") => bufSend = None

\* tx_buffers_used counts exactly the messages that occupy an input buffer
\* of the chip, plus the confirmations a failed read has lost, and never
\* exceeds the number of buffers the chip announced.
CreditsExact ==
    /\ txUsed = chipTx + cnfTx + Cardinality(chipCmd) + Cardinality(cnfCmd)
                + lost
    /\ txUsed <= NumBufs

\* A call that returns the chip's status returns the status of its own
\* request, never of a request another call gave up.
AnswerIsOwn ==
    \A p \in Procs : ret[p] \in Requests => ret[p] = req[p]

\* The bottom half sends a request at most once, and only while its caller
\* waits: once wfx_cmd_send returns, the caller frees the buffer.  The caller of
\* the shutdown command only sleeps: it may be gone.
SentOnceWhileOwned ==
    (bhPc = "send" /\ bhMsg # Frame) =>
        /\ \A m \in chipCmd \cup cnfCmd : m.req # bhMsg
        /\ bhMsg.id # ShutDown => InFlight(bhMsg.by) /\ req[bhMsg.by] = bhMsg

\* During a key renewal no other command reaches the chip: from the moment
\* key_renew_lock is taken, only the exchange itself is published.
RenewalExclusive ==
    \A p \in Procs :
        (op[p] = "renew" /\ keyRenewLock = p /\ bufSend # None)
            => bufSend.id = SlExchange

\* wfx_cmd_send gives a command up ("chip did not answer") only when the chip
\* has stopped: as long as it works, also when it has been declared frozen for
\* an error it reported or for its heat, the request reaches it although the
\* first timeout withdraws it, and its answer reaches the thread that waits.
GivesUpOnlyIfHung == \A p \in Procs : At(p, "giveUp") => hung

\* Every call to the layer returns, whatever the chip does.
CallReturns == \A p \in Procs : pc[p] # "idle" ~> pc[p] = "idle"

-----------------------------------------------------------------------------
(* Refinement: the layer implements CommandChannel *)

PhaseOf(p) ==
    IF lock = p THEN "serving"
    ELSE IF pc[p] \in {"renewLock", "cmdLock", "flLock"} THEN "queueing"
    ELSE "away"

OutcomeOf(p) ==
    CASE ret[p] = None        -> "none"
      [] ret[p] = TimedOut    -> "timedOut"
      [] ret[p] = Unconfirmed -> "unconfirmed"
      [] ret[p] \in Requests  ->
            IF ret[p] = req[p] THEN "answered" ELSE "answeredByAnother"

Channel == INSTANCE CommandChannel WITH
    phase   <- [p \in Procs |-> PhaseOf(p)],
    outcome <- [p \in Procs |-> OutcomeOf(p)],
    frozen  <- frozen

\* One user at a time, each ends with its own answer or with a timeout that
\* freezes the chip, and a thread that finds the chip frozen is turned away.
Refinement == Channel!Spec
=============================================================================
