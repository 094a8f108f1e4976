-------------------------------- MODULE BhIrq --------------------------------
(***************************************************************************)
(* How the bottom half (bh.c) learns that the chip has a message, and keeps*)
(* the chip awake while it uses it.                                        *)
(*                                                                         *)
(* The control register holds the length of the first message of the chip's*)
(* output queue.  A message is announced once: by an interrupt when the    *)
(* queue was empty, else by the copy of the register that ends the read of *)
(* the message before it (the piggyback).  The interrupt thread hands the  *)
(* register over to bh_work in hif.ctrl_reg, an atomic, and hif.ctrl_ready,*)
(* a completion; bh_work hands it over to its own next pass the same way.  *)
(* The messages themselves are of no matter here (HifCmd and TxQueues), nor*)
(* is what a request writes: a kind of message stands for its length too.  *)
(*                                                                         *)
(* The wake-up line is wired and the firmware's API is 1.4 or more recent: *)
(* the chip sends an indication when it sees the line rise.                *)
(***************************************************************************)
EXTENDS Integers, Sequences

CONSTANTS
    Batch,          \* messages of one call of bh_work_tx, bh_work_rx (32)
    NumBufs,        \* hw_caps.num_inp_ch_bufs
    MaxRetry,       \* max_retry of device_wakeup (3)
    MaxMisses,      \* bound: rises of one device_wakeup not answered in 2 ms
    MaxFaults,      \* bound: failed reads of the bus and allocations
    MaxOut,         \* bound: messages in the chip's output queue
    MaxSends        \* bound: requests waiting for the bottom half

ASSUME BhAssumption ==
    /\ Batch \in Nat \ {0} /\ NumBufs \in Nat \ {0}
    /\ MaxRetry \in Nat
    /\ MaxMisses \in 0..MaxRetry
    /\ MaxFaults \in Nat
    /\ MaxOut \in Nat \ {0} /\ MaxSends \in Nat \ {0}

Kinds   == {"cnf", "ind", "wakeup"}
None    == "none"       \* a register whose length field is 0
Garbage == "garbage"    \* what a failed read of a register returns: ~0
Reg     == Kinds \cup {None, Garbage}

VARIABLES
    out,            \* the chip's output queue
    irq,            \* its interrupt is raised, and not yet handled
    chip,           \* "awake" or "asleep"
    edge,           \* it saw the wake-up line rise, and has not answered
    inChip,         \* requests it handles
    gpio,           \* the wake-up line
    irqPc, irqReg,  \* the interrupt thread, and its `cur'
    ctrlReg,        \* hif.ctrl_reg
    ctrlReady,      \* hif.ctrl_ready: how often it is completed
    bhPending,      \* the work item hif.bh is queued
    bhPc,
    bhReg,          \* its `ctrl_reg' and `piggyback'
    count,          \* its `i'
    moved,          \* num_rx || num_tx
    retry,          \* max_retry of device_wakeup
    missed,         \* history: rises this device_wakeup made for nothing
    buffersUsed,    \* hif.tx_buffers_used, an int (CreditsExact of HifCmd)
    toSend,         \* requests that wait: hif_cmd.ready and the tx queues
    kicks,          \* of them, those whose thread has not queued bh_work yet
    faults          \* history: failed reads

chipVars == <<out, irq, chip, edge, inChip>>
irqVars  == <<irqPc, irqReg>>
ctrlVars == <<ctrlReg, ctrlReady>>
wakeVars == <<gpio, retry, missed>>
passVars == <<bhReg, count, moved>>
sendVars == <<toSend, kicks>>
vars == <<chipVars, irqVars, ctrlVars, wakeVars, passVars, sendVars,
          bhPending, bhPc, buffersUsed, faults>>

\* Type correctness of every variable.
TypeOK ==
    /\ out \in Seq(Kinds) /\ Len(out) <= MaxOut
    /\ irq \in BOOLEAN
    /\ chip \in {"awake", "asleep"}
    /\ edge \in BOOLEAN
    /\ inChip \in Nat
    /\ gpio \in BOOLEAN
    /\ irqPc \in {"idle", "xchg", "complete", "queue"} /\ irqReg \in Reg
    /\ ctrlReg \in Reg /\ ctrlReady \in Nat
    /\ bhPending \in BOOLEAN
    /\ bhPc \in {"idle", "raise", "wait", "tx", "rx", "xchg", "read",
                 "putback", "complete", "loop", "release", "lower"}
    /\ bhReg \in Reg /\ count \in 0..Batch /\ moved \in BOOLEAN
    /\ retry \in 0..MaxRetry /\ missed \in 0..MaxMisses
    /\ buffersUsed \in Int
    /\ toSend \in 0..MaxSends /\ kicks \in 0..MaxSends
    /\ faults \in 0..MaxFaults

\* The end of wfx_probe: the line is high, the chip up, and a command is about
\* to be sent (hif_set_operational_mode).
Init ==
    /\ out = <<>> /\ irq = FALSE /\ chip = "awake" /\ edge = FALSE /\ inChip = 0
    /\ gpio = TRUE /\ retry = MaxRetry /\ missed = 0
    /\ irqPc = "idle" /\ irqReg = None
    /\ ctrlReg = None /\ ctrlReady = 0
    /\ bhPending = FALSE /\ bhPc = "idle"
    /\ bhReg = None /\ count = 0 /\ moved = FALSE
    /\ buffersUsed = 0 /\ toSend = 1 /\ kicks = 1 /\ faults = 0

-----------------------------------------------------------------------------
(* The chip, as bh.c relies on it *)

\* The control register: the length of the first message.
Announce(q) == IF q = <<>> THEN None ELSE Head(q)

Emit(k) ==
    /\ Len(out) < MaxOut
    /\ out' = Append(out, k)
    /\ irq' = (irq \/ out = <<>>)

ChipAnswers ==
    /\ chip = "awake" /\ inChip > 0
    /\ Emit("cnf")
    /\ inChip' = inChip - 1
    /\ UNCHANGED <<chip, edge>>

\* An indication of its own; it wakes up for it.
ChipIndicates ==
    /\ Emit("ind")
    /\ chip' = "awake"
    /\ UNCHANGED <<edge, inChip>>

ChipWakesUp ==
    /\ edge
    /\ Emit("wakeup")
    /\ edge' = FALSE
    /\ chip' = "awake"
    /\ UNCHANGED inChip

ChipSleeps ==
    /\ chip = "awake"
    /\ ~gpio /\ ~edge /\ out = <<>> /\ inChip = 0
    /\ chip' = "asleep"
    /\ UNCHANGED <<out, irq, edge, inChip>>

Chip ==
    /\ ChipAnswers \/ ChipIndicates \/ ChipWakesUp \/ ChipSleeps
    /\ UNCHANGED <<irqVars, ctrlVars, wakeVars, passVars, sendVars,
                   bhPending, bhPc, buffersUsed, faults>>

-----------------------------------------------------------------------------
(* The interrupt thread: wfx_bh_request_rx *)

\* control_reg_read; when the bus fails, nobody looks at its return value.
IrqReads ==
    /\ irqPc = "idle" /\ irq
    /\ irq' = FALSE
    /\ irqPc' = "xchg"
    /\ \/ irqReg' = Announce(out) /\ UNCHANGED faults
       \/ irqReg' = Garbage /\ faults < MaxFaults /\ faults' = faults + 1
    /\ UNCHANGED <<out, chip, edge, inChip, ctrlVars, wakeVars, passVars,
                   sendVars, bhPending, bhPc, buffersUsed>>

IrqXchg ==
    /\ irqPc = "xchg"
    /\ ctrlReg' = irqReg
    /\ irqPc' = "complete"
    /\ UNCHANGED <<chipVars, irqReg, ctrlReady, wakeVars, passVars, sendVars,
                   bhPending, bhPc, buffersUsed, faults>>

IrqCompletes ==
    /\ irqPc = "complete"
    /\ ctrlReady' = ctrlReady + 1
    /\ irqPc' = "queue"
    /\ irqReg' = None
    /\ UNCHANGED <<chipVars, ctrlReg, wakeVars, passVars, sendVars,
                   bhPending, bhPc, buffersUsed, faults>>

IrqQueues ==
    /\ irqPc = "queue"
    /\ bhPending' = TRUE
    /\ irqPc' = "idle"
    /\ UNCHANGED <<chipVars, irqReg, ctrlVars, wakeVars, passVars, sendVars,
                   bhPc, buffersUsed, faults>>

Irq == IrqReads \/ IrqXchg \/ IrqCompletes \/ IrqQueues

-----------------------------------------------------------------------------
(* The threads that have something to send: wfx_bh_request_tx *)

Request ==
    /\ toSend < MaxSends /\ kicks < MaxSends
    /\ toSend' = toSend + 1
    /\ kicks' = kicks + 1
    /\ UNCHANGED <<chipVars, irqVars, ctrlVars, wakeVars, passVars, bhPending,
                   bhPc, buffersUsed, faults>>

RequestTx ==
    /\ kicks > 0
    /\ bhPending' = TRUE
    /\ kicks' = kicks - 1
    /\ UNCHANGED <<chipVars, irqVars, ctrlVars, wakeVars, passVars, toSend,
                   bhPc, buffersUsed, faults>>

-----------------------------------------------------------------------------
(* bh_work: device_wakeup *)

Start ==
    /\ bhPc = "idle" /\ bhPending
    /\ bhPending' = FALSE
    /\ bhPc' = IF gpio THEN "tx" ELSE "raise"
    /\ UNCHANGED <<chipVars, irqVars, ctrlVars, wakeVars, passVars, sendVars,
                   buffersUsed, faults>>

\* The race of older firmwares: the chip may not see the line rise.
Raise ==
    /\ bhPc = "raise"
    /\ gpio' = TRUE
    /\ bhPc' = "wait"
    /\ \/ edge' = TRUE /\ UNCHANGED missed
       \/ missed < MaxMisses /\ missed' = missed + 1 /\ UNCHANGED edge
    /\ UNCHANGED <<out, irq, chip, inChip, irqVars, ctrlVars, retry, passVars,
                   sendVars, bhPending, buffersUsed, faults>>

\* wait_for_completion_timeout and the complete that gives back what it took.
Woken ==
    /\ bhPc = "wait" /\ ctrlReady > 0
    /\ bhPc' = "tx"
    /\ retry' = MaxRetry /\ missed' = 0
    /\ UNCHANGED <<chipVars, irqVars, ctrlVars, gpio, passVars, sendVars,
                   bhPending, buffersUsed, faults>>

\* The chip or the interrupt thread is about to complete ctrl_ready.
Answering == edge \/ irq \/ irqPc # "idle"

\* 2 ms are over, which is late only if the answer was on its way.
WaitOver ==
    /\ bhPc = "wait" /\ ctrlReady = 0
    /\ Answering => missed < MaxMisses

Missed == IF Answering THEN missed + 1 ELSE missed

WakeRetries ==
    /\ WaitOver /\ retry > 0
    /\ retry' = retry - 1 /\ missed' = Missed
    /\ gpio' = FALSE
    /\ bhPc' = "raise"
    /\ UNCHANGED <<chipVars, irqVars, ctrlVars, passVars, sendVars, bhPending,
                   buffersUsed, faults>>

\* Mutant: the last retry is not made.
WakeGivesUpEarly ==
    /\ WaitOver /\ retry <= 1
    /\ bhPc' = "tx"
    /\ retry' = MaxRetry /\ missed' = 0
    /\ UNCHANGED <<chipVars, irqVars, ctrlVars, gpio, passVars, sendVars,
                   bhPending, buffersUsed, faults>>

\* "max wake-up retries reached"
WakeGivesUp ==
    /\ WaitOver /\ retry = 0
    /\ bhPc' = "tx"
    /\ retry' = MaxRetry /\ missed' = 0
    /\ UNCHANGED <<chipVars, irqVars, ctrlVars, gpio, passVars, sendVars,
                   bhPending, buffersUsed, faults>>

-----------------------------------------------------------------------------
(* bh_work: the loop of bh_work_tx and bh_work_rx *)

CanSend == count < Batch /\ buffersUsed < NumBufs /\ toSend > 0

TxOne ==
    /\ bhPc = "tx" /\ CanSend
    /\ toSend' = toSend - 1
    /\ inChip' = inChip + 1
    /\ buffersUsed' = buffersUsed + 1
    /\ count' = count + 1
    /\ moved' = TRUE
    /\ UNCHANGED <<out, irq, chip, edge, irqVars, ctrlVars, wakeVars, bhReg,
                   kicks, bhPending, bhPc, faults>>

TxEnds ==
    /\ bhPc = "tx" /\ ~CanSend
    /\ bhPc' = "rx"
    /\ count' = 0 /\ bhReg' = None
    /\ UNCHANGED <<chipVars, irqVars, ctrlVars, wakeVars, moved, sendVars,
                   bhPending, buffersUsed, faults>>

\* What to read next: the piggyback, else ctrl_reg if ctrl_ready says so.
RxNext ==
    /\ bhPc = "rx" /\ count < Batch
    /\ IF bhReg # None THEN bhPc' = "read" /\ UNCHANGED ctrlReady
       ELSE IF ctrlReady > 0
       THEN bhPc' = "xchg" /\ ctrlReady' = ctrlReady - 1
       ELSE bhPc' = "loop" /\ UNCHANGED ctrlReady
    /\ UNCHANGED <<chipVars, irqVars, ctrlReg, wakeVars, passVars, sendVars,
                   bhPending, buffersUsed, faults>>

\* Mutant: ctrl_reg is read, and not exchanged with 0.
RxXchgKeeps ==
    /\ bhPc = "xchg"
    /\ bhReg' = ctrlReg
    /\ bhPc' = IF ctrlReg = None THEN "loop" ELSE "read"
    /\ UNCHANGED <<chipVars, irqVars, ctrlVars, wakeVars, count, moved,
                   sendVars, bhPending, buffersUsed, faults>>

RxXchg ==
    /\ bhPc = "xchg"
    /\ bhReg' = ctrlReg
    /\ ctrlReg' = None
    /\ bhPc' = IF ctrlReg = None THEN "loop" ELSE "read"
    /\ UNCHANGED <<chipVars, irqVars, ctrlReady, wakeVars, count, moved,
                   sendVars, bhPending, buffersUsed, faults>>

\* Mutants: the piggyback of the previous message is kept; the input buffer
\* of a confirmed request is not given back.
ReadKeepsLength ==
    /\ bhPc = "read"
    /\ out # <<>> /\ bhReg = Head(out)
    /\ out' = Tail(out)
    /\ buffersUsed' = IF Head(out) = "cnf" THEN buffersUsed - 1 ELSE buffersUsed
    /\ count' = count + 1
    /\ moved' = TRUE
    /\ bhPc' = "rx"
    /\ UNCHANGED <<irq, chip, edge, inChip, irqVars, ctrlVars, wakeVars, bhReg,
                   sendVars, bhPending, faults>>
ReadKeepsBuffer ==
    /\ bhPc = "read"
    /\ out # <<>> /\ bhReg = Head(out)
    /\ out' = Tail(out)
    /\ bhReg' = Announce(Tail(out))
    /\ count' = count + 1
    /\ moved' = TRUE
    /\ bhPc' = "rx"
    /\ UNCHANGED <<irq, chip, edge, inChip, irqVars, ctrlVars, wakeVars,
                   sendVars, bhPending, buffersUsed, faults>>

\* rx_helper, with the length of the message there is.
Read ==
    /\ bhPc = "read"
    /\ out # <<>> /\ bhReg = Head(out)
    /\ out' = Tail(out)
    /\ bhReg' = Announce(Tail(out))
    /\ buffersUsed' = IF Head(out) = "cnf" THEN buffersUsed - 1 ELSE buffersUsed
    /\ count' = count + 1
    /\ moved' = TRUE
    /\ bhPc' = "rx"
    /\ UNCHANGED <<irq, chip, edge, inChip, irqVars, ctrlVars, wakeVars,
                   sendVars, bhPending, faults>>

\* -ENOMEM, or -EIO: the bus failed or the length was wrong.  Whatever the
\* chip makes of the access, the message is not seen and the piggyback is.
ReadFails ==
    /\ bhPc = "read"
    /\ \/ faults < MaxFaults /\ faults' = faults + 1
       \/ (out = <<>> \/ bhReg # Announce(out)) /\ UNCHANGED faults
    /\ \/ out # <<>> /\ out' = Tail(out)
       \/ UNCHANGED out
    /\ bhPc' = "loop"
    /\ bhReg' = None
    /\ UNCHANGED <<irq, chip, edge, inChip, irqVars, ctrlVars, wakeVars,
                   count, moved, sendVars, bhPending, buffersUsed>>

\* Mutant: the piggyback of a full pass is forgotten.
RxFullForgets ==
    /\ bhPc = "rx" /\ count = Batch
    /\ bhPc' = "loop"
    /\ UNCHANGED <<chipVars, irqVars, ctrlVars, wakeVars, passVars, sendVars,
                   bhPending, buffersUsed, faults>>

\* max_msg messages are read: a piggyback that is left goes to the next call.
RxFull ==
    /\ bhPc = "rx" /\ count = Batch
    /\ bhPc' = IF bhReg = None THEN "loop" ELSE "putback"
    /\ UNCHANGED <<chipVars, irqVars, ctrlVars, wakeVars, passVars, sendVars,
                   bhPending, buffersUsed, faults>>

PutBack ==
    /\ bhPc = "putback"
    /\ ctrlReg' = bhReg
    /\ bhPc' = "complete"
    /\ UNCHANGED <<chipVars, irqVars, ctrlReady, wakeVars, passVars, sendVars,
                   bhPending, buffersUsed, faults>>

\* Mutant: the piggyback is put back without completing ctrl_ready.
CompleteForgotten ==
    /\ bhPc = "complete"
    /\ bhPc' = "loop"
    /\ bhReg' = None
    /\ UNCHANGED <<chipVars, irqVars, ctrlVars, wakeVars, count, moved, sendVars,
                   bhPending, buffersUsed, faults>>

Complete ==
    /\ bhPc = "complete"
    /\ ctrlReady' = ctrlReady + 1
    /\ bhPc' = "loop"
    /\ bhReg' = None
    /\ UNCHANGED <<chipVars, irqVars, ctrlReg, wakeVars, count, moved, sendVars,
                   bhPending, buffersUsed, faults>>

\* Mutant: bh_work makes one pass only.
LoopOnce ==
    /\ bhPc = "loop"
    /\ bhPc' = "release"
    /\ moved' = FALSE /\ count' = 0 /\ bhReg' = None
    /\ UNCHANGED <<chipVars, irqVars, ctrlVars, wakeVars, sendVars, bhPending,
                   buffersUsed, faults>>

Loop ==
    /\ bhPc = "loop"
    /\ bhPc' = IF moved THEN "tx" ELSE "release"
    /\ moved' = FALSE /\ count' = 0 /\ bhReg' = None
    /\ UNCHANGED <<chipVars, irqVars, ctrlVars, wakeVars, sendVars, bhPending,
                   buffersUsed, faults>>

-----------------------------------------------------------------------------
(* bh_work: device_release *)

Release ==
    /\ bhPc = "release"
    /\ bhPc' = IF buffersUsed = 0 /\ ~bhPending THEN "lower" ELSE "idle"
    /\ UNCHANGED <<chipVars, irqVars, ctrlVars, wakeVars, passVars, sendVars,
                   bhPending, buffersUsed, faults>>

Lower ==
    /\ bhPc = "lower"
    /\ gpio' = FALSE
    /\ bhPc' = "idle"
    /\ UNCHANGED <<chipVars, irqVars, ctrlVars, retry, missed, passVars,
                   sendVars, bhPending, buffersUsed, faults>>

Bh ==
    \/ Start \/ Raise \/ Woken \/ WakeRetries \/ WakeGivesUp
    \/ TxOne \/ TxEnds \/ RxNext \/ RxXchg \/ Read \/ ReadFails
    \/ RxFull \/ PutBack \/ Complete \/ Loop \/ Release \/ Lower

Next == Chip \/ Irq \/ Request \/ RequestTx \/ Bh

Spec == Init /\ [][Next]_vars

\* The threads that have started go on.  So does the chip with what it has to
\* do, even when its indications fill its queue again and again.  Nothing has
\* to be sent, and the chip need not sleep.
ChipDoes(A) == A /\ Chip

FairSpec ==
    /\ Spec
    /\ SF_vars(ChipDoes(ChipAnswers)) /\ SF_vars(ChipDoes(ChipWakesUp))
    /\ WF_vars(Irq) /\ WF_vars(RequestTx) /\ WF_vars(Bh)

-----------------------------------------------------------------------------
(* Properties *)

One(P) == IF P THEN 1 ELSE 0

\* The places an announcement can be: the interrupt line, the interrupt
\* thread, ctrl_ready, and bh_work.
IrqHolds == irqPc \in {"xchg", "complete"}
BhHolds ==
    \/ bhPc \in {"xchg", "read", "putback", "complete"}
    \/ bhPc = "rx" /\ bhReg # None

Announcements == One(irq) + One(IrqHolds) + ctrlReady + One(BhHolds)

\* An announcement is never lost and never doubled between the interrupt
\* thread and bh_work, which hand it over without a lock: there is one exactly
\* when the chip has a message (wfx_bh_request_rx, bh_work_rx).  After a failed
\* read there may be none.
OneAnnouncement ==
    /\ Announcements <= One(out # <<>>)
    /\ faults = 0 => Announcements = One(out # <<>>)

\* The control word that bh_work uses as a length is that of the first message
\* of the queue, whether it comes from the interrupt thread, the piggyback or
\* the piggyback of the pass before: no message is read with the length of
\* another (bh_work_rx 186-196).
RightLength ==
    bhPc = "read" => /\ out # <<>>
                     /\ bhReg = Head(out) \/ (bhReg = Garbage /\ faults > 0)

\* What bh_work finds in ctrl_reg at the end of a full pass, and the interrupt
\* thread in `prev', is 0: neither overwrites the word of the other ("received
\* IRQ but previous data was not (yet) read", "unexpected IRQ happened").
NothingOverwritten ==
    (bhPc = "putback" \/ irqPc = "xchg") => ctrlReg = None

\* bh_work can not go to sleep on a word it was handed: it is queued, or has
\* not yet looked at ctrl_ready for the last time.
WillLook ==
    ctrlReady > 0 =>
        \/ bhPending \/ irqPc = "queue"
        \/ bhPc \in {"raise", "wait", "tx", "rx"}
        \/ bhPc = "loop" /\ moved

\* bh_work accesses the chip's queues only while it is awake, although the
\* release tests work_pending some steps before it lowers the line, and the
\* chip may miss as many rises as device_wakeup has retries.
AwakeWhenUsed ==
    bhPc \in {"tx", "rx", "xchg", "read", "putback", "complete"}
        => chip = "awake"

\* No message stays in the chip and no request in the driver, whatever the
\* order of interrupts, passes and releases.  A failed read may stop both.
NothingStuck ==
    \/ <>(faults > 0)
    \/ /\ []<>(out = <<>>) \/ []<><<Len(out') < Len(out)>>_out
       /\ []<>(toSend = 0) \/ []<><<toSend' < toSend>>_toSend

\* The chip is released when nothing is left to do: some pass of bh_work sees
\* the last buffer given back with no work pending.
Quiet == out = <<>> /\ inChip = 0 /\ ~edge /\ toSend = 0 /\ kicks = 0
ReleasedWhenQuiet == <>[](Quiet /\ faults = 0) => <>[]~gpio

=============================================================================
