---------------------------- MODULE BhIrqProofs ----------------------------
(***************************************************************************)
(* Theorems about BhIrq, for every size of the batches, of the chip's      *)
(* queues and of the bounds.                                               *)
(***************************************************************************)
EXTENDS BhIrq, FiniteSetTheorems, TLAPS

-----------------------------------------------------------------------------
(* The inductive invariant *)

\* The length used for the next message is that of the first of the queue.
Fits(word) ==
    /\ out # <<>>
    /\ word = Head(out) \/ (word = Garbage /\ faults > 0)

\* Every word that announces a message fits, wherever it is; and ctrl_reg is
\* 0 unless an announcement is in it.
Words ==
    /\ irqPc = "xchg" => Fits(irqReg)
    /\ (\/ irqPc = "complete" \/ ctrlReady > 0
        \/ bhPc \in {"xchg", "complete"}) => Fits(ctrlReg)
    /\ bhPc \in {"rx", "read", "putback"} => bhReg = None \/ Fits(bhReg)
    /\ ctrlReg # None => \/ irqPc = "complete" \/ ctrlReady > 0
                         \/ bhPc \in {"xchg", "complete"}

\* The locals of bh_work where they matter: a word to read or to put back, and
\* a pass that counted messages did move some.
Locals ==
    /\ bhPc \in {"read", "putback"} => bhReg # None
    /\ bhPc \notin {"rx", "read", "putback", "complete"} => bhReg = None
    /\ bhPc \in {"rx", "xchg", "read"} /\ count > 0 => moved
    /\ bhPc \in {"putback", "complete"} => moved
    /\ bhPc \in {"xchg", "read"} => count < Batch

\* A message that nothing announces any more, after a failed read.
Stalled == out # <<>> /\ Announcements = 0

\* The chip is awake while the line is high, except when device_wakeup waits
\* for it, which then has made a rise for nothing for each retry it used.
Wake ==
    /\ out # <<>> => chip = "awake"
    /\ gpio /\ bhPc # "wait" => chip = "awake"
    /\ bhPc = "raise" => ~gpio
    /\ bhPc \notin {"idle", "raise"} => gpio
    /\ bhPc \notin {"raise", "wait"} => retry = MaxRetry
    /\ bhPc = "raise" => missed >= MaxRetry - retry \/ Stalled
    /\ bhPc = "wait" =>
         \/ missed > MaxRetry - retry
         \/ missed = MaxRetry - retry /\ (edge \/ out # <<>>)
         \/ Stalled

Inv ==
    /\ TypeOK /\ Locals /\ Words
    /\ OneAnnouncement /\ WillLook /\ Wake

-----------------------------------------------------------------------------
(* The chip's queue *)

\* A message added to the queue leaves its first one in place, and is
\* announced by the interrupt when the queue was empty.
LEMMA EmitKeepsHead ==
  ASSUME TypeOK, NEW k \in Kinds, Emit(k)
  PROVE  /\ out' \in Seq(Kinds) /\ Len(out') <= MaxOut /\ out' # <<>>
         /\ out # <<>> => Head(out') = Head(out) /\ irq' = irq
         /\ out = <<>> => irq'
         /\ irq' \in BOOLEAN
<1>1. out' = Append(out, k) /\ out \in Seq(Kinds)
  BY DEF TypeOK, Emit
<1>2. Len(out) \in Nat /\ Len(out') = Len(out) + 1 /\ out' \in Seq(Kinds)
  BY <1>1
<1>3. Len(out') <= MaxOut /\ out' # <<>>
  BY <1>1, <1>2, BhAssumption DEF Emit
<1>4. out # <<>> => Head(out') = Head(out)
  BY <1>1
<1>5. irq' = (irq \/ out = <<>>)
  BY DEF Emit
<1>. QED  BY <1>2, <1>3, <1>4, <1>5 DEF TypeOK

\* What the control register shows of a queue: the length of its first message.
LEMMA AnnounceFits ==
  ASSUME NEW q \in Seq(Kinds)
  PROVE  /\ Announce(q) \in Reg /\ Announce(q) # Garbage
         /\ Announce(q) = None <=> q = <<>>
         /\ q # <<>> => Announce(q) = Head(q)
         /\ q # <<>> => Head(q) \in Kinds /\ Tail(q) \in Seq(Kinds)
                        /\ Len(Tail(q)) = Len(q) - 1
<1>1. q # <<>> => Head(q) \in Kinds /\ Tail(q) \in Seq(Kinds)
                  /\ Len(Tail(q)) = Len(q) - 1
  OBVIOUS
<1>. QED  BY <1>1 DEF Announce, Reg, Kinds, None, Garbage

-----------------------------------------------------------------------------
(* Every step keeps the invariant *)

\* The types.
LEMMA TypeNext ==
  ASSUME Inv, [Next]_vars
  PROVE  TypeOK'
<1>. USE BhAssumption
       DEF vars, chipVars, irqVars, ctrlVars, wakeVars, passVars, sendVars, Inv,
           TypeOK, Locals, Reg, None, Garbage
<1>1. CASE Chip
  <2>. /\ "cnf" \in Kinds /\ "ind" \in Kinds /\ "wakeup" \in Kinds
       /\ \A k \in Kinds : Emit(k) =>
            /\ out' \in Seq(Kinds) /\ Len(out') <= MaxOut /\ out' # <<>>
            /\ out # <<>> => Head(out') = Head(out) /\ irq' = irq
            /\ out = <<>> => irq'
            /\ irq' \in BOOLEAN
    BY EmitKeepsHead DEF Kinds
  <2>1. CASE ChipAnswers
    BY <1>1, <2>1 DEF Chip, ChipAnswers
  <2>2. CASE ChipIndicates
    BY <1>1, <2>2 DEF Chip, ChipIndicates
  <2>3. CASE ChipWakesUp
    <3>1. edge' \in BOOLEAN
      BY <2>3 DEF ChipWakesUp
    <3>. QED  BY <1>1, <2>3, <3>1 DEF ChipWakesUp, Chip
  <2>4. CASE ChipSleeps
    BY <1>1, <2>4 DEF Chip, ChipSleeps
  <2>. QED  BY <1>1, <2>1, <2>2, <2>3, <2>4 DEF Chip
<1>2. CASE Irq
  <2>1. CASE IrqReads
    <3>1. irq' \in BOOLEAN
      BY <2>1 DEF IrqReads
    <3>2. irqReg' \in Reg
      BY <2>1, AnnounceFits DEF IrqReads
    <3>. QED  BY <2>1, <3>1, <3>2 DEF IrqReads
  <2>2. CASE IrqXchg
    BY <2>2 DEF IrqXchg
  <2>3. CASE IrqCompletes
    BY <2>3 DEF IrqCompletes
  <2>4. CASE IrqQueues
    BY <2>4 DEF IrqQueues
  <2>. QED  BY <1>2, <2>1, <2>2, <2>3, <2>4 DEF Irq
<1>3. CASE Request
  BY <1>3 DEF Request
<1>4. CASE RequestTx
  BY <1>4 DEF RequestTx
<1>5. CASE Bh
  <2>1. CASE Start
    <3>1. bhPc' \in {"tx", "raise"} /\ bhPending' \in BOOLEAN
      BY <2>1 DEF Start
    <3>. QED  BY <2>1, <3>1 DEF Start
  <2>2. CASE Raise
    <3>1. gpio' \in BOOLEAN /\ edge' \in BOOLEAN
      BY <2>2 DEF Raise
    <3>2. missed' \in 0..MaxMisses
      BY <2>2 DEF Raise
    <3>. QED  BY <2>2, <3>1, <3>2 DEF Raise
  <2>3. CASE Woken
    BY <2>3 DEF Woken
  <2>4. CASE WakeRetries
    <3>1. gpio' \in BOOLEAN
      BY <2>4 DEF WakeRetries
    <3>. QED  BY <2>4, <3>1 DEF WakeRetries, WaitOver, Missed, Answering
  <2>5. CASE WakeGivesUp
    BY <2>5 DEF WakeGivesUp, WaitOver, Missed, Answering
  <2>6. CASE TxOne
    BY <2>6 DEF TxOne, CanSend
  <2>7. CASE TxEnds
    BY <2>7 DEF TxEnds, CanSend
  <2>8. CASE RxNext
    BY <2>8 DEF RxNext
  <2>9. CASE RxXchg
    BY <2>9 DEF RxXchg
  <2>10. CASE Read
    <3>0. /\ out' \in Seq(Kinds) /\ Len(out') = Len(out) - 1
          /\ Len(out) \in Nat
      BY <2>10, AnnounceFits DEF Read
    <3>1. /\ Announce(out') \in Reg /\ Announce(out') # Garbage
          /\ Announce(out') = None <=> out' = <<>>
          /\ out' # <<>> => Announce(out') = Head(out')
      BY <3>0, AnnounceFits
    <3>2. moved' \in BOOLEAN
      BY <2>10 DEF Read
    <3>. QED  BY <2>10, <3>0, <3>1, <3>2 DEF Read
  <2>11. CASE ReadFails
    BY <2>11, AnnounceFits DEF ReadFails
  <2>12. CASE RxFull
    BY <2>12 DEF RxFull
  <2>13. CASE PutBack
    BY <2>13 DEF PutBack
  <2>14. CASE Complete
    BY <2>14 DEF Complete
  <2>15. CASE Loop
    <3>1. moved' \in BOOLEAN
      BY <2>15 DEF Loop
    <3>. QED  BY <2>15, <3>1 DEF Loop
  <2>16. CASE Release
    <3>1. bhPc' \in {"lower", "idle"}
      BY <2>16 DEF Release
    <3>2. UNCHANGED <<chipVars, irqVars, ctrlVars, wakeVars, passVars, sendVars,
                      bhPending, buffersUsed, faults>>
      BY <2>16 DEF Release
    <3>. QED  BY <3>1, <3>2
  <2>17. CASE Lower
    <3>1. gpio' \in BOOLEAN /\ bhPc' = "idle"
      BY <2>17 DEF Lower
    <3>2. UNCHANGED <<chipVars, irqVars, ctrlVars, retry, missed, passVars,
                      sendVars, bhPending, buffersUsed, faults>>
      BY <2>17 DEF Lower
    <3>. QED  BY <3>1, <3>2
  <2>. QED
    BY <1>5, <2>1, <2>2, <2>3, <2>4, <2>5, <2>6, <2>7, <2>8, <2>9, <2>10,
       <2>11, <2>12, <2>13, <2>14, <2>15, <2>16, <2>17 DEF Bh
<1>6. CASE UNCHANGED vars
  BY <1>6
<1>. QED  BY <1>1, <1>2, <1>3, <1>4, <1>5, <1>6 DEF Next

\* The locals of bh_work.
LEMMA LocalsNext ==
  ASSUME Inv, [Next]_vars
  PROVE  Locals'
<1>. USE BhAssumption
       DEF vars, chipVars, irqVars, ctrlVars, wakeVars, passVars, sendVars, Inv,
           TypeOK, Locals, Words, Fits, None, Garbage
<1>1. CASE Chip
  <2>. /\ "cnf" \in Kinds /\ "ind" \in Kinds /\ "wakeup" \in Kinds
       /\ \A k \in Kinds : Emit(k) =>
            /\ out' \in Seq(Kinds) /\ Len(out') <= MaxOut /\ out' # <<>>
            /\ out # <<>> => Head(out') = Head(out) /\ irq' = irq
            /\ out = <<>> => irq'
            /\ irq' \in BOOLEAN
    BY EmitKeepsHead DEF Kinds
  <2>1. CASE ChipAnswers
    BY <1>1, <2>1 DEF Chip, ChipAnswers
  <2>2. CASE ChipIndicates
    BY <1>1, <2>2 DEF Chip, ChipIndicates
  <2>3. CASE ChipWakesUp
    BY <1>1, <2>3 DEF Chip, ChipWakesUp
  <2>4. CASE ChipSleeps
    BY <1>1, <2>4 DEF Chip, ChipSleeps
  <2>. QED  BY <1>1, <2>1, <2>2, <2>3, <2>4 DEF Chip
<1>2. CASE Irq
  <2>1. CASE IrqReads
    BY <2>1, AnnounceFits DEF IrqReads
  <2>2. CASE IrqXchg
    BY <2>2 DEF IrqXchg
  <2>3. CASE IrqCompletes
    BY <2>3 DEF IrqCompletes
  <2>4. CASE IrqQueues
    BY <2>4 DEF IrqQueues
  <2>. QED  BY <1>2, <2>1, <2>2, <2>3, <2>4 DEF Irq
<1>3. CASE Request
  BY <1>3 DEF Request
<1>4. CASE RequestTx
  BY <1>4 DEF RequestTx
<1>5. CASE Bh
  <2>1. CASE Start
    BY <2>1 DEF Start
  <2>2. CASE Raise
    BY <2>2 DEF Raise
  <2>3. CASE Woken
    BY <2>3 DEF Woken
  <2>4. CASE WakeRetries
    BY <2>4 DEF WakeRetries, WaitOver, Missed, Answering
  <2>5. CASE WakeGivesUp
    BY <2>5 DEF WakeGivesUp, WaitOver, Missed, Answering
  <2>6. CASE TxOne
    BY <2>6 DEF TxOne, CanSend
  <2>7. CASE TxEnds
    BY <2>7 DEF TxEnds, CanSend
  <2>8. CASE RxNext
    BY <2>8 DEF RxNext
  <2>9. CASE RxXchg
    BY <2>9 DEF RxXchg
  <2>10. CASE Read
    BY <2>10, AnnounceFits DEF Read
  <2>11. CASE ReadFails
    BY <2>11, AnnounceFits DEF ReadFails
  <2>12. CASE RxFull
    BY <2>12 DEF RxFull
  <2>13. CASE PutBack
    BY <2>13 DEF PutBack
  <2>14. CASE Complete
    BY <2>14 DEF Complete
  <2>15. CASE Loop
    BY <2>15 DEF Loop
  <2>16. CASE Release
    BY <2>16 DEF Release
  <2>17. CASE Lower
    BY <2>17 DEF Lower
  <2>. QED
    BY <1>5, <2>1, <2>2, <2>3, <2>4, <2>5, <2>6, <2>7, <2>8, <2>9, <2>10,
       <2>11, <2>12, <2>13, <2>14, <2>15, <2>16, <2>17 DEF Bh
<1>6. CASE UNCHANGED vars
  BY <1>6
<1>. QED  BY <1>1, <1>2, <1>3, <1>4, <1>5, <1>6 DEF Next

\* One announcement: each step moves it, the chip adds the one of a message to
\* an empty queue, a read consumes it.
LEMMA AnnouncementNext ==
  ASSUME Inv, [Next]_vars
  PROVE  OneAnnouncement'
<1>. USE BhAssumption
       DEF vars, chipVars, irqVars, ctrlVars, wakeVars, passVars, sendVars, Inv,
           TypeOK, Locals, Words, Fits, OneAnnouncement, Announcements, One,
           IrqHolds, BhHolds, None, Garbage
<1>1. CASE Chip
  <2>. /\ "cnf" \in Kinds /\ "ind" \in Kinds /\ "wakeup" \in Kinds
       /\ \A k \in Kinds : Emit(k) =>
            /\ out' \in Seq(Kinds) /\ Len(out') <= MaxOut /\ out' # <<>>
            /\ out # <<>> => Head(out') = Head(out) /\ irq' = irq
            /\ out = <<>> => irq'
            /\ irq' \in BOOLEAN
    BY EmitKeepsHead DEF Kinds
  <2>1. CASE ChipAnswers
    BY <1>1, <2>1 DEF Chip, ChipAnswers
  <2>2. CASE ChipIndicates
    BY <1>1, <2>2 DEF Chip, ChipIndicates
  <2>3. CASE ChipWakesUp
    BY <1>1, <2>3 DEF Chip, ChipWakesUp
  <2>4. CASE ChipSleeps
    BY <1>1, <2>4 DEF Chip, ChipSleeps
  <2>. QED  BY <1>1, <2>1, <2>2, <2>3, <2>4 DEF Chip
<1>2. CASE Irq
  <2>1. CASE IrqReads
    BY <2>1, AnnounceFits DEF IrqReads
  <2>2. CASE IrqXchg
    BY <2>2 DEF IrqXchg
  <2>3. CASE IrqCompletes
    BY <2>3 DEF IrqCompletes
  <2>4. CASE IrqQueues
    BY <2>4 DEF IrqQueues
  <2>. QED  BY <1>2, <2>1, <2>2, <2>3, <2>4 DEF Irq
<1>3. CASE Request
  BY <1>3 DEF Request
<1>4. CASE RequestTx
  BY <1>4 DEF RequestTx
<1>5. CASE Bh
  <2>1. CASE Start
    BY <2>1 DEF Start
  <2>2. CASE Raise
    BY <2>2 DEF Raise
  <2>3. CASE Woken
    BY <2>3 DEF Woken
  <2>4. CASE WakeRetries
    BY <2>4 DEF WakeRetries, WaitOver, Missed, Answering
  <2>5. CASE WakeGivesUp
    BY <2>5 DEF WakeGivesUp, WaitOver, Missed, Answering
  <2>6. CASE TxOne
    BY <2>6 DEF TxOne, CanSend
  <2>7. CASE TxEnds
    BY <2>7 DEF TxEnds, CanSend
  <2>8. CASE RxNext
    BY <2>8 DEF RxNext
  <2>9. CASE RxXchg
    <3>0. out # <<>> => Head(out) # None
      BY AnnounceFits
    <3>1. ctrlReg # None
      BY <2>9, <3>0 DEF RxXchg
    <3>. QED  BY <2>9, <3>1 DEF RxXchg
  <2>10. CASE Read
    <3>0. /\ out' \in Seq(Kinds) /\ Len(out') = Len(out) - 1
          /\ Len(out) \in Nat
      BY <2>10, AnnounceFits DEF Read
    <3>1. /\ Announce(out') \in Reg /\ Announce(out') # Garbage
          /\ Announce(out') = None <=> out' = <<>>
          /\ out' # <<>> => Announce(out') = Head(out')
      BY <3>0, AnnounceFits
    <3>. QED  BY <2>10, <3>0, <3>1 DEF Read
  <2>11. CASE ReadFails
    BY <2>11, AnnounceFits DEF ReadFails
  <2>12. CASE RxFull
    BY <2>12 DEF RxFull
  <2>13. CASE PutBack
    BY <2>13 DEF PutBack
  <2>14. CASE Complete
    BY <2>14 DEF Complete
  <2>15. CASE Loop
    BY <2>15 DEF Loop
  <2>16. CASE Release
    BY <2>16 DEF Release
  <2>17. CASE Lower
    BY <2>17 DEF Lower
  <2>. QED
    BY <1>5, <2>1, <2>2, <2>3, <2>4, <2>5, <2>6, <2>7, <2>8, <2>9, <2>10,
       <2>11, <2>12, <2>13, <2>14, <2>15, <2>16, <2>17 DEF Bh
<1>6. CASE UNCHANGED vars
  BY <1>6
<1>. QED  BY <1>1, <1>2, <1>3, <1>4, <1>5, <1>6 DEF Next

\* The words fit: with one announcement at a time, no step changes the first
\* message under one.
LEMMA WordsNext ==
  ASSUME Inv, [Next]_vars
  PROVE  Words'
<1>. USE BhAssumption
       DEF vars, chipVars, irqVars, ctrlVars, wakeVars, passVars, sendVars, Inv,
           TypeOK, Locals, Words, Fits, OneAnnouncement, Announcements, One,
           IrqHolds, BhHolds, None, Garbage
<1>1. CASE Chip
  <2>. /\ "cnf" \in Kinds /\ "ind" \in Kinds /\ "wakeup" \in Kinds
       /\ \A k \in Kinds : Emit(k) =>
            /\ out' \in Seq(Kinds) /\ Len(out') <= MaxOut /\ out' # <<>>
            /\ out # <<>> => Head(out') = Head(out) /\ irq' = irq
            /\ out = <<>> => irq'
            /\ irq' \in BOOLEAN
    BY EmitKeepsHead DEF Kinds
  <2>1. CASE ChipAnswers
    BY <1>1, <2>1 DEF Chip, ChipAnswers
  <2>2. CASE ChipIndicates
    BY <1>1, <2>2 DEF Chip, ChipIndicates
  <2>3. CASE ChipWakesUp
    BY <1>1, <2>3 DEF Chip, ChipWakesUp
  <2>4. CASE ChipSleeps
    BY <1>1, <2>4 DEF Chip, ChipSleeps
  <2>. QED  BY <1>1, <2>1, <2>2, <2>3, <2>4 DEF Chip
<1>2. CASE Irq
  <2>1. CASE IrqReads
    BY <2>1, AnnounceFits DEF IrqReads
  <2>2. CASE IrqXchg
    BY <2>2 DEF IrqXchg
  <2>3. CASE IrqCompletes
    BY <2>3 DEF IrqCompletes
  <2>4. CASE IrqQueues
    BY <2>4 DEF IrqQueues
  <2>. QED  BY <1>2, <2>1, <2>2, <2>3, <2>4 DEF Irq
<1>3. CASE Request
  BY <1>3 DEF Request
<1>4. CASE RequestTx
  BY <1>4 DEF RequestTx
<1>5. CASE Bh
  <2>1. CASE Start
    BY <2>1 DEF Start
  <2>2. CASE Raise
    BY <2>2 DEF Raise
  <2>3. CASE Woken
    BY <2>3 DEF Woken
  <2>4. CASE WakeRetries
    BY <2>4 DEF WakeRetries, WaitOver, Missed, Answering
  <2>5. CASE WakeGivesUp
    BY <2>5 DEF WakeGivesUp, WaitOver, Missed, Answering
  <2>6. CASE TxOne
    BY <2>6 DEF TxOne, CanSend
  <2>7. CASE TxEnds
    BY <2>7 DEF TxEnds, CanSend
  <2>8. CASE RxNext
    BY <2>8 DEF RxNext
  <2>9. CASE RxXchg
    BY <2>9 DEF RxXchg
  <2>10. CASE Read
    <3>0. /\ out' \in Seq(Kinds) /\ Len(out') = Len(out) - 1
          /\ Len(out) \in Nat
      BY <2>10, AnnounceFits DEF Read
    <3>1. /\ Announce(out') \in Reg /\ Announce(out') # Garbage
          /\ Announce(out') = None <=> out' = <<>>
          /\ out' # <<>> => Announce(out') = Head(out')
      BY <3>0, AnnounceFits
    <3>. QED  BY <2>10, <3>0, <3>1 DEF Read
  <2>11. CASE ReadFails
    BY <2>11, AnnounceFits DEF ReadFails
  <2>12. CASE RxFull
    BY <2>12 DEF RxFull
  <2>13. CASE PutBack
    BY <2>13 DEF PutBack
  <2>14. CASE Complete
    BY <2>14 DEF Complete
  <2>15. CASE Loop
    BY <2>15 DEF Loop
  <2>16. CASE Release
    BY <2>16 DEF Release
  <2>17. CASE Lower
    BY <2>17 DEF Lower
  <2>. QED
    BY <1>5, <2>1, <2>2, <2>3, <2>4, <2>5, <2>6, <2>7, <2>8, <2>9, <2>10,
       <2>11, <2>12, <2>13, <2>14, <2>15, <2>16, <2>17 DEF Bh
<1>6. CASE UNCHANGED vars
  BY <1>6
<1>. QED  BY <1>1, <1>2, <1>3, <1>4, <1>5, <1>6 DEF Next

\* bh_work is queued, or looks again.
LEMMA WillLookNext ==
  ASSUME Inv, [Next]_vars
  PROVE  WillLook'
<1>. USE BhAssumption
       DEF vars, chipVars, irqVars, ctrlVars, wakeVars, passVars, sendVars, Inv,
           TypeOK, Locals, WillLook, OneAnnouncement, Announcements, One,
           IrqHolds, BhHolds, None
<1>1. CASE Chip
  <2>. /\ "cnf" \in Kinds /\ "ind" \in Kinds /\ "wakeup" \in Kinds
       /\ \A k \in Kinds : Emit(k) =>
            /\ out' \in Seq(Kinds) /\ Len(out') <= MaxOut /\ out' # <<>>
            /\ out # <<>> => Head(out') = Head(out) /\ irq' = irq
            /\ out = <<>> => irq'
            /\ irq' \in BOOLEAN
    BY EmitKeepsHead DEF Kinds
  <2>1. CASE ChipAnswers
    BY <1>1, <2>1 DEF Chip, ChipAnswers
  <2>2. CASE ChipIndicates
    BY <1>1, <2>2 DEF Chip, ChipIndicates
  <2>3. CASE ChipWakesUp
    BY <1>1, <2>3 DEF Chip, ChipWakesUp
  <2>4. CASE ChipSleeps
    BY <1>1, <2>4 DEF Chip, ChipSleeps
  <2>. QED  BY <1>1, <2>1, <2>2, <2>3, <2>4 DEF Chip
<1>2. CASE Irq
  <2>1. CASE IrqReads
    BY <2>1, AnnounceFits DEF IrqReads
  <2>2. CASE IrqXchg
    BY <2>2 DEF IrqXchg
  <2>3. CASE IrqCompletes
    BY <2>3 DEF IrqCompletes
  <2>4. CASE IrqQueues
    BY <2>4 DEF IrqQueues
  <2>. QED  BY <1>2, <2>1, <2>2, <2>3, <2>4 DEF Irq
<1>3. CASE Request
  BY <1>3 DEF Request
<1>4. CASE RequestTx
  BY <1>4 DEF RequestTx
<1>5. CASE Bh
  <2>1. CASE Start
    BY <2>1 DEF Start
  <2>2. CASE Raise
    BY <2>2 DEF Raise
  <2>3. CASE Woken
    BY <2>3 DEF Woken
  <2>4. CASE WakeRetries
    BY <2>4 DEF WakeRetries, WaitOver, Missed, Answering
  <2>5. CASE WakeGivesUp
    BY <2>5 DEF WakeGivesUp, WaitOver, Missed, Answering
  <2>6. CASE TxOne
    BY <2>6 DEF TxOne, CanSend
  <2>7. CASE TxEnds
    BY <2>7 DEF TxEnds, CanSend
  <2>8. CASE RxNext
    BY <2>8 DEF RxNext
  <2>9. CASE RxXchg
    BY <2>9 DEF RxXchg
  <2>10. CASE Read
    BY <2>10, AnnounceFits DEF Read
  <2>11. CASE ReadFails
    BY <2>11, AnnounceFits DEF ReadFails
  <2>12. CASE RxFull
    BY <2>12 DEF RxFull
  <2>13. CASE PutBack
    BY <2>13 DEF PutBack
  <2>14. CASE Complete
    BY <2>14 DEF Complete
  <2>15. CASE Loop
    BY <2>15 DEF Loop
  <2>16. CASE Release
    BY <2>16 DEF Release
  <2>17. CASE Lower
    BY <2>17 DEF Lower
  <2>. QED
    BY <1>5, <2>1, <2>2, <2>3, <2>4, <2>5, <2>6, <2>7, <2>8, <2>9, <2>10,
       <2>11, <2>12, <2>13, <2>14, <2>15, <2>16, <2>17 DEF Bh
<1>6. CASE UNCHANGED vars
  BY <1>6
<1>. QED  BY <1>1, <1>2, <1>3, <1>4, <1>5, <1>6 DEF Next

\* The chip is awake when bh_work needs it.
LEMMA WakeNext ==
  ASSUME Inv, [Next]_vars
  PROVE  Wake'
<1>. USE BhAssumption
       DEF vars, chipVars, irqVars, ctrlVars, wakeVars, passVars, sendVars, Inv,
           TypeOK, Locals, Words, Fits, Wake, Stalled, OneAnnouncement,
           Announcements, One, IrqHolds, BhHolds, None, Garbage
<1>1. CASE Chip
  <2>. /\ "cnf" \in Kinds /\ "ind" \in Kinds /\ "wakeup" \in Kinds
       /\ \A k \in Kinds : Emit(k) =>
            /\ out' \in Seq(Kinds) /\ Len(out') <= MaxOut /\ out' # <<>>
            /\ out # <<>> => Head(out') = Head(out) /\ irq' = irq
            /\ out = <<>> => irq'
            /\ irq' \in BOOLEAN
    BY EmitKeepsHead DEF Kinds
  <2>1. CASE ChipAnswers
    BY <1>1, <2>1 DEF Chip, ChipAnswers
  <2>2. CASE ChipIndicates
    BY <1>1, <2>2 DEF Chip, ChipIndicates
  <2>3. CASE ChipWakesUp
    BY <1>1, <2>3 DEF Chip, ChipWakesUp
  <2>4. CASE ChipSleeps
    BY <1>1, <2>4 DEF Chip, ChipSleeps
  <2>. QED  BY <1>1, <2>1, <2>2, <2>3, <2>4 DEF Chip
<1>2. CASE Irq
  <2>1. CASE IrqReads
    BY <2>1, AnnounceFits DEF IrqReads
  <2>2. CASE IrqXchg
    BY <2>2 DEF IrqXchg
  <2>3. CASE IrqCompletes
    BY <2>3 DEF IrqCompletes
  <2>4. CASE IrqQueues
    BY <2>4 DEF IrqQueues
  <2>. QED  BY <1>2, <2>1, <2>2, <2>3, <2>4 DEF Irq
<1>3. CASE Request
  BY <1>3 DEF Request
<1>4. CASE RequestTx
  BY <1>4 DEF RequestTx
<1>5. CASE Bh
  <2>1. CASE Start
    BY <2>1 DEF Start
  <2>2. CASE Raise
    BY <2>2 DEF Raise
  <2>3. CASE Woken
    BY <2>3 DEF Woken
  <2>4. CASE WakeRetries
    BY <2>4 DEF WakeRetries, WaitOver, Missed, Answering
  <2>5. CASE WakeGivesUp
    BY <2>5 DEF WakeGivesUp, WaitOver, Missed, Answering
  <2>6. CASE TxOne
    BY <2>6 DEF TxOne, CanSend
  <2>7. CASE TxEnds
    BY <2>7 DEF TxEnds, CanSend
  <2>8. CASE RxNext
    BY <2>8 DEF RxNext
  <2>9. CASE RxXchg
    BY <2>9 DEF RxXchg
  <2>10. CASE Read
    BY <2>10, AnnounceFits DEF Read
  <2>11. CASE ReadFails
    BY <2>11, AnnounceFits DEF ReadFails
  <2>12. CASE RxFull
    BY <2>12 DEF RxFull
  <2>13. CASE PutBack
    BY <2>13 DEF PutBack
  <2>14. CASE Complete
    BY <2>14 DEF Complete
  <2>15. CASE Loop
    BY <2>15 DEF Loop
  <2>16. CASE Release
    BY <2>16 DEF Release
  <2>17. CASE Lower
    BY <2>17 DEF Lower
  <2>. QED
    BY <1>5, <2>1, <2>2, <2>3, <2>4, <2>5, <2>6, <2>7, <2>8, <2>9, <2>10,
       <2>11, <2>12, <2>13, <2>14, <2>15, <2>16, <2>17 DEF Bh
<1>6. CASE UNCHANGED vars
  BY <1>6
<1>. QED  BY <1>1, <1>2, <1>3, <1>4, <1>5, <1>6 DEF Next

-----------------------------------------------------------------------------
(* Theorems *)

\* The invariant holds in every reachable state.
THEOREM Invariance == Spec => []Inv
<1>1. Init => Inv
  <2>. SUFFICES ASSUME Init  PROVE Inv
    OBVIOUS
  <2>1. TypeOK
    <3>1. out \in Seq(Kinds) /\ Len(out) <= MaxOut
      BY BhAssumption DEF Init
    <3>2. /\ toSend \in 0..MaxSends /\ kicks \in 0..MaxSends
          /\ count \in 0..Batch /\ retry \in 0..MaxRetry
          /\ missed \in 0..MaxMisses /\ faults \in 0..MaxFaults
      BY BhAssumption DEF Init
    <3>3. irq \in BOOLEAN /\ edge \in BOOLEAN /\ gpio \in BOOLEAN
          /\ bhPending \in BOOLEAN /\ moved \in BOOLEAN
      BY DEF Init
    <3>. QED  BY <3>1, <3>2, <3>3 DEF Init, TypeOK, Reg
  <2>2. Locals /\ Words /\ WillLook /\ Wake
    BY BhAssumption DEF Init, Locals, Words, Fits, WillLook, Wake
  <2>3. OneAnnouncement
    BY DEF Init, OneAnnouncement, Announcements, One, IrqHolds, BhHolds
  <2>. QED  BY <2>1, <2>2, <2>3 DEF Inv
<1>2. Inv /\ [Next]_vars => Inv'
  <2>. SUFFICES ASSUME Inv, [Next]_vars  PROVE Inv'
    OBVIOUS
  <2>1. TypeOK' /\ Locals' /\ Words'
    BY TypeNext, LocalsNext, WordsNext
  <2>2. OneAnnouncement' /\ WillLook' /\ Wake'
    BY AnnouncementNext, WillLookNext, WakeNext
  <2>. QED  BY <2>1, <2>2 DEF Inv
<1>. QED  BY <1>1, <1>2, PTL DEF Spec

\* Every variable keeps its type (the state of wfx_hif and of bh_work).
THEOREM TypeCorrect == Spec => []TypeOK
<1>1. Inv => TypeOK
  BY DEF Inv
<1>. QED  BY <1>1, Invariance, PTL

\* Between the interrupt thread, the piggyback and the passes of bh_work, no
\* announcement of a message is lost or doubled.
THEOREM AnnouncedOnce == Spec => []OneAnnouncement
<1>1. Inv => OneAnnouncement
  BY DEF Inv
<1>. QED  BY <1>1, Invariance, PTL

\* No message is read with the length of another.
THEOREM ReadAtItsLength == Spec => []RightLength
<1>1. Inv => RightLength
  BY DEF Inv, Locals, Words, Fits, RightLength
<1>. QED  BY <1>1, Invariance, PTL

\* Neither side overwrites a control word the other has not taken.
THEOREM NoOverwrite == Spec => []NothingOverwritten
<1>1. Inv => NothingOverwritten
  BY DEF Inv, TypeOK, Words, OneAnnouncement, Announcements, One, IrqHolds,
         BhHolds, NothingOverwritten
<1>. QED  BY <1>1, Invariance, PTL

\* A word that was handed over is looked at: bh_work is queued or on its way.
THEOREM NoLostWork == Spec => []WillLook
<1>1. Inv => WillLook
  BY DEF Inv
<1>. QED  BY <1>1, Invariance, PTL

\* The chip is awake whenever bh_work accesses its queues, as long as it
\* misses no more rises of the line than device_wakeup has retries.
THEOREM NeverUsedAsleep == Spec => []AwakeWhenUsed
<1>1. Inv => AwakeWhenUsed
  BY DEF Inv, Wake, AwakeWhenUsed
<1>. QED  BY <1>1, Invariance, PTL

-----------------------------------------------------------------------------
(* Nothing is forgotten *)

\* A pass begins with no message counted, and one that counted some moved them.
Passes ==
    /\ bhPc \in {"idle", "raise", "wait", "release", "lower"} => count = 0
    /\ bhPc = "tx" /\ count > 0 => moved

\* For a request that waits, its thread will queue bh_work, which is queued or
\* has not yet looked at the requests for the last time, unless the chip has
\* no free buffer.
WillSend ==
    toSend > 0 =>
        \/ kicks > 0 \/ bhPending
        \/ bhPc \in {"raise", "wait", "tx"}
        \/ bhPc \notin {"idle", "release", "lower"} /\ moved
        \/ buffersUsed >= NumBufs

\* The confirmations in a queue of the chip.
Cnf(q) == {i \in 1 .. Len(q) : q[i] = "cnf"}
Cnfs == Cardinality(Cnf(out))

\* The buffers in use are those of the requests the chip handles and of the
\* confirmations it has ready; a failed read may lose one of these.
Credits ==
    /\ buffersUsed >= inChip + Cnfs
    /\ faults = 0 => buffersUsed = inChip + Cnfs

\* No thread, work item or interrupt has anything to do, and the chip handles
\* no request.
Idle ==
    /\ kicks = 0 /\ ~bhPending /\ bhPc = "idle"
    /\ irqPc = "idle" /\ ~irq /\ inChip = 0

DoneWhenIdle == Idle /\ faults = 0 => out = <<>> /\ toSend = 0

LEMMA CnfFinite ==
  ASSUME NEW q \in Seq(Kinds)
  PROVE  IsFiniteSet(Cnf(q)) /\ Cardinality(Cnf(q)) \in Nat
<1>1. IsFiniteSet(1 .. Len(q))
  BY FS_Interval
<1>2. IsFiniteSet(Cnf(q))
  BY <1>1, FS_Subset DEF Cnf
<1>. QED  BY <1>2, FS_CardinalityType

LEMMA CnfAppended ==
  ASSUME NEW q \in Seq(Kinds), NEW k \in Kinds
  PROVE  Cardinality(Cnf(Append(q, k))) = Cardinality(Cnf(q)) + One(k = "cnf")
<1>1. CASE k = "cnf"
  <2>1. Cnf(Append(q, k)) = Cnf(q) \cup {Len(q) + 1} /\ Len(q) + 1 \notin Cnf(q)
    BY <1>1 DEF Cnf
  <2>. QED  BY <1>1, <2>1, CnfFinite, FS_AddElement DEF One
<1>2. CASE k # "cnf"
  <2>1. Cnf(Append(q, k)) = Cnf(q)
    BY <1>2 DEF Cnf
  <2>. QED  BY <1>2, <2>1, CnfFinite DEF One
<1>. QED  BY <1>1, <1>2

LEMMA CnfTaken ==
  ASSUME NEW q \in Seq(Kinds), q # <<>>
  PROVE  Cardinality(Cnf(Tail(q))) = Cardinality(Cnf(q)) - One(Head(q) = "cnf")
<1>. DEFINE R == Cnf(q) \ {1}
            T == Cnf(Tail(q))
            f == [i \in T |-> i + 1]
<1>1. IsFiniteSet(Cnf(q)) /\ IsFiniteSet(T) /\ Cardinality(Cnf(q)) \in Nat
  <2>1. Tail(q) \in Seq(Kinds)
    OBVIOUS
  <2>. QED  BY <2>1, CnfFinite
<1>2. \A i \in T : i \in Nat /\ i + 1 \in R
  BY DEF Cnf
<1>3. ASSUME NEW j \in R
      PROVE  j - 1 \in T /\ f[j - 1] = j
  <2>1. j \in 2 .. Len(q) /\ q[j] = "cnf"
    BY DEF Cnf
  <2>2. j - 1 \in 1 .. Len(Tail(q)) /\ Tail(q)[j - 1] = q[j]
    BY <2>1
  <2>3. j - 1 \in T
    BY <2>1, <2>2 DEF Cnf
  <2>. QED  BY <2>1, <2>3
<1>4. f \in Bijection(T, R)
  <2>1. f \in [T -> R] /\ \A i, j \in T : f[i] = f[j] => i = j
    BY <1>2
  <2>2. \A j \in R : \E i \in T : f[i] = j
    BY <1>3
  <2>. HIDE DEF f, R, T
  <2>. QED  BY <2>1, <2>2 DEF Bijection, Injection, Surjection, IsInjective
<1>5. Cardinality(R) = Cardinality(T)
  <2>. HIDE DEF f, R, T
  <2>1. ExistsBijection(T, R)
    BY <1>4 DEF ExistsBijection
  <2>. QED  BY <1>1, <2>1, FS_Bijection
<1>6. Cardinality(R) = IF 1 \in Cnf(q) THEN Cardinality(Cnf(q)) - 1
                                       ELSE Cardinality(Cnf(q))
  BY <1>1, FS_RemoveElement
<1>7. 1 \in Cnf(q) <=> Head(q) = "cnf"
  BY DEF Cnf
<1>. QED  BY <1>1, <1>5, <1>6, <1>7 DEF One

\* A request that waits is never forgotten.
LEMMA SendersNext ==
  ASSUME Inv, Passes, WillSend, [Next]_vars
  PROVE  Passes' /\ WillSend'
<1>. USE BhAssumption
       DEF vars, chipVars, irqVars, ctrlVars, wakeVars, passVars, sendVars, Inv,
           TypeOK, Locals, Passes, WillSend
<1>1. CASE Chip
  <2>. /\ "cnf" \in Kinds /\ "ind" \in Kinds /\ "wakeup" \in Kinds
       /\ \A k \in Kinds : Emit(k) =>
            /\ out' \in Seq(Kinds) /\ Len(out') <= MaxOut /\ out' # <<>>
            /\ out # <<>> => Head(out') = Head(out) /\ irq' = irq
            /\ out = <<>> => irq'
            /\ irq' \in BOOLEAN
    BY EmitKeepsHead DEF Kinds
  <2>1. CASE ChipAnswers
    BY <1>1, <2>1 DEF Chip, ChipAnswers
  <2>2. CASE ChipIndicates
    BY <1>1, <2>2 DEF Chip, ChipIndicates
  <2>3. CASE ChipWakesUp
    BY <1>1, <2>3 DEF Chip, ChipWakesUp
  <2>4. CASE ChipSleeps
    BY <1>1, <2>4 DEF Chip, ChipSleeps
  <2>. QED  BY <1>1, <2>1, <2>2, <2>3, <2>4 DEF Chip
<1>2. CASE Irq
  <2>1. CASE IrqReads
    BY <2>1, AnnounceFits DEF IrqReads
  <2>2. CASE IrqXchg
    BY <2>2 DEF IrqXchg
  <2>3. CASE IrqCompletes
    BY <2>3 DEF IrqCompletes
  <2>4. CASE IrqQueues
    BY <2>4 DEF IrqQueues
  <2>. QED  BY <1>2, <2>1, <2>2, <2>3, <2>4 DEF Irq
<1>3. CASE Request
  BY <1>3 DEF Request
<1>4. CASE RequestTx
  BY <1>4 DEF RequestTx
<1>5. CASE Bh
  <2>1. CASE Start
    BY <2>1 DEF Start
  <2>2. CASE Raise
    BY <2>2 DEF Raise
  <2>3. CASE Woken
    BY <2>3 DEF Woken
  <2>4. CASE WakeRetries
    BY <2>4 DEF WakeRetries, WaitOver, Missed, Answering
  <2>5. CASE WakeGivesUp
    BY <2>5 DEF WakeGivesUp, WaitOver, Missed, Answering
  <2>6. CASE TxOne
    BY <2>6 DEF TxOne, CanSend
  <2>7. CASE TxEnds
    BY <2>7 DEF TxEnds, CanSend
  <2>8. CASE RxNext
    BY <2>8 DEF RxNext
  <2>9. CASE RxXchg
    BY <2>9 DEF RxXchg
  <2>10. CASE Read
    BY <2>10, AnnounceFits DEF Read
  <2>11. CASE ReadFails
    BY <2>11, AnnounceFits DEF ReadFails
  <2>12. CASE RxFull
    BY <2>12 DEF RxFull
  <2>13. CASE PutBack
    BY <2>13 DEF PutBack
  <2>14. CASE Complete
    BY <2>14 DEF Complete
  <2>15. CASE Loop
    BY <2>15 DEF Loop
  <2>16. CASE Release
    BY <2>16 DEF Release
  <2>17. CASE Lower
    BY <2>17 DEF Lower
  <2>. QED
    BY <1>5, <2>1, <2>2, <2>3, <2>4, <2>5, <2>6, <2>7, <2>8, <2>9, <2>10,
       <2>11, <2>12, <2>13, <2>14, <2>15, <2>16, <2>17 DEF Bh
<1>6. CASE UNCHANGED vars
  BY <1>6
<1>. QED  BY <1>1, <1>2, <1>3, <1>4, <1>5, <1>6 DEF Next

\* Only an answer adds a confirmation, and only a read takes one.
LEMMA CreditsNext ==
  ASSUME Inv, Credits, [Next]_vars
  PROVE  Credits'
<1>. USE DEF Inv, vars, chipVars
<1>0. /\ out \in Seq(Kinds) /\ buffersUsed \in Int /\ inChip \in Nat
      /\ faults \in Nat /\ Cnfs \in Nat
  BY CnfFinite DEF TypeOK, Cnfs
<1>1. CASE out' = out
  <2>1. Cnfs' = Cnfs
    BY <1>1 DEF Cnfs
  <2>2. /\ \/ buffersUsed' = buffersUsed /\ inChip' = inChip
           \/ buffersUsed' = buffersUsed + 1 /\ inChip' = inChip + 1
        /\ faults' = 0 => faults = 0
    <3>1. CASE TxOne
      BY <3>1 DEF TxOne
    <3>2. CASE ~TxOne
      <4>1. ~Read /\ ~ChipAnswers /\ ~ChipIndicates /\ ~ChipWakesUp
        <5>1. Len(out) \in Nat
          BY <1>0
        <5>2. \A k \in Kinds : Append(out, k) # out
          BY <1>0, <5>1
        <5>3. out # <<>> => Tail(out) # out
          BY <1>0, <5>1
        <5>. QED  BY <1>1, <5>2, <5>3
                  DEF Read, ChipAnswers, ChipIndicates, ChipWakesUp, Emit, Kinds
      <4>2. buffersUsed' = buffersUsed /\ inChip' = inChip
        BY <3>2, <4>1 DEF Next, Chip, ChipSleeps, Irq, IrqReads, IrqXchg,
           IrqCompletes, IrqQueues, Request, RequestTx, Bh, Start, Raise, Woken,
           WakeRetries, WakeGivesUp, TxEnds, RxNext, RxXchg, ReadFails, RxFull,
           PutBack, Complete, Loop, Release, Lower
      <4>3. faults' = faults \/ faults' = faults + 1
        BY <3>2, <4>1 DEF Next, Chip, Irq, IrqReads, IrqXchg,
           IrqCompletes, IrqQueues, Request, RequestTx, Bh, Start, Raise, Woken,
           WakeRetries, WakeGivesUp, TxEnds, RxNext, RxXchg, ReadFails, RxFull,
           PutBack, Complete, Loop, Release, Lower
      <4>. QED  BY <1>0, <4>2, <4>3
    <3>. QED  BY <3>1, <3>2
  <2>3. CASE buffersUsed' = buffersUsed /\ inChip' = inChip
    BY <2>1, <2>2, <2>3 DEF Credits
  <2>4. CASE buffersUsed' = buffersUsed + 1 /\ inChip' = inChip + 1
    BY <1>0, <2>1, <2>2, <2>4 DEF Credits
  <2>. QED  BY <2>2, <2>3, <2>4
<1>2. CASE out' # out
  <2>1. Chip \/ Read \/ ReadFails
    BY <1>2 DEF Next, Irq, IrqReads, IrqXchg,
       IrqCompletes, IrqQueues, Request, RequestTx, Bh, Start, Raise, Woken,
       WakeRetries, WakeGivesUp, TxOne, TxEnds, RxNext, RxXchg, RxFull,
       PutBack, Complete, Loop, Release, Lower
  <2>2. CASE Chip
    <3>1. PICK k \in Kinds : /\ out' = Append(out, k)
                             /\ inChip' = inChip - One(k = "cnf")
                             /\ k = "cnf" => inChip > 0
      BY <1>0, <1>2, <2>2
         DEF Chip, ChipAnswers, ChipIndicates, ChipWakesUp, ChipSleeps, Emit,
             Kinds, One
    <3>2. Cnfs' = Cnfs + One(k = "cnf")
      BY <1>0, <3>1, CnfAppended DEF Cnfs
    <3>3. buffersUsed' = buffersUsed /\ faults' = faults
      BY <2>2 DEF Chip
    <3>. QED  BY <1>0, <3>1, <3>2, <3>3 DEF Credits, One
  <2>3. CASE Read
    <3>1. /\ out # <<>> /\ out' = Tail(out)
          /\ buffersUsed' = buffersUsed - One(Head(out) = "cnf")
          /\ inChip' = inChip /\ faults' = faults
      BY <1>0, <2>3 DEF Read, One
    <3>2. Cnfs' = Cnfs - One(Head(out) = "cnf")
      BY <1>0, <3>1, CnfTaken DEF Cnfs
    <3>. QED  BY <1>0, <3>1, <3>2 DEF Credits, One
  <2>4. CASE ReadFails
    <3>1. /\ out # <<>> /\ out' = Tail(out)
          /\ buffersUsed' = buffersUsed /\ inChip' = inChip
      BY <1>2, <2>4 DEF ReadFails
    <3>2. Cnfs' = Cnfs - One(Head(out) = "cnf")
      BY <1>0, <3>1, CnfTaken DEF Cnfs
    <3>3. faults' > 0
      BY <1>0, <2>4, <3>1 DEF ReadFails, Locals, Words, Fits, Announce
    <3>. QED  BY <1>0, <3>1, <3>2, <3>3 DEF Credits, One
  <2>. QED  BY <2>1, <2>2, <2>3, <2>4
<1>. QED  BY <1>1, <1>2

\* The bottom half forgets nothing: when no thread is about to queue bh_work,
\* it is not queued and does not run, no interrupt is raised or handled and the
\* chip handles no request, then the chip has no message for the driver and the
\* driver no request for the chip (unless a read failed).
THEOREM NothingForgotten == Spec => []DoneWhenIdle
<1>. DEFINE All == Inv /\ Passes /\ WillSend /\ Credits
<1>1. Inv /\ Init => All
  <2>. SUFFICES ASSUME Inv, Init  PROVE Passes /\ WillSend /\ Credits
    OBVIOUS
  <2>1. Cnf(out) = {}
    BY DEF Init, Cnf
  <2>2. Cnfs = 0
    BY <2>1, FS_EmptySet DEF Cnfs
  <2>. QED  BY <2>2, BhAssumption DEF Init, Passes, WillSend, Credits
<1>2. All /\ Inv' /\ [Next]_vars => All'
  BY SendersNext, CreditsNext
<1>3. All => DoneWhenIdle
  <2>. SUFFICES ASSUME All, Idle, faults = 0  PROVE out = <<>> /\ toSend = 0
    BY DEF DoneWhenIdle
  <2>1. ctrlReady = 0
    BY DEF Inv, TypeOK, WillLook, Idle
  <2>2. Announcements = 0
    BY <2>1 DEF Announcements, One, IrqHolds, BhHolds, Idle
  <2>3. out = <<>>
    BY <2>2 DEF Inv, OneAnnouncement, One
  <2>4. Cnfs = 0
    BY <2>3, FS_EmptySet DEF Cnfs, Cnf
  <2>5. buffersUsed = 0
    BY <2>4 DEF Credits, Idle
  <2>. QED  BY <2>3, <2>5, BhAssumption DEF Inv, TypeOK, WillSend, Idle
<1>. HIDE DEF All
<1>. QED  BY <1>1, <1>2, <1>3, Invariance, PTL DEF Spec
=============================================================================
