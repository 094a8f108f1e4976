---------------------------- MODULE HifCmdProofs ----------------------------
(***************************************************************************)
(* Theorems about HifCmd, for any number of threads, commands, buffers and *)
(* data frames: first those that hold for any timing of the chip and any   *)
(* number of bus errors, then those about a chip that does not answer after*)
(* a timeout, over a bus that works, up to the refinement of CommandChannel*)
(***************************************************************************)
EXTENDS HifCmd, FiniteSetTheorems, TLAPS

-----------------------------------------------------------------------------
(* The inductive invariant *)

\* The places where a thread owns hif_cmd.lock.
LockPcs == {"publish", "kick", "sleep", "wait", "waitMore", "giveUp",
            "collect", "release", "flWait", "flRelease"}

\* hif_cmd.lock is owned exactly by the thread that is at such a place.
LockOwned == \A p \in Procs : pc[p] \in LockPcs <=> lock = p

\* A thread inside wfx_cmd_send carries a request it made itself.
RequestMade ==
    \A p \in Procs : pc[p] \in CmdPcs => req[p] \in Requests /\ req[p].by = p

\* The bottom half has a message in hand when it sends or confirms.
MessageInHand ==
    /\ bhPc = "send" => bhMsg \in Requests \cup {Frame}
    /\ bhPc = "confirm" => bhMsg \in Requests

\* What CreditsExact rests on: a message is either at the chip or confirmed,
\* and the bottom half only sends when there is a free buffer.
CreditsReserved ==
    /\ IsFiniteSet(chipCmd) /\ IsFiniteSet(cnfCmd)
    /\ chipCmd \cap cnfCmd = {}
    /\ bhPc = "send" => txUsed < NumBufs

CommandInv == TypeOK /\ MessageInHand
LockInv    == LockOwned /\ RequestMade /\ BufSendProtected
CreditInv  == CreditsReserved /\ CreditsExact

\* Every step keeps the types.
LEMMA CommandNext ==
  ASSUME CommandInv, [Next]_vars
  PROVE  CommandInv'
<1>. USE ConstantsAssumption, SentinelsAssumption
       DEF vars, threadVars, lockVars, cmdVars, bhVars, chipVars, freezeVars,
       busVars,
       CommandInv, TypeOK, MessageInHand, Returns, CmdPcs, FlushPcs, RenewPcs
<1>1. CASE \E p \in Procs : Thread(p)
  <2>. PICK p \in Procs : Thread(p)  BY <1>1
  <2>1. CASE \E id \in Ids \cup {ShutDown} : Call(p, id)
    BY <2>1 DEF Call, Goto, At, AllIds, Requests
  <2>2. CASE CallFlush(p)
    BY <2>2 DEF CallFlush, Goto, At
  <2>3. CASE CallRenew(p)
    BY <2>3 DEF CallRenew, Goto, At
  <2>4. CASE Check(p)
    BY <2>4 DEF Check, Goto, At
  <2>5. CASE TakeRenewLock(p)
    BY <2>5 DEF TakeRenewLock, Goto, At
  <2>6. CASE TakeLock(p)
    BY <2>6 DEF TakeLock, Goto, At
  <2>7. CASE Publish(p)
    BY <2>7 DEF Publish, Goto, At
  <2>8. CASE Kick(p)
    BY <2>8 DEF Kick, Goto, At
  <2>9. CASE Slept(p)
    BY <2>9 DEF Slept, Goto, At
  <2>10. CASE Answered(p)
    BY <2>10 DEF Answered, Goto, At
  <2>11. CASE FirstTimeout(p)
    BY <2>11 DEF FirstTimeout, Goto, At
  <2>12. CASE SecondTimeout(p)
    BY <2>12 DEF SecondTimeout, Goto, At
  <2>13. CASE GiveUp(p)
    BY <2>13 DEF GiveUp, Goto, At
  <2>14. CASE Collect(p)
    BY <2>14 DEF Collect, Goto, At
  <2>15. CASE Release(p)
    BY <2>15 DEF Release, Goto, At
  <2>16. CASE FlushCheck(p)
    BY <2>16 DEF FlushCheck, Goto, At, AfterFlush
  <2>17. CASE FlushLock(p)
    BY <2>17 DEF FlushLock, Goto, At
  <2>18. CASE FlushEmpty(p)
    BY <2>18 DEF FlushEmpty, Goto, At
  <2>19. CASE FlushTimeout(p)
    BY <2>19 DEF FlushTimeout, Goto, At
  <2>20. CASE FlushRelease(p)
    BY <2>20 DEF FlushRelease, Goto, At, AfterFlush, TxUnlock
  <2>21. CASE RenewLock(p)
    BY <2>21 DEF RenewLock, Goto, At, AllIds, Requests
  <2>22. CASE RenewUnlock(p)
    BY <2>22 DEF RenewUnlock, Goto, At, TxUnlock
  <2>. QED
    BY <2>1, <2>2, <2>3, <2>4, <2>5, <2>6, <2>7, <2>8, <2>9, <2>10, <2>11,
       <2>12, <2>13, <2>14, <2>15, <2>16, <2>17, <2>18, <2>19, <2>20, <2>21,
       <2>22
       DEF Thread
<1>2. CASE SubmitFrame
  BY <1>2 DEF SubmitFrame
<1>3. CASE BottomHalf
  <2>1. CASE BhStart
    BY <2>1 DEF BhStart
  <2>2. CASE BhTakeCmd
    BY <2>2 DEF BhTakeCmd, HasBuffer
  <2>3. CASE BhTakeFrame
    BY <2>3 DEF BhTakeFrame, HasBuffer
  <2>4. CASE BhNothingToSend
    BY <2>4 DEF BhNothingToSend
  <2>5. CASE BhSend
    <3>1. CASE bhMsg = Frame
      BY <2>5, <3>1 DEF BhSend
    <3>2. CASE bhMsg # Frame
      <4>1. PICK n \in 0 .. NumBufs :
               chipCmd' = chipCmd \cup {[req |-> bhMsg, copy |-> n]}
        BY <2>5, <3>2 DEF BhSend
      <4>2. bhMsg \in Requests /\ n \in Nat
        BY <2>5, <3>2 DEF BhSend
      <4>3. chipCmd' \in SUBSET Messages
        BY <4>1, <4>2 DEF Messages
      <4>. QED  BY <2>5, <3>2, <4>3 DEF BhSend
    <3>. QED  BY <3>1, <3>2
  <2>6. CASE BhSendFails
    BY <2>6 DEF BhSendFails
  <2>7. CASE \E n \in 1 .. cnfTx : BhReadFrames(n)
    BY <2>7 DEF BhReadFrames
  <2>8. CASE \E m \in cnfCmd : BhReadAnswer(m)
    <3>. PICK m \in cnfCmd : BhReadAnswer(m)  BY <2>8
    <3>1. m.req \in Requests
      BY DEF Messages
    <3>. QED  BY <3>1 DEF BhReadAnswer
  <2>9. CASE BhConfirm
    BY <2>9 DEF BhConfirm
  <2>10. CASE BhReadException
    BY <2>10 DEF BhReadException
  <2>11. CASE BhReadFails
    <3>1. cnfTx' \in Nat /\ cnfCmd' \in SUBSET Messages
      BY <2>11 DEF BhReadFails
    <3>2. bhPc' \in {"tx", "idle"} /\ bhDid' \in BOOLEAN
      BY <2>11 DEF BhReadFails, BhNextIteration
    <3>3. /\ busErrors' \in Nat /\ lost' \in Nat
          /\ UNCHANGED <<threadVars, lockVars, cmdVars, freezeVars, txLock,
                         queued, bhMsg, bhPending, txUsed, chipTx, chipCmd,
                         exception, hung>>
      BY <2>11 DEF BhReadFails
    <3>. QED  BY <3>1, <3>2, <3>3
  <2>12. CASE BhNothingToRead
    <3>1. bhPc' \in {"tx", "idle"} /\ bhDid' \in BOOLEAN
      BY <2>12 DEF BhNothingToRead, BhNextIteration
    <3>2. UNCHANGED <<threadVars, lockVars, cmdVars, freezeVars, txLock,
                      queued, bhMsg, bhPending, txUsed, chipVars, busVars>>
      BY <2>12 DEF BhNothingToRead
    <3>. QED  BY <3>1, <3>2
  <2>13. CASE BhReadTooHot
    BY <2>13 DEF BhReadTooHot
  <2>. QED
    BY <1>3, <2>1, <2>2, <2>3, <2>4, <2>5, <2>6, <2>7, <2>8, <2>9, <2>10,
       <2>11, <2>12, <2>13
       DEF BottomHalf
<1>4. CASE Chip
  <2>1. CASE ChipConfirmsFrame
    BY <2>1 DEF ChipConfirmsFrame
  <2>2. CASE \E m \in chipCmd : ChipAnswers(m)
    BY <2>2 DEF ChipAnswers
  <2>3. CASE ChipShutsDown
    BY <2>3 DEF ChipShutsDown
  <2>4. CASE ChipHangs
    BY <2>4 DEF ChipHangs
  <2>5. CASE ChipReportsError
    BY <2>5 DEF ChipReportsError
  <2>. QED  BY <1>4, <2>1, <2>2, <2>3, <2>4, <2>5 DEF Chip
<1>5. CASE UNCHANGED vars
  BY <1>5
<1>6. CASE CoolingTimeout
  <2>1. bhPending' \in BOOLEAN
    <3>1. bhPending' = (bhPending \/ txLock = 1)
      BY <1>6 DEF CoolingTimeout, TxUnlock
    <3>. QED  BY <3>1, Zenon
  <2>2. txLock' \in Int
    BY <1>6 DEF CoolingTimeout, TxUnlock
  <2>3. UNCHANGED <<threadVars, lockVars, cmdVars, queued, bhPc, bhMsg, bhDid,
                    txUsed, chipVars, busVars>>
    BY <1>6 DEF CoolingTimeout
  <2>4. cooling' \in BOOLEAN /\ frozen' \in BOOLEAN
    BY <1>6 DEF CoolingTimeout
  <2>. QED  BY <2>1, <2>2, <2>3, <2>4
<1>. QED  BY <1>1, <1>2, <1>3, <1>4, <1>5, <1>6 DEF Next

\* Every step keeps the lock discipline.
LEMMA LockNext ==
  ASSUME CommandInv, LockInv, [Next]_vars
  PROVE  LockInv'
<1>. USE ConstantsAssumption, SentinelsAssumption
       DEF vars, threadVars, lockVars, cmdVars, bhVars, chipVars, freezeVars,
       busVars,
       CommandInv, TypeOK, LockInv, LockOwned, RequestMade, BufSendProtected,
       InFlight, CmdPcs, FlushPcs, RenewPcs, LockPcs, Goto, At, Requests
<1>1. CASE \E p \in Procs : Thread(p)
  <2>. PICK p \in Procs : Thread(p)  BY <1>1
  <2>1. CASE \E id \in Ids \cup {ShutDown} : Call(p, id)
    BY <2>1 DEF Call, Goto, At, AllIds, Requests
  <2>2. CASE CallFlush(p)
    BY <2>2 DEF CallFlush, Goto, At
  <2>3. CASE CallRenew(p)
    BY <2>3 DEF CallRenew, Goto, At
  <2>4. CASE Check(p)
    BY <2>4 DEF Check, Goto, At
  <2>5. CASE TakeRenewLock(p)
    BY <2>5 DEF TakeRenewLock, Goto, At
  <2>6. CASE TakeLock(p)
    BY <2>6 DEF TakeLock, Goto, At
  <2>7. CASE Publish(p)
    BY <2>7 DEF Publish, Goto, At
  <2>8. CASE Kick(p)
    BY <2>8 DEF Kick, Goto, At
  <2>9. CASE Slept(p)
    BY <2>9 DEF Slept, Goto, At
  <2>10. CASE Answered(p)
    BY <2>10 DEF Answered, Goto, At
  <2>11. CASE FirstTimeout(p)
    BY <2>11 DEF FirstTimeout, Goto, At
  <2>12. CASE SecondTimeout(p)
    BY <2>12 DEF SecondTimeout, Goto, At
  <2>13. CASE GiveUp(p)
    BY <2>13 DEF GiveUp, Goto, At
  <2>14. CASE Collect(p)
    BY <2>14 DEF Collect, Goto, At
  <2>15. CASE Release(p)
    BY <2>15 DEF Release, Goto, At
  <2>16. CASE FlushCheck(p)
    BY <2>16 DEF FlushCheck, Goto, At, AfterFlush
  <2>17. CASE FlushLock(p)
    BY <2>17 DEF FlushLock, Goto, At
  <2>18. CASE FlushEmpty(p)
    BY <2>18 DEF FlushEmpty, Goto, At
  <2>19. CASE FlushTimeout(p)
    BY <2>19 DEF FlushTimeout, Goto, At
  <2>20. CASE FlushRelease(p)
    BY <2>20 DEF FlushRelease, Goto, At, AfterFlush, TxUnlock
  <2>21. CASE RenewLock(p)
    BY <2>21 DEF RenewLock, Goto, At, AllIds, Requests
  <2>22. CASE RenewUnlock(p)
    BY <2>22 DEF RenewUnlock, Goto, At, TxUnlock
  <2>. QED
    BY <2>1, <2>2, <2>3, <2>4, <2>5, <2>6, <2>7, <2>8, <2>9, <2>10, <2>11,
       <2>12, <2>13, <2>14, <2>15, <2>16, <2>17, <2>18, <2>19, <2>20, <2>21,
       <2>22
       DEF Thread
<1>2. CASE SubmitFrame
  BY <1>2 DEF SubmitFrame
<1>3. CASE BottomHalf
  <2>1. CASE BhStart
    BY <2>1 DEF BhStart
  <2>2. CASE BhTakeCmd
    BY <2>2 DEF BhTakeCmd, HasBuffer
  <2>3. CASE BhTakeFrame
    BY <2>3 DEF BhTakeFrame, HasBuffer
  <2>4. CASE BhNothingToSend
    BY <2>4 DEF BhNothingToSend
  <2>5. CASE BhSend
    BY <2>5 DEF BhSend, FirstFreeCopy, Messages
  <2>6. CASE BhSendFails
    BY <2>6 DEF BhSendFails
  <2>7. CASE \E n \in 1 .. cnfTx : BhReadFrames(n)
    BY <2>7 DEF BhReadFrames
  <2>8. CASE \E m \in cnfCmd : BhReadAnswer(m)
    BY <2>8 DEF BhReadAnswer, Matches
  <2>9. CASE BhConfirm
    BY <2>9 DEF BhConfirm
  <2>10. CASE BhReadException
    BY <2>10 DEF BhReadException
  <2>11. CASE BhReadFails
    BY <2>11 DEF BhReadFails, BhNextIteration
  <2>12. CASE BhNothingToRead
    BY <2>12 DEF BhNothingToRead, BhNextIteration
  <2>13. CASE BhReadTooHot
    BY <2>13 DEF BhReadTooHot
  <2>. QED
    BY <1>3, <2>1, <2>2, <2>3, <2>4, <2>5, <2>6, <2>7, <2>8, <2>9, <2>10,
       <2>11, <2>12, <2>13
       DEF BottomHalf
<1>4. CASE Chip
  <2>1. CASE ChipConfirmsFrame
    BY <2>1 DEF ChipConfirmsFrame
  <2>2. CASE \E m \in chipCmd : ChipAnswers(m)
    BY <2>2 DEF ChipAnswers
  <2>3. CASE ChipShutsDown
    BY <2>3 DEF ChipShutsDown
  <2>4. CASE ChipHangs
    BY <2>4 DEF ChipHangs
  <2>5. CASE ChipReportsError
    BY <2>5 DEF ChipReportsError
  <2>. QED  BY <1>4, <2>1, <2>2, <2>3, <2>4, <2>5 DEF Chip
<1>5. CASE UNCHANGED vars
  BY <1>5
<1>6. CASE CoolingTimeout
  BY <1>6 DEF CoolingTimeout, TxUnlock
<1>. QED  BY <1>1, <1>2, <1>3, <1>4, <1>5, <1>6 DEF Next

\* Every step keeps the accounts of the chip's input buffers.
LEMMA CreditNext ==
  ASSUME CommandInv, CreditInv, [Next]_vars
  PROVE  CreditInv'
<1>. DEFINE creditVars == <<bhPc, txUsed, chipTx, cnfTx, chipCmd, cnfCmd, lost>>
<1>. USE ConstantsAssumption
       DEF CommandInv, TypeOK, CreditInv, CreditsReserved, CreditsExact
<1>0. /\ Cardinality(chipCmd) \in Nat /\ Cardinality(cnfCmd) \in Nat
      /\ NumBufs \in Nat
  BY FS_CardinalityType
<1>1. ASSUME UNCHANGED creditVars PROVE CreditInv'
  BY <1>1
<1>2. CASE \E p \in Procs : Thread(p)
  <2>. PICK p \in Procs : Thread(p)  BY <1>2
  <2>. UNCHANGED creditVars
    BY
       DEF Thread, Call, CallFlush, CallRenew, Check, TakeRenewLock, TakeLock,
           Publish, Kick, Slept, Answered, FirstTimeout, SecondTimeout,
           GiveUp, Collect, Release, FlushCheck, FlushLock, FlushEmpty,
           FlushTimeout, FlushRelease, RenewLock, RenewUnlock, bhVars,
           chipVars, freezeVars, busVars
  <2>. QED  BY <1>1
<1>3. CASE SubmitFrame
  BY <1>1, <1>3 DEF SubmitFrame, bhVars, chipVars, freezeVars, busVars
<1>4. CASE BhStart
  BY <1>4 DEF BhStart, chipVars, freezeVars, busVars
<1>5. CASE BhTakeCmd \/ BhTakeFrame
  BY <1>0, <1>5
     DEF BhTakeCmd, BhTakeFrame, HasBuffer, chipVars, busVars
<1>6. CASE BhNothingToSend \/ BhSendFails
  BY <1>6 DEF BhNothingToSend, BhSendFails, chipVars, freezeVars, busVars
<1>7. CASE BhSend
  <2>1. CASE bhMsg = Frame
    BY <1>0, <1>7, <2>1 DEF BhSend, busVars
  <2>2. CASE bhMsg # Frame
    <3>. PICK n \in 0 .. NumBufs :
            /\ FirstFreeCopy(bhMsg, n)
            /\ chipCmd' = chipCmd \cup {[req |-> bhMsg, copy |-> n]}
      BY <1>7, <2>2 DEF BhSend
    <3>. DEFINE m == [req |-> bhMsg, copy |-> n]
    <3>1. m \notin chipCmd /\ m \notin cnfCmd
      BY DEF FirstFreeCopy
    <3>2. /\ IsFiniteSet(chipCmd')
          /\ Cardinality(chipCmd') = Cardinality(chipCmd) + 1
      BY <3>1, FS_AddElement
    <3>3. /\ txUsed' = txUsed + 1
          /\ UNCHANGED <<chipTx, cnfTx, cnfCmd, lost>>
          /\ bhPc' = "tx"
          /\ txUsed < NumBufs
      BY <1>7, <2>2 DEF BhSend, busVars
    <3>4. chipCmd' = chipCmd \cup {m}
      OBVIOUS
    <3>. HIDE DEF m
    <3>5. chipCmd' \cap cnfCmd' = {}
      BY <3>1, <3>3, <3>4
    <3>. QED  BY <1>0, <3>2, <3>3, <3>5
  <2>. QED  BY <2>1, <2>2
<1>8. CASE \E n \in 1 .. cnfTx : BhReadFrames(n)
  BY <1>0, <1>8 DEF BhReadFrames, busVars
<1>9. CASE \E m \in cnfCmd : BhReadAnswer(m)
  <2>. PICK m \in cnfCmd : BhReadAnswer(m)  BY <1>9
  <2>1. /\ IsFiniteSet(cnfCmd')
        /\ Cardinality(cnfCmd') = Cardinality(cnfCmd) - 1
    BY FS_RemoveElement DEF BhReadAnswer
  <2>2. /\ txUsed' = txUsed - 1
        /\ UNCHANGED <<chipTx, chipCmd, cnfTx, lost>>
        /\ bhPc' # "send"
        /\ cnfCmd' = cnfCmd \ {m}
    BY DEF BhReadAnswer, busVars
  <2>. QED  BY <1>0, <2>1, <2>2
<1>10. CASE BhConfirm \/ BhReadException \/ BhReadTooHot \/ BhNothingToRead
  BY <1>10 DEF BhConfirm, BhReadException, BhReadTooHot, BhNothingToRead,
               BhNextIteration, chipVars, busVars
<1>11. CASE BhReadFails
  <2>1. /\ lost' = lost + 1
        /\ UNCHANGED <<txUsed, chipTx, chipCmd>>
        /\ bhPc' # "send"
    BY <1>11 DEF BhReadFails, BhNextIteration
  <2>2. CASE cnfTx' = cnfTx - 1 /\ UNCHANGED cnfCmd
    BY <1>0, <2>1, <2>2
  <2>3. CASE UNCHANGED cnfTx /\ \E m \in cnfCmd : cnfCmd' = cnfCmd \ {m}
    <3>1. /\ IsFiniteSet(cnfCmd')
          /\ Cardinality(cnfCmd') = Cardinality(cnfCmd) - 1
      BY <2>3, FS_RemoveElement
    <3>. QED  BY <1>0, <2>1, <2>3, <3>1
  <2>. QED  BY <1>11, <2>2, <2>3 DEF BhReadFails
<1>12. CASE ChipConfirmsFrame
  BY <1>0, <1>12 DEF ChipConfirmsFrame, busVars
<1>13. CASE \E m \in chipCmd : ChipAnswers(m)
  <2>. PICK m \in chipCmd : ChipAnswers(m)  BY <1>13
  <2>1. /\ IsFiniteSet(chipCmd')
        /\ Cardinality(chipCmd') = Cardinality(chipCmd) - 1
    BY FS_RemoveElement DEF ChipAnswers
  <2>2. /\ IsFiniteSet(cnfCmd')
        /\ Cardinality(cnfCmd') = Cardinality(cnfCmd) + 1
    BY FS_AddElement DEF ChipAnswers
  <2>3. UNCHANGED <<bhPc, txUsed, chipTx, cnfTx, lost>>
    BY DEF ChipAnswers, busVars
  <2>4. chipCmd' \cap cnfCmd' = {}
    BY DEF ChipAnswers
  <2>. QED  BY <1>0, <2>1, <2>2, <2>3, <2>4
<1>14. CASE ChipShutsDown \/ ChipHangs \/ ChipReportsError \/ CoolingTimeout
  BY <1>14 DEF ChipShutsDown, ChipHangs, ChipReportsError, CoolingTimeout,
               bhVars, chipVars, busVars
<1>15. CASE UNCHANGED vars
  BY <1>15 DEF vars, bhVars, chipVars, freezeVars, busVars
<1>. QED
  BY <1>2, <1>3, <1>4, <1>5, <1>6, <1>7, <1>8, <1>9, <1>10, <1>11, <1>12,
     <1>13, <1>14, <1>15 DEF Next, BottomHalf, Chip

-----------------------------------------------------------------------------
(* The theorems *)

\* Initially nothing is sent, published or locked.
LEMMA InitInv == Init => CommandInv /\ LockInv /\ CreditInv
<1>. SUFFICES ASSUME Init PROVE CommandInv /\ LockInv /\ CreditInv
  OBVIOUS
<1>1. CommandInv
  <2>1. /\ pc \in [Procs -> {"idle"} \cup CmdPcs \cup FlushPcs \cup RenewPcs]
        /\ op \in [Procs -> {"cmd", "flush", "renew"}]
        /\ req \in [Procs -> Requests \cup {None}]
        /\ ret \in [Procs -> Returns]
        /\ calls \in [Procs -> Nat]
    BY DEF Init, Returns
  <2>2. /\ frozen \in BOOLEAN /\ cooling \in BOOLEAN
        /\ bhDid \in BOOLEAN /\ bhPending \in BOOLEAN
        /\ exception \in BOOLEAN /\ hung \in BOOLEAN
    BY DEF Init
  <2>. QED  BY <2>1, <2>2 DEF Init, CommandInv, TypeOK, MessageInHand
<1>2. LockInv
  BY ConstantsAssumption
     DEF Init, LockInv, LockOwned, RequestMade, BufSendProtected, LockPcs,
         CmdPcs, At
<1>3. CreditInv
  BY ConstantsAssumption, FS_EmptySet
     DEF Init, CreditInv, CreditsReserved, CreditsExact
<1>. QED  BY <1>1, <1>2, <1>3

\* The inductive invariant holds in every behaviour.
LEMMA Inductive == Spec => [](CommandInv /\ LockInv /\ CreditInv)
<1>1. CommandInv /\ LockInv /\ CreditInv /\ [Next]_vars
        => (CommandInv /\ LockInv /\ CreditInv)'
  BY CommandNext, LockNext, CreditNext
<1>. QED  BY InitInv, <1>1, PTL DEF Spec

\* Type correctness of the command layer.
THEOREM TypeCorrect == Spec => []TypeOK
<1>1. CommandInv => TypeOK
  BY DEF CommandInv
<1>. QED  BY Inductive, <1>1, PTL

\* buf_send always points to the request of the thread that owns
\* hif_cmd.lock and is waiting in wfx_cmd_send, and a thread that is about to
\* publish a request finds it NULL, however late the chip answers.
THEOREM BufSendSafe == Spec => []BufSendProtected
<1>1. LockInv => BufSendProtected
  BY DEF LockInv
<1>. QED  BY Inductive, <1>1, PTL

\* tx_buffers_used is exactly the number of input buffers in use, plus the
\* confirmations lost on the bus, and stays within num_inp_ch_bufs.
THEOREM CreditsCorrect == Spec => []CreditsExact
<1>1. CreditInv => CreditsExact
  BY DEF CreditInv
<1>. QED  BY Inductive, <1>1, PTL

-----------------------------------------------------------------------------
(* Who takes part in a key renewal *)

\* What a thread executes tells which command it carries.
ThreadOps ==
    \A p \in Procs :
        /\ pc[p] \in CmdPcs =>
              op[p] = IF req[p].id = SlExchange THEN "renew" ELSE "cmd"
        /\ pc[p] = "renewLock" => op[p] = "cmd"
        /\ pc[p] \in FlushPcs => op[p] # "cmd"
        /\ pc[p] \in RenewPcs => op[p] = "renew"

\* Every command but the exchange itself takes key_renew_lock before
\* hif_cmd.lock; the renewal keeps it until the exchange is over.
HoldsKey(p) ==
    IF op[p] = "renew" THEN pc[p] \in CmdPcs \cup {"slUnlock"}
                       ELSE pc[p] \in CmdPcs \ {"check", "renewLock"}

KeyOwned == \A p \in Procs : HoldsKey(p) <=> keyRenewLock = p

RenewInv == ThreadOps /\ KeyOwned

\* Every step keeps the discipline of key_renew_lock.
LEMMA RenewNext ==
  ASSUME CommandInv, LockInv, RenewInv, [Next]_vars
  PROVE  RenewInv'
<1>. USE ConstantsAssumption, SentinelsAssumption
   DEF vars, threadVars, lockVars, cmdVars, bhVars, chipVars, freezeVars,
       busVars,
       CommandInv, TypeOK, LockInv, RequestMade, RenewInv, ThreadOps,
       KeyOwned, HoldsKey, CmdPcs, FlushPcs, RenewPcs
<1>1. CASE \E p \in Procs : Thread(p)
  <2>. PICK p \in Procs : Thread(p)  BY <1>1
  <2>1. CASE \E id \in Ids \cup {ShutDown} : Call(p, id)
    BY <2>1 DEF Call, Goto, At, AllIds, Requests
  <2>2. CASE CallFlush(p)
    BY <2>2 DEF CallFlush, Goto, At
  <2>3. CASE CallRenew(p)
    BY <2>3 DEF CallRenew, Goto, At
  <2>4. CASE Check(p)
    BY <2>4 DEF Check, Goto, At
  <2>5. CASE TakeRenewLock(p)
    BY <2>5 DEF TakeRenewLock, Goto, At
  <2>6. CASE TakeLock(p)
    BY <2>6 DEF TakeLock, Goto, At
  <2>7. CASE Publish(p)
    BY <2>7 DEF Publish, Goto, At
  <2>8. CASE Kick(p)
    BY <2>8 DEF Kick, Goto, At
  <2>9. CASE Slept(p)
    BY <2>9 DEF Slept, Goto, At
  <2>10. CASE Answered(p)
    BY <2>10 DEF Answered, Goto, At
  <2>11. CASE FirstTimeout(p)
    BY <2>11 DEF FirstTimeout, Goto, At
  <2>12. CASE SecondTimeout(p)
    BY <2>12 DEF SecondTimeout, Goto, At
  <2>13. CASE GiveUp(p)
    BY <2>13 DEF GiveUp, Goto, At
  <2>14. CASE Collect(p)
    BY <2>14 DEF Collect, Goto, At
  <2>15. CASE Release(p)
    BY <2>15 DEF Release, Goto, At
  <2>16. CASE FlushCheck(p)
    BY <2>16 DEF FlushCheck, Goto, At, AfterFlush
  <2>17. CASE FlushLock(p)
    BY <2>17 DEF FlushLock, Goto, At
  <2>18. CASE FlushEmpty(p)
    BY <2>18 DEF FlushEmpty, Goto, At
  <2>19. CASE FlushTimeout(p)
    BY <2>19 DEF FlushTimeout, Goto, At
  <2>20. CASE FlushRelease(p)
    BY <2>20 DEF FlushRelease, Goto, At, AfterFlush, TxUnlock
  <2>21. CASE RenewLock(p)
    BY <2>21 DEF RenewLock, Goto, At, AllIds, Requests
  <2>22. CASE RenewUnlock(p)
    BY <2>22 DEF RenewUnlock, Goto, At, TxUnlock
  <2>. QED
    BY <2>1, <2>2, <2>3, <2>4, <2>5, <2>6, <2>7, <2>8, <2>9, <2>10, <2>11,
       <2>12, <2>13, <2>14, <2>15, <2>16, <2>17, <2>18, <2>19, <2>20, <2>21,
       <2>22
       DEF Thread
<1>2. CASE SubmitFrame
  BY <1>2 DEF SubmitFrame
<1>3. CASE BottomHalf
  <2>1. CASE BhStart
    BY <2>1 DEF BhStart
  <2>2. CASE BhTakeCmd
    BY <2>2 DEF BhTakeCmd, HasBuffer
  <2>3. CASE BhTakeFrame
    BY <2>3 DEF BhTakeFrame, HasBuffer
  <2>4. CASE BhNothingToSend
    BY <2>4 DEF BhNothingToSend
  <2>5. CASE BhSend
    BY <2>5 DEF BhSend, FirstFreeCopy, Messages
  <2>6. CASE BhSendFails
    BY <2>6 DEF BhSendFails
  <2>7. CASE \E n \in 1 .. cnfTx : BhReadFrames(n)
    BY <2>7 DEF BhReadFrames
  <2>8. CASE \E m \in cnfCmd : BhReadAnswer(m)
    BY <2>8 DEF BhReadAnswer, Matches
  <2>9. CASE BhConfirm
    BY <2>9 DEF BhConfirm
  <2>10. CASE BhReadException
    BY <2>10 DEF BhReadException
  <2>11. CASE BhReadFails
    BY <2>11 DEF BhReadFails, BhNextIteration
  <2>12. CASE BhNothingToRead
    BY <2>12 DEF BhNothingToRead, BhNextIteration
  <2>13. CASE BhReadTooHot
    BY <2>13 DEF BhReadTooHot
  <2>. QED
    BY <1>3, <2>1, <2>2, <2>3, <2>4, <2>5, <2>6, <2>7, <2>8, <2>9, <2>10,
       <2>11, <2>12, <2>13
       DEF BottomHalf
<1>4. CASE Chip
  <2>1. CASE ChipConfirmsFrame
    BY <2>1 DEF ChipConfirmsFrame
  <2>2. CASE \E m \in chipCmd : ChipAnswers(m)
    BY <2>2 DEF ChipAnswers
  <2>3. CASE ChipShutsDown
    BY <2>3 DEF ChipShutsDown
  <2>4. CASE ChipHangs
    BY <2>4 DEF ChipHangs
  <2>5. CASE ChipReportsError
    BY <2>5 DEF ChipReportsError
  <2>. QED  BY <1>4, <2>1, <2>2, <2>3, <2>4, <2>5 DEF Chip
<1>5. CASE UNCHANGED vars
  BY <1>5
<1>6. CASE CoolingTimeout
  BY <1>6 DEF CoolingTimeout, TxUnlock
<1>. QED  BY <1>1, <1>2, <1>3, <1>4, <1>5, <1>6 DEF Next

\* While a renewal holds key_renew_lock, buf_send can only be its own request.
LEMMA RenewSafe ==
  ASSUME CommandInv, LockInv, RenewInv
  PROVE  RenewalExclusive
<1>. SUFFICES ASSUME NEW p \in Procs,
                     op[p] = "renew", keyRenewLock = p, bufSend # None
              PROVE  bufSend.id = SlExchange
  BY DEF RenewalExclusive
<1>. DEFINE q == bufSend.by
<1>1. bufSend \in Requests /\ q \in Procs
  BY DEF CommandInv, TypeOK, Requests
<1>2. InFlight(q) /\ req[q] = bufSend
  BY DEF LockInv, BufSendProtected
<1>3. keyRenewLock = q
  BY <1>1, <1>2 DEF InFlight, RenewInv, KeyOwned, HoldsKey, CmdPcs
<1>. QED  BY <1>1, <1>2, <1>3 DEF RenewInv, ThreadOps, InFlight, CmdPcs

-----------------------------------------------------------------------------
(* Where a published request is, when the chip is on time *)

\* The request p is about to make does not exist yet, or is still its own.
Unpublished(p) ==
    \/ pc[p] \in {"check", "renewLock", "cmdLock", "publish", "slLock"}
    \/ op[p] = "renew" /\ pc[p] \in FlushPcs

\* r was made by a call that has begun, and by an earlier one when the
\* maker's present call has published nothing yet.
Old(r) ==
    /\ r.call <= calls[r.by]
    /\ Unpublished(r.by) => r.call < calls[r.by]

\* A request under way was published by the call that made it: a new request
\* is never one that the bottom half or the chip still has.
Fresh ==
    /\ \A p \in Procs : pc[p] \in CmdPcs => req[p].call = calls[p]
    /\ \A m \in chipCmd \cup cnfCmd : Old(m.req)
    /\ bhMsg \in Requests => Old(bhMsg)

\* r is in one of the chip's input buffers, or its confirmation is unread.
Sent(r) == \E m \in chipCmd \cup cnfCmd : m.req = r

PublishedPcs == {"kick", "sleep", "wait", "waitMore", "giveUp", "collect",
                 "release"}

\* The shutdown command was published, or refused because the chip is frozen.
ShutDownBegun ==
    \E p \in Procs : /\ req[p] # None /\ req[p].id = ShutDown
                     /\ pc[p] \in PublishedPcs \cup {"idle"}

\* Nothing is under way between the threads and the bottom half.
Settled == ready = 0 /\ done = 0 /\ cnfCmd = {} /\ bhMsg \notin Requests

\* The bottom half does not stop before it has read all there is to read.
Noticed == BhQuiet => cnfCmd = {}

\* The bus does not fail.
BusWorks == lost = 0 /\ busErrors = 0

\* The shutdown command is the last one, and nobody uses the layer meanwhile.
Alone ==
    \A p \in Procs : (req[p] # None /\ req[p].id = ShutDown) =>
        /\ \A q \in Procs \ {p} : pc[q] = "idle"
        /\ pc[p] \in {"idle"} \cup CmdPcs
        /\ done = 0 /\ cnfCmd = {} /\ bhPc # "confirm"

\* A published request is in one place: announced by `ready', in the hands of
\* the bottom half, at the chip or confirmed, or announced by `done'.
Once ==
    /\ ready \in {0, 1} /\ done \in {0, 1}
    /\ (ready = 1 /\ bufSend # None) =>
          done = 0 /\ bhMsg \notin Requests /\ ~Sent(bufSend)
    /\ bhMsg \in Requests => ready = 0 /\ done = 0 /\ ~Sent(bhMsg)
    /\ done = 1 => /\ hifRet = bufSend /\ bufSend # None
                   /\ bhMsg \notin Requests /\ ~Sent(bufSend)
    /\ cnfCmd # {} => ready = 0 /\ done = 0
    /\ \A m, n \in chipCmd \cup cnfCmd : m.req = n.req => m = n

\* What is under way is the published request; only a hung chip keeps others.
Own ==
    /\ bhMsg \in Requests => bhPc \in {"send", "confirm"}
    /\ \A m \in cnfCmd : m.req = bufSend
    /\ bhPc = "confirm" => bhMsg = bufSend
    /\ (bhPc = "send" /\ bhMsg # Frame) =>
          \/ bhMsg = bufSend
          \/ bhMsg.id = ShutDown /\ req[bhMsg.by] = bhMsg
    /\ ~hung => \A m \in chipCmd :
                   \/ m.req = bufSend
                   \/ m.req.id = ShutDown /\ req[m.req.by] = m.req
    /\ (bufSend = None /\ ~ShutDownBegun) => Settled

\* What a thread that has published a request may rely on.
Phases ==
    \A p \in Procs :
        /\ pc[p] \in PublishedPcs => bufSend = req[p]
        /\ pc[p] = "sleep" => req[p].id = ShutDown
        /\ pc[p] \in {"wait", "waitMore", "giveUp", "collect"} =>
              req[p].id # ShutDown
        /\ (pc[p] \in {"kick", "wait", "waitMore"} /\ ~hung) =>
              ready = 1 \/ bhMsg = req[p] \/ Sent(req[p]) \/ done = 1
        /\ pc[p] = "waitMore" => ready = 0
        /\ pc[p] = "giveUp" => hung
        /\ (pc[p] \in {"giveUp", "collect", "release"}
              /\ req[p].id # ShutDown) =>
              Settled /\ (hung \/ ~Sent(req[p]))
        /\ pc[p] = "collect" => hifRet = req[p]

\* What a thread returns: nothing before it leaves the layer, then the
\* status of its own request or no status at all.
Answers ==
    \A p \in Procs :
        /\ pc[p] \notin {"idle", "slUnlock", "release"} => ret[p] = None
        /\ ret[p] \in Requests => ret[p] = req[p]

TimelyInv ==
    Fresh /\ Noticed /\ BusWorks /\ Alone /\ Once /\ Own /\ Phases /\ Answers

\* tx_helper adds at most the message in hand to what the chip has.
LEMMA SendsInHand ==
  ASSUME CommandInv, BhSend
  PROVE  /\ bhMsg = Frame => UNCHANGED chipCmd
         /\ bhMsg # Frame => /\ bhMsg \in Requests
                             /\ \E m \in Messages : /\ m.req = bhMsg
                                                    /\ m \notin cnfCmd
                                                    /\ chipCmd' = chipCmd \cup {m}
<1>1. bhMsg # Frame => bhMsg \in Requests
  BY DEF BhSend, CommandInv, MessageInHand
<1>2. ASSUME bhMsg # Frame
      PROVE  \E m \in Messages : /\ m.req = bhMsg
                                 /\ m \notin cnfCmd
                                 /\ chipCmd' = chipCmd \cup {m}
  <2>. PICK n \in 0 .. NumBufs :
          /\ FirstFreeCopy(bhMsg, n)
          /\ chipCmd' = chipCmd \cup {[req |-> bhMsg, copy |-> n]}
    BY <1>2 DEF BhSend
  <2>1. [req |-> bhMsg, copy |-> n] \in Messages
    BY <1>1, <1>2, ConstantsAssumption DEF Messages
  <2>. WITNESS [req |-> bhMsg, copy |-> n] \in Messages
  <2>. QED  BY DEF FirstFreeCopy
<1>3. bhMsg = Frame => UNCHANGED chipCmd
  BY DEF BhSend
<1>. QED  BY <1>1, <1>2, <1>3

\* Every call makes a new request.
LEMMA FreshNext ==
  ASSUME CommandInv, LockInv, RenewInv, Fresh, [Next]_vars
  PROVE  Fresh'
<1>. USE ConstantsAssumption, SentinelsAssumption
   DEF vars, threadVars, lockVars, cmdVars, bhVars, chipVars, freezeVars,
       busVars,
       CommandInv, TypeOK, LockInv, RequestMade, RenewInv, ThreadOps, CmdPcs,
       FlushPcs, RenewPcs, Fresh, Old, Unpublished, Requests, MessageInHand,
       BufSendProtected, InFlight, Messages
<1>1. CASE \E p \in Procs : Thread(p)
  <2>. PICK p \in Procs : Thread(p)  BY <1>1
  <2>1. CASE \E id \in Ids \cup {ShutDown} : Call(p, id)
    BY <2>1 DEF Call, Goto, At, AllIds, Requests
  <2>2. CASE CallFlush(p)
    BY <2>2 DEF CallFlush, Goto, At
  <2>3. CASE CallRenew(p)
    BY <2>3 DEF CallRenew, Goto, At
  <2>4. CASE Check(p)
    BY <2>4 DEF Check, Goto, At
  <2>5. CASE TakeRenewLock(p)
    BY <2>5 DEF TakeRenewLock, Goto, At
  <2>6. CASE TakeLock(p)
    BY <2>6 DEF TakeLock, Goto, At
  <2>7. CASE Publish(p)
    BY <2>7 DEF Publish, Goto, At
  <2>8. CASE Kick(p)
    BY <2>8 DEF Kick, Goto, At
  <2>9. CASE Slept(p)
    BY <2>9 DEF Slept, Goto, At
  <2>10. CASE Answered(p)
    BY <2>10 DEF Answered, Goto, At
  <2>11. CASE FirstTimeout(p)
    BY <2>11 DEF FirstTimeout, Goto, At
  <2>12. CASE SecondTimeout(p)
    BY <2>12 DEF SecondTimeout, Goto, At
  <2>13. CASE GiveUp(p)
    BY <2>13 DEF GiveUp, Goto, At
  <2>14. CASE Collect(p)
    BY <2>14 DEF Collect, Goto, At
  <2>15. CASE Release(p)
    BY <2>15 DEF Release, Goto, At
  <2>16. CASE FlushCheck(p)
    BY <2>16 DEF FlushCheck, Goto, At, AfterFlush
  <2>17. CASE FlushLock(p)
    BY <2>17 DEF FlushLock, Goto, At
  <2>18. CASE FlushEmpty(p)
    BY <2>18 DEF FlushEmpty, Goto, At
  <2>19. CASE FlushTimeout(p)
    BY <2>19 DEF FlushTimeout, Goto, At
  <2>20. CASE FlushRelease(p)
    BY <2>20 DEF FlushRelease, Goto, At, AfterFlush, TxUnlock
  <2>21. CASE RenewLock(p)
    BY <2>21 DEF RenewLock, Goto, At, AllIds, Requests
  <2>22. CASE RenewUnlock(p)
    BY <2>22 DEF RenewUnlock, Goto, At, TxUnlock
  <2>. QED
    BY <2>1, <2>2, <2>3, <2>4, <2>5, <2>6, <2>7, <2>8, <2>9, <2>10, <2>11,
       <2>12, <2>13, <2>14, <2>15, <2>16, <2>17, <2>18, <2>19, <2>20, <2>21,
       <2>22
       DEF Thread
<1>2. CASE SubmitFrame
  BY <1>2 DEF SubmitFrame
<1>3. CASE BottomHalf
  <2>1. CASE BhStart
    BY <2>1 DEF BhStart
  <2>2. CASE BhTakeCmd
    BY <2>2 DEF BhTakeCmd, HasBuffer
  <2>3. CASE BhTakeFrame
    BY <2>3 DEF BhTakeFrame, HasBuffer
  <2>4. CASE BhNothingToSend
    BY <2>4 DEF BhNothingToSend
  <2>5. CASE BhSend
    <3>1. UNCHANGED <<cnfCmd, pc, op, calls, req>> /\ bhMsg' = None
      BY <2>5 DEF BhSend
    <3>2. \A m \in chipCmd' \cup cnfCmd' :
             m \in chipCmd \cup cnfCmd \/ (bhMsg \in Requests /\ m.req = bhMsg)
      BY <2>5, <3>1, SendsInHand
    <3>3. \A m \in chipCmd' \cup cnfCmd' : Old(m.req)
      BY <3>2
    <3>4. Fresh'
      BY <3>1, <3>3
    <3>. QED  BY <3>4
  <2>6. CASE BhSendFails
    BY <2>6 DEF BhSendFails
  <2>7. CASE \E n \in 1 .. cnfTx : BhReadFrames(n)
    BY <2>7 DEF BhReadFrames
  <2>8. CASE \E m \in cnfCmd : BhReadAnswer(m)
    BY <2>8 DEF BhReadAnswer, Matches
  <2>9. CASE BhConfirm
    BY <2>9 DEF BhConfirm
  <2>10. CASE BhReadException
    BY <2>10 DEF BhReadException
  <2>11. CASE BhReadFails
    BY <2>11 DEF BhReadFails, BhNextIteration
  <2>12. CASE BhNothingToRead
    BY <2>12 DEF BhNothingToRead, BhNextIteration
  <2>13. CASE BhReadTooHot
    BY <2>13 DEF BhReadTooHot
  <2>. QED
    BY <1>3, <2>1, <2>2, <2>3, <2>4, <2>5, <2>6, <2>7, <2>8, <2>9, <2>10,
       <2>11, <2>12, <2>13
       DEF BottomHalf
<1>4. CASE Chip
  <2>1. CASE ChipConfirmsFrame
    BY <2>1 DEF ChipConfirmsFrame
  <2>2. CASE \E m \in chipCmd : ChipAnswers(m)
    BY <2>2 DEF ChipAnswers
  <2>3. CASE ChipShutsDown
    BY <2>3 DEF ChipShutsDown
  <2>4. CASE ChipHangs
    BY <2>4 DEF ChipHangs
  <2>5. CASE ChipReportsError
    BY <2>5 DEF ChipReportsError
  <2>. QED  BY <1>4, <2>1, <2>2, <2>3, <2>4, <2>5 DEF Chip
<1>5. CASE UNCHANGED vars
  BY <1>5
<1>6. CASE CoolingTimeout
  BY <1>6 DEF CoolingTimeout, TxUnlock
<1>. QED  BY <1>1, <1>2, <1>3, <1>4, <1>5, <1>6 DEF Next

\* The send moves the message in hand to the chip, and only that one.
LEMMA SentAfterSend ==
  ASSUME CommandInv, BhSend, NEW r
  PROVE  Sent(r)' <=> (Sent(r) \/ (bhMsg \in Requests /\ r = bhMsg))
<1>1. UNCHANGED cnfCmd
  BY DEF BhSend
<1>2. CASE bhMsg = Frame
  BY <1>1, <1>2, SendsInHand, SentinelsAssumption DEF Sent
<1>3. CASE bhMsg # Frame
  BY <1>1, <1>3, SendsInHand DEF Sent
<1>. QED  BY <1>2, <1>3

\* A thread about to publish finds nothing under way, and nothing that could
\* be taken for its request.
LEMMA PublishesFresh ==
  ASSUME CommandInv, LockInv, TimelyInv,
         NEW p \in Procs, pc[p] = "publish"
  PROVE  bufSend = None /\ Settled /\ ~Sent(req[p])
<1>1. bufSend = None
  BY DEF LockInv, BufSendProtected, At
<1>2. ~ShutDownBegun
  BY DEF ShutDownBegun, PublishedPcs, TimelyInv, Alone
<1>3. Settled
  BY <1>1, <1>2 DEF TimelyInv, Own
<1>4. req[p] \in Requests /\ req[p].by = p /\ req[p].call = calls[p]
  BY DEF LockInv, RequestMade, TimelyInv, Fresh, CmdPcs
<1>5. ASSUME NEW m \in chipCmd \cup cnfCmd, m.req = req[p]
      PROVE  FALSE
  <2>1. Old(req[p])
    BY <1>5 DEF TimelyInv, Fresh
  <2>2. calls[p] \in Nat
    BY DEF CommandInv, TypeOK
  <2>. QED  BY <1>4, <2>1, <2>2 DEF Old, Unpublished
<1>. QED  BY <1>1, <1>3, <1>5 DEF Sent

\* The bottom half goes to sleep only after an empty read.
LEMMA NoticedNext ==
  ASSUME ~LateAnswers, MaxBusErrors = 0,
         CommandInv, LockInv, CreditInv, RenewInv,
         TimelyInv, [Next]_vars
  PROVE  Noticed'
<1>. USE ConstantsAssumption, SentinelsAssumption
   DEF vars, threadVars, lockVars, cmdVars, bhVars, chipVars, freezeVars,
       busVars,
       CommandInv, TypeOK, CmdPcs, FlushPcs, RenewPcs, TimelyInv, Noticed,
       BhQuiet, BusWorks
<1>1. CASE \E p \in Procs : Thread(p)
  <2>. PICK p \in Procs : Thread(p)  BY <1>1
  <2>1. CASE \E id \in Ids \cup {ShutDown} : Call(p, id)
    BY <2>1 DEF Call, Goto, At, AllIds, Requests
  <2>2. CASE CallFlush(p)
    BY <2>2 DEF CallFlush, Goto, At
  <2>3. CASE CallRenew(p)
    BY <2>3 DEF CallRenew, Goto, At
  <2>4. CASE Check(p)
    BY <2>4 DEF Check, Goto, At
  <2>5. CASE TakeRenewLock(p)
    BY <2>5 DEF TakeRenewLock, Goto, At
  <2>6. CASE TakeLock(p)
    BY <2>6 DEF TakeLock, Goto, At
  <2>7. CASE Publish(p)
    BY <2>7 DEF Publish, Goto, At
  <2>8. CASE Kick(p)
    BY <2>8 DEF Kick, Goto, At
  <2>9. CASE Slept(p)
    BY <2>9 DEF Slept, Goto, At
  <2>10. CASE Answered(p)
    BY <2>10 DEF Answered, Goto, At
  <2>11. CASE FirstTimeout(p)
    BY <2>11 DEF FirstTimeout, Goto, At
  <2>12. CASE SecondTimeout(p)
    BY <2>12 DEF SecondTimeout, Goto, At
  <2>13. CASE GiveUp(p)
    BY <2>13 DEF GiveUp, Goto, At
  <2>14. CASE Collect(p)
    BY <2>14 DEF Collect, Goto, At
  <2>15. CASE Release(p)
    BY <2>15 DEF Release, Goto, At
  <2>16. CASE FlushCheck(p)
    BY <2>16 DEF FlushCheck, Goto, At, AfterFlush
  <2>17. CASE FlushLock(p)
    BY <2>17 DEF FlushLock, Goto, At
  <2>18. CASE FlushEmpty(p)
    BY <2>18 DEF FlushEmpty, Goto, At
  <2>19. CASE FlushTimeout(p)
    BY <2>19 DEF FlushTimeout, Goto, At
  <2>20. CASE FlushRelease(p)
    BY <2>20 DEF FlushRelease, Goto, At, AfterFlush, TxUnlock
  <2>21. CASE RenewLock(p)
    BY <2>21 DEF RenewLock, Goto, At, AllIds, Requests
  <2>22. CASE RenewUnlock(p)
    BY <2>22 DEF RenewUnlock, Goto, At, TxUnlock
  <2>. QED
    BY <2>1, <2>2, <2>3, <2>4, <2>5, <2>6, <2>7, <2>8, <2>9, <2>10, <2>11,
       <2>12, <2>13, <2>14, <2>15, <2>16, <2>17, <2>18, <2>19, <2>20, <2>21,
       <2>22
       DEF Thread
<1>2. CASE SubmitFrame
  BY <1>2 DEF SubmitFrame
<1>3. CASE BottomHalf
  <2>1. CASE BhStart
    BY <2>1 DEF BhStart
  <2>2. CASE BhTakeCmd
    BY <2>2 DEF BhTakeCmd, HasBuffer
  <2>3. CASE BhTakeFrame
    BY <2>3 DEF BhTakeFrame, HasBuffer
  <2>4. CASE BhNothingToSend
    BY <2>4 DEF BhNothingToSend
  <2>5. CASE BhSend
    BY <2>5 DEF BhSend, FirstFreeCopy, Messages
  <2>6. CASE BhSendFails
    BY <2>6 DEF BusWorks, BhSendFails
  <2>7. CASE \E n \in 1 .. cnfTx : BhReadFrames(n)
    BY <2>7 DEF BhReadFrames
  <2>8. CASE \E m \in cnfCmd : BhReadAnswer(m)
    BY <2>8 DEF BhReadAnswer, Matches
  <2>9. CASE BhConfirm
    BY <2>9 DEF BhConfirm
  <2>10. CASE BhReadException
    BY <2>10 DEF BhReadException
  <2>11. CASE BhReadFails
    BY <2>11 DEF BusWorks, BhReadFails, BhNextIteration
  <2>12. CASE BhNothingToRead
    BY <2>12 DEF BhNothingToRead, BhNextIteration
  <2>13. CASE BhReadTooHot
    BY <2>13 DEF BhReadTooHot
  <2>. QED
    BY <1>3, <2>1, <2>2, <2>3, <2>4, <2>5, <2>6, <2>7, <2>8, <2>9, <2>10,
       <2>11, <2>12, <2>13
       DEF BottomHalf
<1>4. CASE Chip
  <2>1. CASE ChipConfirmsFrame
    BY <2>1 DEF ChipConfirmsFrame
  <2>2. CASE \E m \in chipCmd : ChipAnswers(m)
    BY <2>2 DEF ChipAnswers
  <2>3. CASE ChipShutsDown
    BY <2>3 DEF ChipShutsDown
  <2>4. CASE ChipHangs
    BY <2>4 DEF ChipHangs
  <2>5. CASE ChipReportsError
    BY <2>5 DEF ChipReportsError
  <2>. QED  BY <1>4, <2>1, <2>2, <2>3, <2>4, <2>5 DEF Chip
<1>5. CASE UNCHANGED vars
  BY <1>5
<1>6. CASE CoolingTimeout
  BY <1>6 DEF CoolingTimeout, TxUnlock
<1>. QED  BY <1>1, <1>2, <1>3, <1>4, <1>5, <1>6 DEF Next

\* No transfer fails.
LEMMA BusWorksNext ==
  ASSUME ~LateAnswers, MaxBusErrors = 0,
         CommandInv, LockInv, CreditInv, RenewInv,
         TimelyInv, [Next]_vars
  PROVE  BusWorks'
<1>. USE ConstantsAssumption, SentinelsAssumption
   DEF vars, threadVars, lockVars, cmdVars, bhVars, chipVars, freezeVars,
       busVars,
       CommandInv, TypeOK, CmdPcs, FlushPcs, RenewPcs, TimelyInv, BusWorks,
       Phases, FlushOverdue, BhQuiet, MessageInHand
<1>1. CASE \E p \in Procs : Thread(p)
  <2>. PICK p \in Procs : Thread(p)  BY <1>1
  <2>1. CASE \E id \in Ids \cup {ShutDown} : Call(p, id)
    BY <2>1 DEF Call, Goto, At, AllIds, Requests
  <2>2. CASE CallFlush(p)
    BY <2>2 DEF CallFlush, Goto, At
  <2>3. CASE CallRenew(p)
    BY <2>3 DEF CallRenew, Goto, At
  <2>4. CASE Check(p)
    BY <2>4 DEF Check, Goto, At
  <2>5. CASE TakeRenewLock(p)
    BY <2>5 DEF TakeRenewLock, Goto, At
  <2>6. CASE TakeLock(p)
    BY <2>6 DEF TakeLock, Goto, At
  <2>7. CASE Publish(p)
    BY <2>7 DEF Publish, Goto, At
  <2>8. CASE Kick(p)
    BY <2>8 DEF Kick, Goto, At
  <2>9. CASE Slept(p)
    BY <2>9 DEF Slept, Goto, At
  <2>10. CASE Answered(p)
    BY <2>10 DEF Answered, Goto, At
  <2>11. CASE FirstTimeout(p)
    BY <2>11 DEF FirstTimeout, Goto, At
  <2>12. CASE SecondTimeout(p)
    BY <2>12 DEF SecondTimeout, Goto, At
  <2>13. CASE GiveUp(p)
    BY <2>13 DEF GiveUp, Goto, At
  <2>14. CASE Collect(p)
    BY <2>14 DEF Collect, Goto, At
  <2>15. CASE Release(p)
    BY <2>15 DEF Release, Goto, At
  <2>16. CASE FlushCheck(p)
    BY <2>16 DEF FlushCheck, Goto, At, AfterFlush
  <2>17. CASE FlushLock(p)
    BY <2>17 DEF FlushLock, Goto, At
  <2>18. CASE FlushEmpty(p)
    BY <2>18 DEF FlushEmpty, Goto, At
  <2>19. CASE FlushTimeout(p)
    BY <2>19 DEF FlushTimeout, Goto, At
  <2>20. CASE FlushRelease(p)
    BY <2>20 DEF FlushRelease, Goto, At, AfterFlush, TxUnlock
  <2>21. CASE RenewLock(p)
    BY <2>21 DEF RenewLock, Goto, At, AllIds, Requests
  <2>22. CASE RenewUnlock(p)
    BY <2>22 DEF RenewUnlock, Goto, At, TxUnlock
  <2>. QED
    BY <2>1, <2>2, <2>3, <2>4, <2>5, <2>6, <2>7, <2>8, <2>9, <2>10, <2>11,
       <2>12, <2>13, <2>14, <2>15, <2>16, <2>17, <2>18, <2>19, <2>20, <2>21,
       <2>22
       DEF Thread
<1>2. CASE SubmitFrame
  BY <1>2 DEF SubmitFrame
<1>3. CASE BottomHalf
  <2>1. CASE BhStart
    BY <2>1 DEF BhStart
  <2>2. CASE BhTakeCmd
    BY <2>2 DEF BhTakeCmd, HasBuffer
  <2>3. CASE BhTakeFrame
    BY <2>3 DEF BhTakeFrame, HasBuffer
  <2>4. CASE BhNothingToSend
    BY <2>4 DEF BhNothingToSend
  <2>5. CASE BhSend
    BY <2>5 DEF BhSend, FirstFreeCopy, Messages
  <2>6. CASE BhSendFails
    BY <2>6 DEF BusWorks, BhSendFails
  <2>7. CASE \E n \in 1 .. cnfTx : BhReadFrames(n)
    BY <2>7 DEF BhReadFrames
  <2>8. CASE \E m \in cnfCmd : BhReadAnswer(m)
    BY <2>8 DEF BhReadAnswer, Matches
  <2>9. CASE BhConfirm
    BY <2>9 DEF BhConfirm
  <2>10. CASE BhReadException
    BY <2>10 DEF BhReadException
  <2>11. CASE BhReadFails
    BY <2>11 DEF BusWorks, BhReadFails, BhNextIteration
  <2>12. CASE BhNothingToRead
    BY <2>12 DEF BhNothingToRead, BhNextIteration
  <2>13. CASE BhReadTooHot
    BY <2>13 DEF BhReadTooHot
  <2>. QED
    BY <1>3, <2>1, <2>2, <2>3, <2>4, <2>5, <2>6, <2>7, <2>8, <2>9, <2>10,
       <2>11, <2>12, <2>13
       DEF BottomHalf
<1>4. CASE Chip
  <2>1. CASE ChipConfirmsFrame
    BY <2>1 DEF ChipConfirmsFrame
  <2>2. CASE \E m \in chipCmd : ChipAnswers(m)
    BY <2>2 DEF ChipAnswers
  <2>3. CASE ChipShutsDown
    BY <2>3 DEF ChipShutsDown
  <2>4. CASE ChipHangs
    BY <2>4 DEF ChipHangs
  <2>5. CASE ChipReportsError
    BY <2>5 DEF ChipReportsError
  <2>. QED  BY <1>4, <2>1, <2>2, <2>3, <2>4, <2>5 DEF Chip
<1>5. CASE UNCHANGED vars
  BY <1>5
<1>6. CASE CoolingTimeout
  BY <1>6 DEF CoolingTimeout, TxUnlock
<1>. QED  BY <1>1, <1>2, <1>3, <1>4, <1>5, <1>6 DEF Next

\* Nobody enters the layer once the shutdown command is made.
LEMMA AloneNext ==
  ASSUME ~LateAnswers, MaxBusErrors = 0,
         CommandInv, LockInv, CreditInv, RenewInv,
         TimelyInv, [Next]_vars
  PROVE  Alone'
<1>. USE ConstantsAssumption, SentinelsAssumption
   DEF vars, threadVars, lockVars, cmdVars, bhVars, chipVars, freezeVars,
       busVars,
       CommandInv, TypeOK, CmdPcs, FlushPcs, RenewPcs, TimelyInv, Alone,
       Closing
<1>1. CASE \E p \in Procs : Thread(p)
  <2>. PICK p \in Procs : Thread(p)  BY <1>1
  <2>1. CASE \E id \in Ids \cup {ShutDown} : Call(p, id)
    <3>. PICK id \in Ids \cup {ShutDown} : Call(p, id)  BY <2>1
    <3>1. /\ pc[p] = "idle" /\ ~Closing /\ (id = ShutDown => Idle)
          /\ UNCHANGED <<done, cnfCmd, bhPc>>
          /\ pc' = [pc EXCEPT ![p] = "check"]
          /\ \A q \in Procs : q # p => req'[q] = req[q]
          /\ req'[p].id = id
      BY DEF Call, Goto, At
    <3>2. CASE id # ShutDown
      BY <3>1, <3>2 DEF Closing
    <3>3. CASE id = ShutDown
      <4>1. bufSend = None
        BY <3>1, <3>3
           DEF Idle, At, LockInv, BufSendProtected, InFlight, Requests
      <4>2. ~ShutDownBegun
        BY <3>1 DEF Closing, ShutDownBegun
      <4>3. Settled
        BY <4>1, <4>2 DEF Own
      <4>4. done = 0 /\ cnfCmd = {} /\ bhPc # "confirm"
        BY <4>3 DEF Settled, MessageInHand
      <4>. QED  BY <3>1, <3>3, <4>4 DEF Idle, At, Closing
    <3>. QED  BY <3>2, <3>3
  <2>2. CASE CallFlush(p)
    BY <2>2 DEF CallFlush, Goto, At
  <2>3. CASE CallRenew(p)
    BY <2>3 DEF CallRenew, Goto, At
  <2>4. CASE Check(p)
    BY <2>4 DEF Check, Goto, At, RenewInv, ThreadOps
  <2>5. CASE TakeRenewLock(p)
    BY <2>5 DEF TakeRenewLock, Goto, At
  <2>6. CASE TakeLock(p)
    BY <2>6 DEF TakeLock, Goto, At
  <2>7. CASE Publish(p)
    BY <2>7 DEF Publish, Goto, At
  <2>8. CASE Kick(p)
    BY <2>8 DEF Kick, Goto, At
  <2>9. CASE Slept(p)
    BY <2>9 DEF Slept, Goto, At
  <2>10. CASE Answered(p)
    BY <2>10 DEF Answered, Goto, At
  <2>11. CASE FirstTimeout(p)
    BY <2>11 DEF FirstTimeout, Goto, At
  <2>12. CASE SecondTimeout(p)
    BY <2>12 DEF SecondTimeout, Goto, At
  <2>13. CASE GiveUp(p)
    BY <2>13 DEF GiveUp, Goto, At
  <2>14. CASE Collect(p)
    BY <2>14 DEF Collect, Goto, At
  <2>15. CASE Release(p)
    BY <2>15 DEF Release, Goto, At, RenewInv, ThreadOps
  <2>16. CASE FlushCheck(p)
    BY <2>16 DEF FlushCheck, Goto, At, AfterFlush
  <2>17. CASE FlushLock(p)
    BY <2>17 DEF FlushLock, Goto, At
  <2>18. CASE FlushEmpty(p)
    BY <2>18 DEF FlushEmpty, Goto, At
  <2>19. CASE FlushTimeout(p)
    BY <2>19 DEF FlushTimeout, Goto, At
  <2>20. CASE FlushRelease(p)
    BY <2>20 DEF FlushRelease, Goto, At, AfterFlush, TxUnlock
  <2>21. CASE RenewLock(p)
    BY <2>21 DEF RenewLock, Goto, At, AllIds, Requests
  <2>22. CASE RenewUnlock(p)
    BY <2>22 DEF RenewUnlock, Goto, At, TxUnlock
  <2>. QED
    BY <2>1, <2>2, <2>3, <2>4, <2>5, <2>6, <2>7, <2>8, <2>9, <2>10, <2>11,
       <2>12, <2>13, <2>14, <2>15, <2>16, <2>17, <2>18, <2>19, <2>20, <2>21,
       <2>22
       DEF Thread
<1>2. CASE SubmitFrame
  BY <1>2 DEF SubmitFrame
<1>3. CASE BottomHalf
  <2>1. CASE BhStart
    BY <2>1 DEF BhStart
  <2>2. CASE BhTakeCmd
    BY <2>2 DEF BhTakeCmd, HasBuffer
  <2>3. CASE BhTakeFrame
    BY <2>3 DEF BhTakeFrame, HasBuffer
  <2>4. CASE BhNothingToSend
    BY <2>4 DEF BhNothingToSend
  <2>5. CASE BhSend
    BY <2>5 DEF BhSend, FirstFreeCopy, Messages
  <2>6. CASE BhSendFails
    BY <2>6 DEF BusWorks, BhSendFails
  <2>7. CASE \E n \in 1 .. cnfTx : BhReadFrames(n)
    BY <2>7 DEF BhReadFrames
  <2>8. CASE \E m \in cnfCmd : BhReadAnswer(m)
    BY <2>8 DEF BhReadAnswer, Matches
  <2>9. CASE BhConfirm
    BY <2>9 DEF BhConfirm
  <2>10. CASE BhReadException
    BY <2>10 DEF BhReadException
  <2>11. CASE BhReadFails
    BY <2>11 DEF BusWorks, BhReadFails, BhNextIteration
  <2>12. CASE BhNothingToRead
    BY <2>12 DEF BhNothingToRead, BhNextIteration
  <2>13. CASE BhReadTooHot
    BY <2>13 DEF BhReadTooHot
  <2>. QED
    BY <1>3, <2>1, <2>2, <2>3, <2>4, <2>5, <2>6, <2>7, <2>8, <2>9, <2>10,
       <2>11, <2>12, <2>13
       DEF BottomHalf
<1>4. CASE Chip
  <2>1. CASE ChipConfirmsFrame
    BY <2>1 DEF ChipConfirmsFrame
  <2>2. CASE \E m \in chipCmd : ChipAnswers(m)
    <3>. PICK m \in chipCmd : ChipAnswers(m)  BY <2>2
    <3>1. m.req \in Requests /\ m.req.id # ShutDown /\ ~hung
      BY DEF ChipAnswers, Messages
    <3>2. bufSend = m.req /\ bufSend # None
      BY <3>1 DEF Own
    <3>3. lock \in Procs /\ req[lock] = m.req /\ pc[lock] # "idle"
      BY <3>1, <3>2 DEF LockInv, BufSendProtected, InFlight, Requests
    <3>4. ASSUME NEW p \in Procs, req[p] # None, req[p].id = ShutDown
          PROVE  FALSE
      BY <3>1, <3>3, <3>4
    <3>. QED  BY <3>4 DEF ChipAnswers
  <2>3. CASE ChipShutsDown
    BY <2>3 DEF ChipShutsDown
  <2>4. CASE ChipHangs
    BY <2>4 DEF ChipHangs
  <2>5. CASE ChipReportsError
    BY <2>5 DEF ChipReportsError
  <2>. QED  BY <1>4, <2>1, <2>2, <2>3, <2>4, <2>5 DEF Chip
<1>5. CASE UNCHANGED vars
  BY <1>5
<1>6. CASE CoolingTimeout
  BY <1>6 DEF CoolingTimeout, TxUnlock
<1>. QED  BY <1>1, <1>2, <1>3, <1>4, <1>5, <1>6 DEF Next

\* Every step moves a request from one place to the next.
LEMMA OnceNext ==
  ASSUME ~LateAnswers, MaxBusErrors = 0,
         CommandInv, LockInv, CreditInv, RenewInv,
         TimelyInv, [Next]_vars
  PROVE  Once'
<1>. USE ConstantsAssumption, SentinelsAssumption
   DEF vars, threadVars, lockVars, cmdVars, bhVars, chipVars, freezeVars,
       busVars,
       CommandInv, TypeOK, CmdPcs, FlushPcs, RenewPcs, TimelyInv, Once, Sent,
       Own, Fresh, Old, Unpublished, Settled, LockInv, LockOwned, LockPcs,
       BufSendProtected, InFlight, Phases, PublishedPcs, Alone, ShutDownBegun,
       MessageInHand, Requests
<1>1. CASE \E p \in Procs : Thread(p)
  <2>. PICK p \in Procs : Thread(p)  BY <1>1
  <2>1. CASE \E id \in Ids \cup {ShutDown} : Call(p, id)
    BY <2>1 DEF Call, Goto, At, AllIds, Requests
  <2>2. CASE CallFlush(p)
    BY <2>2 DEF CallFlush, Goto, At
  <2>3. CASE CallRenew(p)
    BY <2>3 DEF CallRenew, Goto, At
  <2>4. CASE Check(p)
    BY <2>4 DEF Check, Goto, At
  <2>5. CASE TakeRenewLock(p)
    BY <2>5 DEF TakeRenewLock, Goto, At
  <2>6. CASE TakeLock(p)
    BY <2>6 DEF TakeLock, Goto, At
  <2>7. CASE Publish(p)
    <3>1. Settled /\ ~Sent(req[p])
      BY <2>7, PublishesFresh DEF Publish, At
    <3>. QED  BY <2>7, <3>1 DEF Publish, Goto, At
  <2>8. CASE Kick(p)
    BY <2>8 DEF Kick, Goto, At
  <2>9. CASE Slept(p)
    BY <2>9 DEF Slept, Goto, At
  <2>10. CASE Answered(p)
    BY <2>10 DEF Answered, Goto, At
  <2>11. CASE FirstTimeout(p)
    BY <2>11 DEF FirstTimeout, Goto, At
  <2>12. CASE SecondTimeout(p)
    BY <2>12 DEF SecondTimeout, Goto, At
  <2>13. CASE GiveUp(p)
    BY <2>13 DEF GiveUp, Goto, At
  <2>14. CASE Collect(p)
    BY <2>14 DEF Collect, Goto, At
  <2>15. CASE Release(p)
    BY <2>15 DEF Release, Goto, At
  <2>16. CASE FlushCheck(p)
    BY <2>16 DEF FlushCheck, Goto, At, AfterFlush
  <2>17. CASE FlushLock(p)
    BY <2>17 DEF FlushLock, Goto, At
  <2>18. CASE FlushEmpty(p)
    BY <2>18 DEF FlushEmpty, Goto, At
  <2>19. CASE FlushTimeout(p)
    BY <2>19 DEF FlushTimeout, Goto, At
  <2>20. CASE FlushRelease(p)
    BY <2>20 DEF FlushRelease, Goto, At, AfterFlush, TxUnlock
  <2>21. CASE RenewLock(p)
    BY <2>21 DEF RenewLock, Goto, At, AllIds, Requests
  <2>22. CASE RenewUnlock(p)
    BY <2>22 DEF RenewUnlock, Goto, At, TxUnlock
  <2>. QED
    BY <2>1, <2>2, <2>3, <2>4, <2>5, <2>6, <2>7, <2>8, <2>9, <2>10, <2>11,
       <2>12, <2>13, <2>14, <2>15, <2>16, <2>17, <2>18, <2>19, <2>20, <2>21,
       <2>22
       DEF Thread
<1>2. CASE SubmitFrame
  BY <1>2 DEF SubmitFrame
<1>3. CASE BottomHalf
  <2>1. CASE BhStart
    BY <2>1 DEF BhStart
  <2>2. CASE BhTakeCmd
    BY <2>2 DEF BhTakeCmd, HasBuffer
  <2>3. CASE BhTakeFrame
    BY <2>3 DEF BhTakeFrame, HasBuffer
  <2>4. CASE BhNothingToSend
    BY <2>4 DEF BhNothingToSend
  <2>5. CASE BhSend
    <3>1. /\ UNCHANGED <<bufSend, hifRet, ready, done, cnfCmd>>
          /\ bhMsg' = None /\ None \notin Requests
      BY <2>5 DEF BhSend
    <3>2. \A r : Sent(r)' <=> (Sent(r) \/ (bhMsg \in Requests /\ r = bhMsg))
      BY <2>5, SentAfterSend
    <3>3. CASE bhMsg = Frame
      BY <2>5, <3>1, <3>3, SendsInHand
    <3>4. CASE bhMsg # Frame
      <4>1. bhMsg \in Requests /\ ready = 0 /\ done = 0 /\ ~Sent(bhMsg)
        BY <2>5, <3>4, SendsInHand
      <4>2. PICK m \in Messages :
                m.req = bhMsg /\ chipCmd' = chipCmd \cup {m}
        BY <2>5, <3>4, SendsInHand
      <4>3. \A n \in chipCmd \cup cnfCmd : n.req # m.req
        BY <4>1, <4>2
      <4>4. \A n, k \in chipCmd' \cup cnfCmd' : n.req = k.req => n = k
        BY <3>1, <4>2, <4>3
      <4>. QED  BY <3>1, <4>1, <4>4
    <3>. QED  BY <3>3, <3>4
  <2>6. CASE BhSendFails
    BY <2>6 DEF BusWorks, BhSendFails
  <2>7. CASE \E n \in 1 .. cnfTx : BhReadFrames(n)
    BY <2>7 DEF BhReadFrames
  <2>8. CASE \E m \in cnfCmd : BhReadAnswer(m)
    <3>. PICK m \in cnfCmd : BhReadAnswer(m)  BY <2>8
    <3>1. /\ UNCHANGED <<bufSend, hifRet, ready, done, chipCmd>>
          /\ cnfCmd' = cnfCmd \ {m}
          /\ bhMsg' \in {bhMsg, m.req} /\ bhPc = "rx"
      BY DEF BhReadAnswer
    <3>2. m.req = bufSend /\ ready = 0 /\ done = 0 /\ m \notin chipCmd
          /\ bhMsg \notin Requests
      BY <3>1 DEF CreditInv, CreditsReserved
    <3>3. ~Sent(m.req)'
      BY <3>1, <3>2
    <3>. QED  BY <3>1, <3>2, <3>3
  <2>9. CASE BhConfirm
    BY <2>9 DEF BhConfirm
  <2>10. CASE BhReadException
    BY <2>10 DEF BhReadException
  <2>11. CASE BhReadFails
    BY <2>11 DEF BusWorks, BhReadFails, BhNextIteration
  <2>12. CASE BhNothingToRead
    BY <2>12 DEF BhNothingToRead, BhNextIteration
  <2>13. CASE BhReadTooHot
    BY <2>13 DEF BhReadTooHot
  <2>. QED
    BY <1>3, <2>1, <2>2, <2>3, <2>4, <2>5, <2>6, <2>7, <2>8, <2>9, <2>10,
       <2>11, <2>12, <2>13
       DEF BottomHalf
<1>4. CASE Chip
  <2>1. CASE ChipConfirmsFrame
    BY <2>1 DEF ChipConfirmsFrame
  <2>2. CASE \E m \in chipCmd : ChipAnswers(m)
    <3>. PICK m \in chipCmd : ChipAnswers(m)  BY <2>2
    <3>1. /\ UNCHANGED <<bufSend, hifRet, ready, done, bhMsg>>
          /\ chipCmd' = chipCmd \ {m} /\ cnfCmd' = cnfCmd \cup {m}
          /\ ~hung /\ m.req.id # ShutDown
      BY DEF ChipAnswers
    <3>2. m.req = bufSend /\ m.req \in Requests /\ bufSend # None
      BY <3>1 DEF Messages
    <3>3. chipCmd' \cup cnfCmd' = chipCmd \cup cnfCmd
      BY <3>1
    <3>4. \A r : Sent(r)' <=> Sent(r)
      BY <3>3
    <3>5. Sent(bufSend)
      BY <3>2
    <3>6. ready = 0 /\ done = 0
      BY <3>2, <3>5
    <3>. HIDE DEF Sent
    <3>. QED  BY <3>1, <3>3, <3>4, <3>6
  <2>3. CASE ChipShutsDown
    BY <2>3 DEF ChipShutsDown
  <2>4. CASE ChipHangs
    BY <2>4 DEF ChipHangs
  <2>5. CASE ChipReportsError
    BY <2>5 DEF ChipReportsError
  <2>. QED  BY <1>4, <2>1, <2>2, <2>3, <2>4, <2>5 DEF Chip
<1>5. CASE UNCHANGED vars
  BY <1>5
<1>6. CASE CoolingTimeout
  BY <1>6 DEF CoolingTimeout, TxUnlock
<1>. QED  BY <1>1, <1>2, <1>3, <1>4, <1>5, <1>6 DEF Next

\* A request is withdrawn or answered before the next one is published.
LEMMA OwnNext ==
  ASSUME ~LateAnswers, MaxBusErrors = 0,
         CommandInv, LockInv, CreditInv, RenewInv,
         TimelyInv, [Next]_vars
  PROVE  Own'
<1>. USE ConstantsAssumption, SentinelsAssumption
   DEF vars, threadVars, lockVars, cmdVars, bhVars, chipVars, freezeVars,
       busVars,
       CommandInv, TypeOK, CmdPcs, FlushPcs, RenewPcs, TimelyInv, Own, Sent,
       Settled, LockInv, LockOwned, LockPcs, BufSendProtected, InFlight,
       Phases, PublishedPcs, Alone, ShutDownBegun, MessageInHand, Requests,
       Once
<1>1. CASE \E p \in Procs : Thread(p)
  <2>. PICK p \in Procs : Thread(p)  BY <1>1
  <2>1. CASE \E id \in Ids \cup {ShutDown} : Call(p, id)
    <3>. PICK id \in Ids \cup {ShutDown} : Call(p, id)  BY <2>1
    <3>1. ~ShutDownBegun /\ \A q \in Procs : req[q] # None => req[q].id # ShutDown
      BY DEF Call, Closing
    <3>2. \A r \in Requests : ~(r.id = ShutDown /\ req[r.by] = r)
      BY <3>1
    <3>3. /\ UNCHANGED <<bhPc, bhMsg, bufSend, chipCmd, cnfCmd, hung, ready, done>>
          /\ \A q \in Procs : q # p => req'[q] = req[q]
      BY DEF Call
    <3>4. bhPc = "send" => bhMsg \in Requests \cup {Frame}
      OBVIOUS
    <3>5. \A m \in chipCmd : m.req \in Requests
      BY DEF Messages
    <3>. HIDE DEF ShutDownBegun
    <3>. QED  BY <3>1, <3>2, <3>3, <3>4, <3>5
  <2>2. CASE CallFlush(p)
    <3>1. ~ShutDownBegun
      BY <2>2 DEF CallFlush, Closing
    <3>. HIDE DEF ShutDownBegun
    <3>. QED  BY <2>2, <3>1 DEF CallFlush, Goto, At
  <2>3. CASE CallRenew(p)
    <3>1. ~ShutDownBegun
      BY <2>3 DEF CallRenew, Closing
    <3>. HIDE DEF ShutDownBegun
    <3>. QED  BY <2>3, <3>1 DEF CallRenew, Goto, At
  <2>4. CASE Check(p)
    BY <2>4 DEF Check, Goto, At
  <2>5. CASE TakeRenewLock(p)
    BY <2>5 DEF TakeRenewLock, Goto, At
  <2>6. CASE TakeLock(p)
    BY <2>6 DEF TakeLock, Goto, At
  <2>7. CASE Publish(p)
    <3>1. bufSend = None /\ Settled
      BY <2>7, PublishesFresh DEF Publish, At
    <3>2. /\ bufSend' = req[p] /\ req[p] \in Requests
          /\ UNCHANGED <<req, bhPc, bhMsg, chipCmd, cnfCmd, hung>>
      BY <2>7 DEF Publish, At, LockInv, RequestMade
    <3>3. bhPc # "confirm" /\ (bhPc = "send" => bhMsg = Frame)
      BY <3>1
    <3>4. \A m \in chipCmd : m.req # bufSend
      BY <3>1 DEF Messages
    <3>. QED  BY <3>1, <3>2, <3>3, <3>4
  <2>8. CASE Kick(p)
    BY <2>8 DEF Kick, Goto, At
  <2>9. CASE Slept(p)
    BY <2>9 DEF Slept, Goto, At
  <2>10. CASE Answered(p)
    BY <2>10 DEF Answered, Goto, At
  <2>11. CASE FirstTimeout(p)
    BY <2>11 DEF FirstTimeout, Goto, At
  <2>12. CASE SecondTimeout(p)
    BY <2>12 DEF SecondTimeout, Goto, At
  <2>13. CASE GiveUp(p)
    BY <2>13 DEF GiveUp, Goto, At
  <2>14. CASE Collect(p)
    BY <2>14 DEF Collect, Goto, At
  <2>15. CASE Release(p)
    <3>1. /\ bufSend = req[p] /\ bufSend' = None
          /\ req[p] \in Requests /\ req[p].by = p
          /\ UNCHANGED <<req, bhPc, bhMsg, chipCmd, cnfCmd, hung, ready, done>>
      BY <2>15 DEF Release, At, RequestMade
    <3>2. CASE req[p].id # ShutDown
      <4>1. Settled /\ (hung \/ ~Sent(req[p]))
        BY <2>15, <3>2 DEF Release, At
      <4>2. bhPc # "confirm" /\ (bhPc = "send" => bhMsg = Frame)
        BY <4>1
      <4>3. hung \/ \A m \in chipCmd : m.req # bufSend
        BY <3>1, <4>1
      <4>. QED  BY <3>1, <4>1, <4>2, <4>3
    <3>3. CASE req[p].id = ShutDown
      <4>1. done = 0 /\ cnfCmd = {} /\ bhPc # "confirm"
        BY <3>1, <3>3
      <4>2. ShutDownBegun'
        <5>1. op[p] # "renew"
          BY <2>15, <3>3 DEF Release, At, RenewInv, ThreadOps
        <5>2. pc'[p] = "idle" /\ req'[p] = req[p]
          BY <2>15, <5>1 DEF Release, Goto
        <5>. QED  BY <3>1, <3>3, <5>2
      <4>3. \A m \in chipCmd : m.req = bufSend => req[m.req.by] = m.req
        BY <3>1
      <4>. HIDE DEF ShutDownBegun
      <4>. QED  BY <3>1, <3>3, <4>1, <4>2, <4>3
    <3>. QED  BY <3>2, <3>3
  <2>16. CASE FlushCheck(p)
    BY <2>16 DEF FlushCheck, Goto, At, AfterFlush
  <2>17. CASE FlushLock(p)
    BY <2>17 DEF FlushLock, Goto, At
  <2>18. CASE FlushEmpty(p)
    BY <2>18 DEF FlushEmpty, Goto, At
  <2>19. CASE FlushTimeout(p)
    BY <2>19 DEF FlushTimeout, Goto, At
  <2>20. CASE FlushRelease(p)
    BY <2>20 DEF FlushRelease, Goto, At, AfterFlush, TxUnlock
  <2>21. CASE RenewLock(p)
    <3>1. /\ UNCHANGED <<bhPc, bhMsg, bufSend, chipCmd, cnfCmd, hung, ready, done>>
          /\ \A q \in Procs : q # p => req'[q] = req[q]
          /\ pc[p] = "slLock" /\ pc' = [pc EXCEPT ![p] = "check"]
      BY <2>21 DEF RenewLock, Goto, At
    <3>2. \A q \in Procs : req[q] = None \/ req[q].id # ShutDown
      BY <3>1
    <3>3. \A r \in Requests : ~(r.id = ShutDown /\ req[r.by] = r)
      BY <3>2
    <3>4. ~ShutDownBegun
      BY <3>2
    <3>5. \A m \in chipCmd : m.req \in Requests
      BY DEF Messages
    <3>. HIDE DEF ShutDownBegun
    <3>. QED  BY <3>1, <3>3, <3>4, <3>5
  <2>22. CASE RenewUnlock(p)
    BY <2>22 DEF RenewUnlock, Goto, At, TxUnlock
  <2>. QED
    BY <2>1, <2>2, <2>3, <2>4, <2>5, <2>6, <2>7, <2>8, <2>9, <2>10, <2>11,
       <2>12, <2>13, <2>14, <2>15, <2>16, <2>17, <2>18, <2>19, <2>20, <2>21,
       <2>22
       DEF Thread
<1>2. CASE SubmitFrame
  BY <1>2 DEF SubmitFrame
<1>3. CASE BottomHalf
  <2>1. CASE BhStart
    BY <2>1 DEF BhStart
  <2>2. CASE BhTakeCmd
    BY <2>2 DEF BhTakeCmd, HasBuffer
  <2>3. CASE BhTakeFrame
    BY <2>3 DEF BhTakeFrame, HasBuffer
  <2>4. CASE BhNothingToSend
    BY <2>4 DEF BhNothingToSend
  <2>5. CASE BhSend
    <3>1. /\ UNCHANGED <<pc, req, bufSend, ready, done, hung, cnfCmd>>
          /\ bhMsg' = None /\ bhPc' = "tx" /\ bhPc = "send"
          /\ None \notin Requests
      BY <2>5 DEF BhSend
    <3>2. \A m \in chipCmd' :
             m \in chipCmd \/ (m.req = bhMsg /\ bhMsg # Frame)
      BY <2>5, SendsInHand
    <3>3. ShutDownBegun' <=> ShutDownBegun
      BY <3>1
    <3>. HIDE DEF ShutDownBegun
    <3>. QED  BY <3>1, <3>2, <3>3
  <2>6. CASE BhSendFails
    BY <2>6 DEF BusWorks, BhSendFails
  <2>7. CASE \E n \in 1 .. cnfTx : BhReadFrames(n)
    BY <2>7 DEF BhReadFrames
  <2>8. CASE \E m \in cnfCmd : BhReadAnswer(m)
    BY <2>8 DEF BhReadAnswer, Matches
  <2>9. CASE BhConfirm
    BY <2>9 DEF BhConfirm
  <2>10. CASE BhReadException
    BY <2>10 DEF BhReadException
  <2>11. CASE BhReadFails
    BY <2>11 DEF BusWorks, BhReadFails, BhNextIteration
  <2>12. CASE BhNothingToRead
    BY <2>12 DEF BhNothingToRead, BhNextIteration
  <2>13. CASE BhReadTooHot
    BY <2>13 DEF BhReadTooHot
  <2>. QED
    BY <1>3, <2>1, <2>2, <2>3, <2>4, <2>5, <2>6, <2>7, <2>8, <2>9, <2>10,
       <2>11, <2>12, <2>13
       DEF BottomHalf
<1>4. CASE Chip
  <2>1. CASE ChipConfirmsFrame
    BY <2>1 DEF ChipConfirmsFrame
  <2>2. CASE \E m \in chipCmd : ChipAnswers(m)
    <3>. PICK m \in chipCmd : ChipAnswers(m)  BY <2>2
    <3>1. /\ UNCHANGED <<pc, req, bufSend, bhPc, bhMsg, ready, done, hung>>
          /\ chipCmd' = chipCmd \ {m} /\ cnfCmd' = cnfCmd \cup {m}
          /\ ~hung /\ m.req.id # ShutDown
      BY DEF ChipAnswers
    <3>2. m.req = bufSend /\ bufSend # None
      BY <3>1 DEF Messages
    <3>. HIDE DEF ShutDownBegun
    <3>. QED  BY <3>1, <3>2
  <2>3. CASE ChipShutsDown
    BY <2>3 DEF ChipShutsDown
  <2>4. CASE ChipHangs
    BY <2>4 DEF ChipHangs
  <2>5. CASE ChipReportsError
    BY <2>5 DEF ChipReportsError
  <2>. QED  BY <1>4, <2>1, <2>2, <2>3, <2>4, <2>5 DEF Chip
<1>5. CASE UNCHANGED vars
  BY <1>5
<1>6. CASE CoolingTimeout
  BY <1>6 DEF CoolingTimeout, TxUnlock
<1>. QED  BY <1>1, <1>2, <1>3, <1>4, <1>5, <1>6 DEF Next

\* A thread's progress follows its request.
LEMMA PhasesNext ==
  ASSUME ~LateAnswers, MaxBusErrors = 0,
         CommandInv, LockInv, CreditInv, RenewInv,
         TimelyInv, [Next]_vars
  PROVE  Phases'
<1>. USE ConstantsAssumption, SentinelsAssumption
   DEF vars, threadVars, lockVars, cmdVars, bhVars, chipVars, freezeVars,
       busVars,
       CommandInv, TypeOK, CmdPcs, FlushPcs, RenewPcs, TimelyInv, Phases,
       PublishedPcs, Settled, Sent, Own, Once, Hopeless, Overdue, OverdueOnce,
       Noticed, BhQuiet, LockInv, LockOwned, LockPcs, BufSendProtected,
       InFlight, Alone, Requests, RequestMade
<1>1. CASE \E p \in Procs : Thread(p)
  <2>. PICK p \in Procs : Thread(p)  BY <1>1
  <2>1. CASE \E id \in Ids \cup {ShutDown} : Call(p, id)
    BY <2>1 DEF Call, Goto, At, AllIds, Requests
  <2>2. CASE CallFlush(p)
    BY <2>2 DEF CallFlush, Goto, At
  <2>3. CASE CallRenew(p)
    BY <2>3 DEF CallRenew, Goto, At
  <2>4. CASE Check(p)
    BY <2>4 DEF Check, Goto, At
  <2>5. CASE TakeRenewLock(p)
    BY <2>5 DEF TakeRenewLock, Goto, At
  <2>6. CASE TakeLock(p)
    BY <2>6 DEF TakeLock, Goto, At
  <2>7. CASE Publish(p)
    <3>1. Settled
      BY <2>7, PublishesFresh DEF Publish, At
    <3>. QED  BY <2>7, <3>1 DEF Publish, Goto, At
  <2>8. CASE Kick(p)
    BY <2>8 DEF Kick, Goto, At
  <2>9. CASE Slept(p)
    BY <2>9 DEF Slept, Goto, At
  <2>10. CASE Answered(p)
    BY <2>10 DEF Answered, Goto, At
  <2>11. CASE FirstTimeout(p)
    BY <2>11 DEF FirstTimeout, Goto, At
  <2>12. CASE SecondTimeout(p)
    BY <2>12 DEF SecondTimeout, Goto, At
  <2>13. CASE GiveUp(p)
    BY <2>13 DEF GiveUp, Goto, At
  <2>14. CASE Collect(p)
    BY <2>14 DEF Collect, Goto, At
  <2>15. CASE Release(p)
    BY <2>15 DEF Release, Goto, At
  <2>16. CASE FlushCheck(p)
    BY <2>16 DEF FlushCheck, Goto, At, AfterFlush
  <2>17. CASE FlushLock(p)
    BY <2>17 DEF FlushLock, Goto, At
  <2>18. CASE FlushEmpty(p)
    BY <2>18 DEF FlushEmpty, Goto, At
  <2>19. CASE FlushTimeout(p)
    BY <2>19 DEF FlushTimeout, Goto, At
  <2>20. CASE FlushRelease(p)
    BY <2>20 DEF FlushRelease, Goto, At, AfterFlush, TxUnlock
  <2>21. CASE RenewLock(p)
    BY <2>21 DEF RenewLock, Goto, At, AllIds, Requests
  <2>22. CASE RenewUnlock(p)
    BY <2>22 DEF RenewUnlock, Goto, At, TxUnlock
  <2>. QED
    BY <2>1, <2>2, <2>3, <2>4, <2>5, <2>6, <2>7, <2>8, <2>9, <2>10, <2>11,
       <2>12, <2>13, <2>14, <2>15, <2>16, <2>17, <2>18, <2>19, <2>20, <2>21,
       <2>22
       DEF Thread
<1>2. CASE SubmitFrame
  BY <1>2 DEF SubmitFrame
<1>3. CASE BottomHalf
  <2>1. CASE BhStart
    BY <2>1 DEF BhStart
  <2>2. CASE BhTakeCmd
    BY <2>2 DEF BhTakeCmd, HasBuffer
  <2>3. CASE BhTakeFrame
    BY <2>3 DEF BhTakeFrame, HasBuffer
  <2>4. CASE BhNothingToSend
    BY <2>4 DEF BhNothingToSend
  <2>5. CASE BhSend
    <3>1. /\ UNCHANGED <<pc, req, bufSend, hifRet, ready, done, hung, cnfCmd>>
          /\ bhMsg' = None
      BY <2>5 DEF BhSend
    <3>2. \A r : Sent(r)' <=> (Sent(r) \/ (bhMsg \in Requests /\ r = bhMsg))
      BY <2>5, SentAfterSend
    <3>3. Settled => Settled' /\ bhMsg \notin Requests
      BY <3>1 DEF Settled
    <3>. HIDE DEF Sent, Settled
    <3>4. ASSUME NEW p \in Procs,
                 pc[p] \in {"kick", "wait", "waitMore"}, ~hung
          PROVE  (ready = 1 \/ bhMsg = req[p] \/ Sent(req[p]) \/ done = 1)'
      <4>1. req[p] \in Requests
        BY <3>4 DEF LockInv, RequestMade
      <4>. QED  BY <3>1, <3>2, <3>4, <4>1
    <3>. QED  BY <3>1, <3>2, <3>3, <3>4
  <2>6. CASE BhSendFails
    BY <2>6 DEF BusWorks, BhSendFails
  <2>7. CASE \E n \in 1 .. cnfTx : BhReadFrames(n)
    BY <2>7 DEF BhReadFrames
  <2>8. CASE \E m \in cnfCmd : BhReadAnswer(m)
    BY <2>8 DEF BhReadAnswer, Matches
  <2>9. CASE BhConfirm
    BY <2>9 DEF BhConfirm
  <2>10. CASE BhReadException
    BY <2>10 DEF BhReadException
  <2>11. CASE BhReadFails
    BY <2>11 DEF BusWorks, BhReadFails, BhNextIteration
  <2>12. CASE BhNothingToRead
    BY <2>12 DEF BhNothingToRead, BhNextIteration
  <2>13. CASE BhReadTooHot
    BY <2>13 DEF BhReadTooHot
  <2>. QED
    BY <1>3, <2>1, <2>2, <2>3, <2>4, <2>5, <2>6, <2>7, <2>8, <2>9, <2>10,
       <2>11, <2>12, <2>13
       DEF BottomHalf
<1>4. CASE Chip
  <2>1. CASE ChipConfirmsFrame
    BY <2>1 DEF ChipConfirmsFrame
  <2>2. CASE \E m \in chipCmd : ChipAnswers(m)
    BY <2>2 DEF ChipAnswers
  <2>3. CASE ChipShutsDown
    BY <2>3 DEF ChipShutsDown
  <2>4. CASE ChipHangs
    BY <2>4 DEF ChipHangs
  <2>5. CASE ChipReportsError
    BY <2>5 DEF ChipReportsError
  <2>. QED  BY <1>4, <2>1, <2>2, <2>3, <2>4, <2>5 DEF Chip
<1>5. CASE UNCHANGED vars
  BY <1>5
<1>6. CASE CoolingTimeout
  BY <1>6 DEF CoolingTimeout, TxUnlock
<1>. QED  BY <1>1, <1>2, <1>3, <1>4, <1>5, <1>6 DEF Next

\* The status that is returned was collected from the thread's own request.
LEMMA AnswersNext ==
  ASSUME ~LateAnswers, MaxBusErrors = 0,
         CommandInv, LockInv, CreditInv, RenewInv,
         TimelyInv, [Next]_vars
  PROVE  Answers'
<1>. USE ConstantsAssumption, SentinelsAssumption
   DEF vars, threadVars, lockVars, cmdVars, bhVars, chipVars, freezeVars,
       busVars,
       CommandInv, TypeOK, CmdPcs, FlushPcs, RenewPcs, TimelyInv, Answers,
       Phases, ThreadOps, RenewInv, Requests, Returns
<1>1. CASE \E p \in Procs : Thread(p)
  <2>. PICK p \in Procs : Thread(p)  BY <1>1
  <2>1. CASE \E id \in Ids \cup {ShutDown} : Call(p, id)
    BY <2>1 DEF Call, Goto, At, AllIds, Requests
  <2>2. CASE CallFlush(p)
    BY <2>2 DEF CallFlush, Goto, At
  <2>3. CASE CallRenew(p)
    BY <2>3 DEF CallRenew, Goto, At
  <2>4. CASE Check(p)
    BY <2>4 DEF Check, Goto, At
  <2>5. CASE TakeRenewLock(p)
    BY <2>5 DEF TakeRenewLock, Goto, At
  <2>6. CASE TakeLock(p)
    BY <2>6 DEF TakeLock, Goto, At
  <2>7. CASE Publish(p)
    BY <2>7 DEF Publish, Goto, At
  <2>8. CASE Kick(p)
    BY <2>8 DEF Kick, Goto, At
  <2>9. CASE Slept(p)
    BY <2>9 DEF Slept, Goto, At
  <2>10. CASE Answered(p)
    BY <2>10 DEF Answered, Goto, At
  <2>11. CASE FirstTimeout(p)
    BY <2>11 DEF FirstTimeout, Goto, At
  <2>12. CASE SecondTimeout(p)
    BY <2>12 DEF SecondTimeout, Goto, At
  <2>13. CASE GiveUp(p)
    BY <2>13 DEF GiveUp, Goto, At
  <2>14. CASE Collect(p)
    BY <2>14 DEF Collect, Goto, At
  <2>15. CASE Release(p)
    BY <2>15 DEF Release, Goto, At
  <2>16. CASE FlushCheck(p)
    BY <2>16 DEF FlushCheck, Goto, At, AfterFlush
  <2>17. CASE FlushLock(p)
    BY <2>17 DEF FlushLock, Goto, At
  <2>18. CASE FlushEmpty(p)
    BY <2>18 DEF FlushEmpty, Goto, At
  <2>19. CASE FlushTimeout(p)
    BY <2>19 DEF FlushTimeout, Goto, At
  <2>20. CASE FlushRelease(p)
    BY <2>20 DEF FlushRelease, Goto, At, AfterFlush, TxUnlock
  <2>21. CASE RenewLock(p)
    BY <2>21 DEF RenewLock, Goto, At, AllIds, Requests
  <2>22. CASE RenewUnlock(p)
    BY <2>22 DEF RenewUnlock, Goto, At, TxUnlock
  <2>. QED
    BY <2>1, <2>2, <2>3, <2>4, <2>5, <2>6, <2>7, <2>8, <2>9, <2>10, <2>11,
       <2>12, <2>13, <2>14, <2>15, <2>16, <2>17, <2>18, <2>19, <2>20, <2>21,
       <2>22
       DEF Thread
<1>2. CASE SubmitFrame
  BY <1>2 DEF SubmitFrame
<1>3. CASE BottomHalf
  <2>1. CASE BhStart
    BY <2>1 DEF BhStart
  <2>2. CASE BhTakeCmd
    BY <2>2 DEF BhTakeCmd, HasBuffer
  <2>3. CASE BhTakeFrame
    BY <2>3 DEF BhTakeFrame, HasBuffer
  <2>4. CASE BhNothingToSend
    BY <2>4 DEF BhNothingToSend
  <2>5. CASE BhSend
    BY <2>5 DEF BhSend, FirstFreeCopy, Messages
  <2>6. CASE BhSendFails
    BY <2>6 DEF BusWorks, BhSendFails
  <2>7. CASE \E n \in 1 .. cnfTx : BhReadFrames(n)
    BY <2>7 DEF BhReadFrames
  <2>8. CASE \E m \in cnfCmd : BhReadAnswer(m)
    BY <2>8 DEF BhReadAnswer, Matches
  <2>9. CASE BhConfirm
    BY <2>9 DEF BhConfirm
  <2>10. CASE BhReadException
    BY <2>10 DEF BhReadException
  <2>11. CASE BhReadFails
    BY <2>11 DEF BusWorks, BhReadFails, BhNextIteration
  <2>12. CASE BhNothingToRead
    BY <2>12 DEF BhNothingToRead, BhNextIteration
  <2>13. CASE BhReadTooHot
    BY <2>13 DEF BhReadTooHot
  <2>. QED
    BY <1>3, <2>1, <2>2, <2>3, <2>4, <2>5, <2>6, <2>7, <2>8, <2>9, <2>10,
       <2>11, <2>12, <2>13
       DEF BottomHalf
<1>4. CASE Chip
  <2>1. CASE ChipConfirmsFrame
    BY <2>1 DEF ChipConfirmsFrame
  <2>2. CASE \E m \in chipCmd : ChipAnswers(m)
    BY <2>2 DEF ChipAnswers
  <2>3. CASE ChipShutsDown
    BY <2>3 DEF ChipShutsDown
  <2>4. CASE ChipHangs
    BY <2>4 DEF ChipHangs
  <2>5. CASE ChipReportsError
    BY <2>5 DEF ChipReportsError
  <2>. QED  BY <1>4, <2>1, <2>2, <2>3, <2>4, <2>5 DEF Chip
<1>5. CASE UNCHANGED vars
  BY <1>5
<1>6. CASE CoolingTimeout
  BY <1>6 DEF CoolingTimeout, TxUnlock
<1>. QED  BY <1>1, <1>2, <1>3, <1>4, <1>5, <1>6 DEF Next

\* Initially no key is renewed and no request exists.
LEMMA InitTimely == Init => RenewInv /\ TimelyInv
<1>. SUFFICES ASSUME Init PROVE RenewInv /\ TimelyInv
  OBVIOUS
<1>. USE ConstantsAssumption, SentinelsAssumption
<1>1. RenewInv
  BY DEF Init, RenewInv, ThreadOps, KeyOwned, HoldsKey, CmdPcs, FlushPcs,
         RenewPcs
<1>2. Fresh /\ Noticed /\ BusWorks /\ Alone
  BY DEF Init, Fresh, Noticed, BusWorks, Alone, CmdPcs
<1>3. Once /\ Own
  BY DEF Init, Once, Own, Settled
<1>4. Phases /\ Answers
  BY DEF Init, Phases, Answers, PublishedPcs
<1>. QED  BY <1>1, <1>2, <1>3, <1>4 DEF TimelyInv

\* The discipline of key_renew_lock holds in every behaviour.
LEMMA RenewInductive == Spec => [](CommandInv /\ LockInv /\ RenewInv)
<1>1. Init => RenewInv
  BY InitTimely
<1>2. CommandInv /\ LockInv /\ RenewInv /\ [Next]_vars => RenewInv'
  BY RenewNext
<1>. QED  BY Inductive, <1>1, <1>2, PTL DEF Spec

\* With a chip that is on time, every request stays where TimelyInv says.
LEMMA TimelyInductive ==
  ASSUME ~LateAnswers, MaxBusErrors = 0
  PROVE  Spec => [](CommandInv /\ LockInv /\ RenewInv /\ TimelyInv)
<1>1. Init => TimelyInv
  BY InitTimely
<1>2. CommandInv /\ LockInv /\ CreditInv /\ RenewInv /\ TimelyInv /\ [Next]_vars
        => TimelyInv'
  <2>. SUFFICES ASSUME CommandInv, LockInv, CreditInv, RenewInv, TimelyInv,
                       [Next]_vars
                PROVE  TimelyInv'
    OBVIOUS
  <2>1. Fresh'
    BY FreshNext DEF TimelyInv
  <2>2. Noticed' /\ BusWorks' /\ Alone' /\ Once' /\ Own' /\ Phases' /\ Answers'
    BY NoticedNext, BusWorksNext, AloneNext, OnceNext, OwnNext, PhasesNext,
       AnswersNext
  <2>. QED  BY <2>1, <2>2 DEF TimelyInv
<1>. QED  BY Inductive, RenewInductive, <1>1, <1>2, PTL DEF Spec

-----------------------------------------------------------------------------
(* The theorems about renewals and about a chip that is on time *)

\* While a renewal holds key_renew_lock, the only command that can be
\* published is its own, whatever the timing and the bus.
THEOREM RenewalSafe == Spec => []RenewalExclusive
<1>1. CommandInv /\ LockInv /\ RenewInv => RenewalExclusive
  BY RenewSafe
<1>. QED  BY RenewInductive, <1>1, PTL

\* The places where a thread waits for a mutex, and whether it can have it.
KeyWaits  == {"renewLock", "slLock"}
LockWaits == {"cmdLock", "flLock"}
CanGoOn(p) ==
    /\ pc[p] # "idle"
    /\ pc[p] \in KeyWaits => keyRenewLock = None
    /\ pc[p] \in LockWaits => lock = None

\* Threads never wait for one another's mutex in a circle.
NoLockCycle ==
    (\E p \in Procs : pc[p] # "idle") => \E q \in Procs : CanGoOn(q)

\* The owner of hif_cmd.lock waits for no mutex, and the owner of
\* key_renew_lock waits at most for the former.
LEMMA OwnersGoOn ==
  ASSUME CommandInv, LockInv, RenewInv
  PROVE  NoLockCycle
<1>. SUFFICES ASSUME NEW p \in Procs, pc[p] # "idle"
              PROVE  \E q \in Procs : CanGoOn(q)
  BY DEF NoLockCycle
<1>1. CASE lock # None
  <2>1. lock \in Procs
    BY <1>1 DEF CommandInv, TypeOK
  <2>2. pc[lock] \in LockPcs
    BY <2>1 DEF LockInv, LockOwned
  <2>3. CanGoOn(lock)
    BY <2>2 DEF CanGoOn, KeyWaits, LockWaits, LockPcs
  <2>. QED  BY <2>1, <2>3
<1>2. CASE lock = None /\ keyRenewLock # None
  <2>1. keyRenewLock \in Procs
    BY <1>2 DEF CommandInv, TypeOK
  <2>2. HoldsKey(keyRenewLock)
    BY <2>1 DEF RenewInv, KeyOwned
  <2>3. pc[keyRenewLock] \notin KeyWaits \cup {"idle"}
    BY <2>1, <2>2
       DEF HoldsKey, CmdPcs, KeyWaits, RenewInv, ThreadOps
  <2>4. CanGoOn(keyRenewLock)
    BY <1>2, <2>3 DEF CanGoOn
  <2>. QED  BY <2>1, <2>4
<1>3. CASE lock = None /\ keyRenewLock = None
  BY <1>3 DEF CanGoOn
<1>. QED  BY <1>1, <1>2, <1>3

\* As long as a thread is in wfx_cmd_send, wfx_tx_flush or wfx_sl_renew_key,
\* one of them is not waiting for a mutex another one owns: the two mutexes,
\* taken in two functions and kept across calls, never lead to a deadlock.
THEOREM LocksDeadlockFree == Spec => []NoLockCycle
<1>1. CommandInv /\ LockInv /\ RenewInv => NoLockCycle
  BY OwnersGoOn
<1>. QED  BY RenewInductive, <1>1, PTL

\* A call never returns the status of another call's request: neither a late
\* completion nor a late confirmation is left behind for the next caller.
THEOREM AnswersOwned ==
  ASSUME ~LateAnswers, MaxBusErrors = 0
  PROVE  Spec => []AnswerIsOwn
<1>1. TimelyInv => AnswerIsOwn
  BY DEF TimelyInv, Answers, AnswerIsOwn
<1>. QED  BY TimelyInductive, <1>1, PTL

\* The bottom half never sends a request twice, and never sends one whose
\* caller has returned, but for the shutdown command, whose caller only sleeps.
THEOREM SentOnceSafe ==
  ASSUME ~LateAnswers, MaxBusErrors = 0
  PROVE  Spec => []SentOnceWhileOwned
<1>1. CommandInv /\ LockInv /\ TimelyInv => SentOnceWhileOwned
  <2>. SUFFICES ASSUME CommandInv, LockInv, TimelyInv,
                       bhPc = "send", bhMsg # Frame
                PROVE  /\ \A m \in chipCmd \cup cnfCmd : m.req # bhMsg
                       /\ bhMsg.id # ShutDown =>
                             InFlight(bhMsg.by) /\ req[bhMsg.by] = bhMsg
    BY DEF SentOnceWhileOwned
  <2>1. bhMsg \in Requests
    BY DEF CommandInv, MessageInHand
  <2>2. \A m \in chipCmd \cup cnfCmd : m.req # bhMsg
    BY <2>1 DEF TimelyInv, Once, Sent
  <2>3. ASSUME bhMsg.id # ShutDown
        PROVE  InFlight(bhMsg.by) /\ req[bhMsg.by] = bhMsg
    <3>1. bhMsg = bufSend /\ bufSend # None
      BY <2>1, <2>3, SentinelsAssumption DEF TimelyInv, Own
    <3>. QED  BY <3>1 DEF LockInv, BufSendProtected
  <2>. QED  BY <2>2, <2>3
<1>. QED  BY TimelyInductive, <1>1, PTL

\* wfx_cmd_send never gives up a command of a living chip, also of one that
\* has been declared frozen: the request and its answer are never both lost
\* on the way.
THEOREM GivesUpJustly ==
  ASSUME ~LateAnswers, MaxBusErrors = 0
  PROVE  Spec => []GivesUpOnlyIfHung
<1>1. TimelyInv => GivesUpOnlyIfHung
  BY DEF TimelyInv, Phases, GivesUpOnlyIfHung, At
<1>. QED  BY TimelyInductive, <1>1, PTL

-----------------------------------------------------------------------------
(* The layer implements CommandChannel *)

\* The abstract variables only depend on five of the concrete ones.
LEMMA ChannelStutters ==
  UNCHANGED <<pc, lock, ret, req, frozen>> => UNCHANGED Channel!vars
BY DEF Channel!vars, PhaseOf, OutcomeOf

\* A step of p changes the phase of p only.
LEMMA PhaseMoves ==
  ASSUME CommandInv, NEW p \in Procs, NEW label, NEW x,
         pc' = [pc EXCEPT ![p] = label],
         lock' = lock \/ (lock = None /\ lock' = p) \/ (lock = p /\ lock' = None),
         PhaseOf(p)' = x
  PROVE  [q \in Procs |-> PhaseOf(q)]'
           = [[q \in Procs |-> PhaseOf(q)] EXCEPT ![p] = x]
<1>1. ASSUME NEW q \in Procs, q # p
      PROVE  PhaseOf(q)' = PhaseOf(q)
  BY <1>1, ConstantsAssumption DEF PhaseOf, CommandInv, TypeOK
<1>. QED  BY <1>1

\* A step that assigns ret[p] and leaves req alone changes the outcome of p.
LEMMA OutcomeMoves ==
  ASSUME CommandInv, NEW p \in Procs, NEW value, NEW x,
         ret' = [ret EXCEPT ![p] = value],
         \A q \in Procs : q # p => req'[q] = req[q],
         OutcomeOf(p)' = x
  PROVE  [q \in Procs |-> OutcomeOf(q)]'
           = [[q \in Procs |-> OutcomeOf(q)] EXCEPT ![p] = x]
<1>1. ASSUME NEW q \in Procs, q # p
      PROVE  OutcomeOf(q)' = OutcomeOf(q)
  BY <1>1 DEF OutcomeOf, CommandInv, TypeOK
<1>. QED  BY <1>1

\* Every step of the layer is a step of the channel, or none at all.
LEMMA ChannelNext ==
  ASSUME CommandInv, LockInv, RenewInv, TimelyInv, [Next]_vars
  PROVE  [Channel!Next]_(Channel!vars)
<1>. DEFINE phase == [p \in Procs |-> PhaseOf(p)]
            outcome == [p \in Procs |-> OutcomeOf(p)]
<1>. USE ConstantsAssumption, SentinelsAssumption
<1>1. ASSUME NEW p \in Procs, Thread(p)
      PROVE  [Channel!Next]_(Channel!vars)
  <2>. DEFINE Enters(x) == phase' = [phase EXCEPT ![p] = x]
              Ends(x)   == outcome' = [outcome EXCEPT ![p] = x]
              Keeps     == UNCHANGED <<ret, req>>
  <2>0. /\ lock = p <=> pc[p] \in LockPcs
        /\ pc[p] \notin {"idle", "slUnlock", "release"} => ret[p] = None
        /\ phase[p] = PhaseOf(p) /\ outcome[p] = OutcomeOf(p)
        /\ pc[p] \in LockPcs => phase[p] = "serving"
        /\ pc[p] \in {"renewLock", "cmdLock", "flLock"} => phase[p] = "queueing"
        /\ pc[p] \in {"idle", "check", "flCheck", "slLock", "slUnlock"} =>
              phase[p] = "away"
        /\ ret[p] = None => outcome[p] = "none"
    BY DEF LockInv, LockOwned, TimelyInv, Answers, OutcomeOf, PhaseOf, LockPcs
  <2>1. ASSUME NEW label, NEW x,
               pc' = [pc EXCEPT ![p] = label],
               \/ lock' = lock
               \/ lock = None /\ lock' = p
               \/ lock = p /\ lock' = None,
               \/ x = "serving" /\ lock' = p
               \/ /\ x = "queueing" /\ lock' # p
                  /\ label \in {"renewLock", "cmdLock", "flLock"}
               \/ /\ x = "away" /\ lock' # p
                  /\ label \notin {"renewLock", "cmdLock", "flLock"}
        PROVE  Enters(x)
    <3>1. PhaseOf(p)' = x
      BY <2>1 DEF PhaseOf, CommandInv, TypeOK
    <3>. QED  BY <2>1, <3>1, PhaseMoves
  <2>2. ASSUME Keeps PROVE UNCHANGED outcome
    BY <2>2 DEF OutcomeOf
  <2>3. ASSUME NEW value, NEW x,
               ret' = [ret EXCEPT ![p] = value],
               \A q \in Procs : q # p => req'[q] = req[q],
               \/ x = "none" /\ value = None
               \/ x = "timedOut" /\ value = TimedOut
               \/ x = "unconfirmed" /\ value = Unconfirmed
               \/ x = "answered" /\ value \in Requests /\ value = req'[p]
        PROVE  Ends(x)
    <3>1. OutcomeOf(p)' = x
      BY <2>3 DEF OutcomeOf, CommandInv, TypeOK
    <3>. QED  BY <2>3, <3>1, OutcomeMoves
  <2>. HIDE DEF phase, outcome
  <2>4. ASSUME phase' = phase, outcome' = outcome, frozen' = frozen
        PROVE  UNCHANGED Channel!vars
    BY <2>4 DEF Channel!vars, phase, outcome
  <2>5. ASSUME Enters(phase[p]) PROVE phase' = phase
    BY <2>5 DEF phase
  <2>. USE DEF Goto, At, lockVars
  <2>6. ASSUME phase[p] = "away", Ends("none"), phase' = phase, frozen' = frozen
        PROVE  Channel!Next
    BY <2>6 DEF Channel!Next, Channel!Forget, phase, outcome
  <2>7. ASSUME phase[p] = "away", ~frozen, Enters("queueing"),
               outcome' = outcome, frozen' = frozen
        PROVE  Channel!Next
    BY <2>7 DEF Channel!Next, Channel!Queue, phase, outcome
  <2>8. ASSUME phase[p] = "away", frozen, Ends("timedOut"), phase' = phase,
               frozen' = frozen
        PROVE  Channel!Next
    BY <2>8 DEF Channel!Next, Channel!Refuse, phase, outcome
  <2>9. ASSUME phase[p] = "queueing", lock = None, Enters("serving"),
               outcome' = outcome, frozen' = frozen
        PROVE  Channel!Next
    <3>1. \A q \in Procs : phase[q] # "serving"
      BY <2>9 DEF phase, PhaseOf
    <3>. QED  BY <2>9, <3>1 DEF Channel!Next, Channel!Serve, phase, outcome
  <2>10. ASSUME phase[p] = "serving", outcome[p] = "none",
                Ends("answered") \/ Ends("unconfirmed"),
                phase' = phase, frozen' = frozen
         PROVE  Channel!Next
    BY <2>10 DEF Channel!Next, Channel!Conclude, phase, outcome
  <2>11. ASSUME phase[p] = "serving", outcome[p] = "none",
                Ends("timedOut") \/ outcome' = outcome,
                phase' = phase, frozen' = TRUE
         PROVE  Channel!Next
    BY <2>11 DEF Channel!Next, Channel!GiveUp, phase, outcome
  <2>12. ASSUME phase[p] = "serving", Enters("away"), outcome' = outcome,
                frozen' = frozen
         PROVE  Channel!Next
    BY <2>12 DEF Channel!Next, Channel!Leave, phase, outcome
  <2>13. CASE \E id \in Ids \cup {ShutDown} : Call(p, id)
    <3>1. phase[p] = "away"
      BY <2>13, <2>0 DEF Call, LockPcs
    <3>2. Enters("away")
      BY <2>13, <2>0, <2>1 DEF Call, LockPcs
    <3>3. Ends("none")
      BY <2>13, <2>0, <2>3 DEF Call, CommandInv, TypeOK
    <3>4. frozen' = frozen
      BY <2>13 DEF Call, freezeVars
    <3>. QED  BY <3>1, <3>2, <3>3, <3>4, <2>5, <2>6
  <2>14. CASE CallFlush(p)
    <3>1. phase[p] = "away"
      BY <2>14, <2>0 DEF CallFlush, LockPcs
    <3>2. Enters("away")
      BY <2>14, <2>0, <2>1 DEF CallFlush, LockPcs
    <3>3. Ends("none")
      BY <2>14, <2>0, <2>3 DEF CallFlush, CommandInv, TypeOK
    <3>4. frozen' = frozen
      BY <2>14 DEF CallFlush, freezeVars
    <3>. QED  BY <3>1, <3>2, <3>3, <3>4, <2>5, <2>6
  <2>15. CASE CallRenew(p)
    <3>1. phase[p] = "away"
      BY <2>15, <2>0 DEF CallRenew, LockPcs
    <3>2. Enters("away")
      BY <2>15, <2>0, <2>1 DEF CallRenew, LockPcs
    <3>3. Ends("none")
      BY <2>15, <2>0, <2>3 DEF CallRenew, CommandInv, TypeOK
    <3>4. frozen' = frozen
      BY <2>15 DEF CallRenew, freezeVars
    <3>. QED  BY <3>1, <3>2, <3>3, <3>4, <2>5, <2>6
  <2>16. CASE Check(p) /\ frozen
    <3>1. phase[p] = "away"
      BY <2>16, <2>0 DEF Check, LockPcs
    <3>2. Enters("away")
      BY <2>16, <2>0, <2>1 DEF Check, LockPcs
    <3>3. Ends("timedOut")
      BY <2>16, <2>0, <2>3 DEF Check, CommandInv, TypeOK
    <3>4. frozen' = frozen
      BY <2>16 DEF Check, freezeVars
    <3>. QED  BY <2>16, <3>1, <3>2, <3>3, <3>4, <2>5, <2>8
  <2>17. CASE Check(p) /\ ~frozen
    <3>1. phase[p] = "away"
      BY <2>17, <2>0 DEF Check, LockPcs
    <3>2. Enters("queueing")
      BY <2>17, <2>0, <2>1 DEF Check, LockPcs
    <3>3. outcome' = outcome /\ frozen' = frozen
      BY <2>17, <2>2 DEF Check, freezeVars
    <3>. QED  BY <2>17, <3>1, <3>2, <3>3, <2>7
  <2>18. CASE TakeRenewLock(p)
    <3>1. phase[p] = "queueing"
      BY <2>18, <2>0 DEF TakeRenewLock, LockPcs
    <3>2. Enters("queueing")
      BY <2>18, <2>0, <2>1 DEF TakeRenewLock, LockPcs
    <3>3. outcome' = outcome /\ frozen' = frozen
      BY <2>18, <2>2 DEF TakeRenewLock, freezeVars
    <3>. QED  BY <3>1, <3>2, <3>3, <2>4, <2>5
  <2>19. CASE TakeLock(p)
    <3>1. phase[p] = "queueing"
      BY <2>19, <2>0 DEF TakeLock, LockPcs
    <3>2. Enters("serving")
      BY <2>19, <2>0, <2>1 DEF TakeLock, LockPcs
    <3>3. outcome' = outcome /\ frozen' = frozen
      BY <2>19, <2>2 DEF TakeLock, freezeVars
    <3>4. lock = None
      BY <2>19 DEF TakeLock
    <3>. QED  BY <3>1, <3>2, <3>3, <3>4, <2>9
  <2>20. CASE Publish(p)
    <3>1. phase[p] = "serving"
      BY <2>20, <2>0 DEF Publish, LockPcs
    <3>2. Enters("serving")
      BY <2>20, <2>0, <2>1 DEF Publish, LockPcs
    <3>3. outcome' = outcome /\ frozen' = frozen
      BY <2>20, <2>2 DEF Publish, freezeVars
    <3>. QED  BY <3>1, <3>2, <3>3, <2>4, <2>5
  <2>21. CASE Kick(p)
    <3>1. phase[p] = "serving"
      BY <2>21, <2>0 DEF Kick, LockPcs
    <3>2. Enters("serving")
      BY <2>21, <2>0, <2>1 DEF Kick, LockPcs
    <3>3. outcome' = outcome /\ frozen' = frozen
      BY <2>21, <2>2 DEF Kick, freezeVars
    <3>. QED  BY <3>1, <3>2, <3>3, <2>4, <2>5
  <2>22. CASE Slept(p)
    <3>1. phase[p] = "serving"
      BY <2>22, <2>0 DEF Slept, LockPcs
    <3>2. Enters("serving")
      BY <2>22, <2>0, <2>1 DEF Slept, LockPcs
    <3>3. Ends("unconfirmed")
      BY <2>22, <2>0, <2>3 DEF Slept, CommandInv, TypeOK
    <3>4. outcome[p] = "none"
      BY <2>22, <2>0 DEF Slept
    <3>5. frozen' = frozen
      BY <2>22 DEF Slept, freezeVars
    <3>. QED  BY <3>1, <3>2, <3>3, <3>4, <3>5, <2>5, <2>10
  <2>23. CASE Answered(p)
    <3>1. phase[p] = "serving"
      BY <2>23, <2>0 DEF Answered, LockPcs
    <3>2. Enters("serving")
      BY <2>23, <2>0, <2>1 DEF Answered, LockPcs
    <3>3. outcome' = outcome /\ frozen' = frozen
      BY <2>23, <2>2 DEF Answered, freezeVars
    <3>. QED  BY <3>1, <3>2, <3>3, <2>4, <2>5
  <2>24. CASE FirstTimeout(p)
    <3>1. phase[p] = "serving"
      BY <2>24, <2>0 DEF FirstTimeout, LockPcs
    <3>2. Enters("serving")
      BY <2>24, <2>0, <2>1 DEF FirstTimeout, LockPcs
    <3>3. outcome' = outcome /\ frozen' = frozen
      BY <2>24, <2>2 DEF FirstTimeout, freezeVars
    <3>. QED  BY <3>1, <3>2, <3>3, <2>4, <2>5
  <2>25. CASE SecondTimeout(p)
    <3>1. phase[p] = "serving"
      BY <2>25, <2>0 DEF SecondTimeout, LockPcs
    <3>2. Enters("serving")
      BY <2>25, <2>0, <2>1 DEF SecondTimeout, LockPcs
    <3>3. outcome' = outcome /\ frozen' = frozen
      BY <2>25, <2>2 DEF SecondTimeout, freezeVars
    <3>. QED  BY <3>1, <3>2, <3>3, <2>4, <2>5
  <2>26. CASE GiveUp(p)
    <3>1. phase[p] = "serving"
      BY <2>26, <2>0 DEF GiveUp, LockPcs
    <3>2. Enters("serving")
      BY <2>26, <2>0, <2>1 DEF GiveUp, LockPcs
    <3>3. Ends("timedOut")
      BY <2>26, <2>0, <2>3 DEF GiveUp, CommandInv, TypeOK
    <3>4. outcome[p] = "none" /\ frozen' = TRUE
      BY <2>26, <2>0 DEF GiveUp
    <3>. QED  BY <3>1, <3>2, <3>3, <3>4, <2>5, <2>11
  <2>27. CASE Collect(p)
    <3>0. hifRet = req[p] /\ req[p] \in Requests
      BY <2>27 DEF Collect, TimelyInv, Phases, LockInv, RequestMade, CmdPcs
    <3>1. phase[p] = "serving"
      BY <2>27, <2>0 DEF Collect, LockPcs
    <3>2. Enters("serving")
      BY <2>27, <2>0, <2>1 DEF Collect, LockPcs
    <3>3. Ends("answered")
      BY <2>27, <2>0, <2>3, <3>0 DEF Collect, CommandInv, TypeOK
    <3>4. outcome[p] = "none"
      BY <2>27, <2>0 DEF Collect
    <3>5. frozen' = frozen
      BY <2>27 DEF Collect, freezeVars
    <3>. QED  BY <3>1, <3>2, <3>3, <3>4, <3>5, <2>5, <2>10
  <2>28. CASE Release(p)
    <3>1. phase[p] = "serving"
      BY <2>28, <2>0 DEF Release, LockPcs
    <3>2. Enters("away")
      BY <2>28, <2>0, <2>1 DEF Release, LockPcs
    <3>3. outcome' = outcome /\ frozen' = frozen
      BY <2>28, <2>2 DEF Release, freezeVars
    <3>. QED  BY <3>1, <3>2, <3>3, <2>12
  <2>29. CASE FlushCheck(p) /\ frozen
    <3>1. phase[p] = "away"
      BY <2>29, <2>0 DEF FlushCheck, LockPcs
    <3>2. Enters("away")
      BY <2>29, <2>0, <2>1 DEF FlushCheck, LockPcs, AfterFlush
    <3>3. outcome' = outcome /\ frozen' = frozen
      BY <2>29, <2>2 DEF FlushCheck, freezeVars
    <3>. QED  BY <3>1, <3>2, <3>3, <2>4, <2>5
  <2>30. CASE FlushCheck(p) /\ ~frozen
    <3>1. phase[p] = "away"
      BY <2>30, <2>0 DEF FlushCheck, LockPcs
    <3>2. Enters("queueing")
      BY <2>30, <2>0, <2>1 DEF FlushCheck, LockPcs
    <3>3. outcome' = outcome /\ frozen' = frozen
      BY <2>30, <2>2 DEF FlushCheck, freezeVars
    <3>. QED  BY <2>30, <3>1, <3>2, <3>3, <2>7
  <2>31. CASE FlushLock(p)
    <3>1. phase[p] = "queueing"
      BY <2>31, <2>0 DEF FlushLock, LockPcs
    <3>2. Enters("serving")
      BY <2>31, <2>0, <2>1 DEF FlushLock, LockPcs
    <3>3. outcome' = outcome /\ frozen' = frozen
      BY <2>31, <2>2 DEF FlushLock, freezeVars
    <3>4. lock = None
      BY <2>31 DEF FlushLock
    <3>. QED  BY <3>1, <3>2, <3>3, <3>4, <2>9
  <2>32. CASE FlushEmpty(p)
    <3>1. phase[p] = "serving"
      BY <2>32, <2>0 DEF FlushEmpty, LockPcs
    <3>2. Enters("serving")
      BY <2>32, <2>0, <2>1 DEF FlushEmpty, LockPcs
    <3>3. outcome' = outcome /\ frozen' = frozen
      BY <2>32, <2>2 DEF FlushEmpty, freezeVars
    <3>. QED  BY <3>1, <3>2, <3>3, <2>4, <2>5
  <2>33. CASE FlushTimeout(p)
    <3>1. phase[p] = "serving"
      BY <2>33, <2>0 DEF FlushTimeout, LockPcs
    <3>2. Enters("serving")
      BY <2>33, <2>0, <2>1 DEF FlushTimeout, LockPcs
    <3>3. outcome' = outcome
      BY <2>33, <2>2 DEF FlushTimeout
    <3>4. outcome[p] = "none" /\ frozen' = TRUE
      BY <2>33, <2>0 DEF FlushTimeout
    <3>. QED  BY <3>1, <3>2, <3>3, <3>4, <2>5, <2>11
  <2>34. CASE FlushRelease(p)
    <3>1. phase[p] = "serving"
      BY <2>34, <2>0 DEF FlushRelease, LockPcs
    <3>2. Enters("away")
      BY <2>34, <2>0, <2>1 DEF FlushRelease, LockPcs, AfterFlush
    <3>3. outcome' = outcome /\ frozen' = frozen
      BY <2>34, <2>2 DEF FlushRelease, freezeVars
    <3>. QED  BY <3>1, <3>2, <3>3, <2>12
  <2>35. CASE RenewLock(p)
    <3>1. phase[p] = "away"
      BY <2>35, <2>0 DEF RenewLock, LockPcs
    <3>2. Enters("away")
      BY <2>35, <2>0, <2>1 DEF RenewLock, LockPcs
    <3>3. ret[p] = None /\ ret' = [ret EXCEPT ![p] = None]
      BY <2>35, <2>0 DEF RenewLock, CommandInv, TypeOK
    <3>4. Ends("none")
      BY <2>35, <3>3, <2>3 DEF RenewLock, CommandInv, TypeOK
    <3>5. frozen' = frozen
      BY <2>35 DEF RenewLock, freezeVars
    <3>. QED  BY <3>1, <3>2, <3>4, <3>5, <2>5, <2>6
  <2>36. CASE RenewUnlock(p)
    <3>1. phase[p] = "away"
      BY <2>36, <2>0 DEF RenewUnlock, LockPcs
    <3>2. Enters("away")
      BY <2>36, <2>0, <2>1 DEF RenewUnlock, LockPcs
    <3>3. outcome' = outcome /\ frozen' = frozen
      BY <2>36, <2>2 DEF RenewUnlock, freezeVars
    <3>. QED  BY <3>1, <3>2, <3>3, <2>4, <2>5
  <2>. QED
    BY <1>1, <2>13, <2>14, <2>15, <2>16, <2>17, <2>18, <2>19, <2>20, <2>21,
       <2>22, <2>23, <2>24, <2>25, <2>26, <2>27, <2>28, <2>29, <2>30, <2>31,
       <2>32, <2>33, <2>34, <2>35, <2>36
       DEF Thread
<1>2. CASE BhReadException \/ CoolingTimeout
  <2>1. UNCHANGED <<pc, lock, ret, req>> /\ frozen' = TRUE
    BY <1>2 DEF BhReadException, CoolingTimeout, threadVars, lockVars
  <2>. QED  BY <2>1 DEF Channel!Next, Channel!Die, PhaseOf, OutcomeOf
<1>3. CASE SubmitFrame \/ (BottomHalf /\ ~BhReadException) \/ Chip
  <2>1. UNCHANGED <<pc, lock, ret, req, frozen>>
    BY <1>3
       DEF SubmitFrame, BottomHalf, Chip, BhStart, BhTakeCmd, BhTakeFrame,
           BhNothingToSend, BhSend, BhSendFails, BhReadFrames, BhReadAnswer,
           BhConfirm, BhReadFails, BhReadTooHot, BhNothingToRead,
           ChipConfirmsFrame, ChipAnswers, ChipShutsDown, ChipHangs,
           ChipReportsError, threadVars, lockVars, freezeVars
  <2>. QED  BY <2>1, ChannelStutters
<1>4. CASE UNCHANGED vars
  BY <1>4, ChannelStutters DEF vars, threadVars, lockVars, freezeVars
<1>. QED  BY <1>1, <1>2, <1>3, <1>4 DEF Next

\* The layer starts as the channel does.
LEMMA ChannelInit == Init => Channel!Init
<1>. SUFFICES ASSUME Init PROVE Channel!Init
  OBVIOUS
<1>1. ASSUME NEW p \in Procs
      PROVE  PhaseOf(p) = "away" /\ OutcomeOf(p) = "none"
  <2>1. pc[p] = "idle" /\ ret[p] = None /\ lock # p
    BY ConstantsAssumption DEF Init
  <2>2. PhaseOf(p) = "away"
    BY <2>1 DEF PhaseOf
  <2>3. OutcomeOf(p) = "none"
    BY <2>1, SentinelsAssumption DEF OutcomeOf
  <2>. QED  BY <2>2, <2>3
<1>2. frozen = FALSE
  BY DEF Init
<1>. QED  BY <1>1, <1>2 DEF Channel!Init

\* The command layer implements the abstract channel: one user at a time,
\* each ending with its own answer or with a timeout that freezes the chip.
THEOREM ImplementsChannel ==
  ASSUME ~LateAnswers, MaxBusErrors = 0
  PROVE  Spec => Refinement
<1>1. CommandInv /\ LockInv /\ RenewInv /\ TimelyInv /\ [Next]_vars
        => [Channel!Next]_(Channel!vars)
  BY ChannelNext
<1>. QED
  BY ChannelInit, TimelyInductive, <1>1, PTL
     DEF Spec, Refinement, Channel!Spec
=============================================================================
