----------------------------- MODULE VifProofs -----------------------------
(***************************************************************************)
(* Theorems about Vif, for any number of stations, keys, entries, events of*)
(* the chip and changes of the power save mode.                            *)
(***************************************************************************)
EXTENDS Vif, StationsProofs

-----------------------------------------------------------------------------
(* The inductive invariant *)

\* Nothing runs on an interface that is not there or is being removed.
Still ==
    /\ removePc # "idle" => present
    /\ removePc # "idle" \/ ~present =>
          resetPc = "idle" /\ \A t \in Threads : pmPc[t] = "idle"
    /\ removePc = "cancel" \/ ~present => ~joined
    /\ resetPc # "idle" => pmPc["conf"] = "idle"

\* An event about the network is on its way only while the chip has one.
EventsJoined == \A i \in DOMAIN indications : indications[i] # "pm" => joined

\* The last change of mode is complete before the interface is reset.
PmQuiet ==
    ~overlap /\ (removePc \in {"reset", "cancel"} \/ ~present) =>
        pmDone = 0 /\ Pms = 0

Inv == TypeOK /\ TablesSound /\ Still /\ EventsJoined /\ LossJustified
         /\ PmOneAtATime /\ PmQuiet /\ NoOrphan

-----------------------------------------------------------------------------
(* Counting the indications of a change of mode *)

Pm(s) == {i \in DOMAIN s : s[i] = "pm"}

\* The places of these indications are finitely many.
LEMMA PmFinite ==
  ASSUME NEW S, NEW s \in Seq(S)
  PROVE  IsFiniteSet(Pm(s)) /\ Cardinality(Pm(s)) \in Nat
<1>1. IsFiniteSet(1 .. Len(s)) /\ Pm(s) \in SUBSET (1 .. Len(s))
  BY FS_Interval DEF Pm
<1>2. IsFiniteSet(Pm(s))
  BY <1>1, FS_Subset
<1>. QED  BY <1>2, FS_CardinalityType

\* One more, if an indication of it is appended.
LEMMA PmAppended ==
  ASSUME NEW S, NEW s \in Seq(S), NEW e \in S
  PROVE  Cardinality(Pm(Append(s, e))) =
            IF e = "pm" THEN Cardinality(Pm(s)) + 1 ELSE Cardinality(Pm(s))
<1>1. IsFiniteSet(Pm(s))
  BY PmFinite
<1>2. CASE e = "pm"
  <2>1. Pm(Append(s, e)) = Pm(s) \cup {Len(s) + 1} /\ Len(s) + 1 \notin Pm(s)
    BY <1>2 DEF Pm
  <2>. QED  BY <1>1, <1>2, <2>1, FS_AddElement
<1>3. CASE e # "pm"
  <2>1. Pm(Append(s, e)) = Pm(s)
    BY <1>3 DEF Pm
  <2>. QED  BY <1>3, <2>1
<1>. QED  BY <1>2, <1>3

\* One less, if an indication of it is taken.
LEMMA PmTaken ==
  ASSUME NEW S, NEW s \in Seq(S), s # <<>>
  PROVE  Cardinality(Pm(Tail(s))) =
            IF Head(s) = "pm" THEN Cardinality(Pm(s)) - 1 ELSE Cardinality(Pm(s))
<1>. DEFINE R == Pm(s) \ {1}
            f == [i \in Pm(Tail(s)) |-> i + 1]
<1>1. IsFiniteSet(Pm(s)) /\ IsFiniteSet(Pm(Tail(s)))
  <2>1. Tail(s) \in Seq(S)
    OBVIOUS
  <2>. QED  BY <2>1, PmFinite
<1>2. \A i \in Pm(Tail(s)) : i \in Nat /\ i + 1 \in R
  BY DEF Pm
<1>3. \A j \in R : j - 1 \in Pm(Tail(s)) /\ f[j - 1] = j
  <2>1. SUFFICES ASSUME NEW j \in R PROVE j - 1 \in Pm(Tail(s)) /\ f[j - 1] = j
    OBVIOUS
  <2>2. j \in 2 .. Len(s) /\ s[j] = "pm"
    BY DEF Pm
  <2>3. j - 1 \in 1 .. Len(Tail(s)) /\ Tail(s)[j - 1] = s[j]
    BY <2>2
  <2>4. j - 1 \in Pm(Tail(s))
    BY <2>2, <2>3 DEF Pm
  <2>. QED  BY <2>2, <2>4
<1>4. f \in Bijection(Pm(Tail(s)), R)
  <2>1. f \in [Pm(Tail(s)) -> R]
    BY <1>2
  <2>2. \A i, j \in Pm(Tail(s)) : f[i] = f[j] => i = j
    BY <1>2
  <2>3. \A j \in R : \E i \in Pm(Tail(s)) : f[i] = j
    BY <1>3
  <2>. HIDE DEF f, R
  <2>. QED  BY <2>1, <2>2, <2>3 DEF Bijection, Injection, Surjection, IsInjective
<1>5. ExistsBijection(Pm(Tail(s)), R)
  <2>. HIDE DEF f, R
  <2>. QED  BY <1>4 DEF ExistsBijection
<1>6. Cardinality(R) = Cardinality(Pm(Tail(s)))
  <2>. HIDE DEF R
  <2>. QED  BY <1>1, <1>5, FS_Bijection
<1>7. Cardinality(R) =
         IF 1 \in Pm(s) THEN Cardinality(Pm(s)) - 1 ELSE Cardinality(Pm(s))
  BY <1>1, FS_RemoveElement
<1>8. 1 \in Pm(s) <=> Head(s) = "pm"
  BY DEF Pm
<1>. QED  BY <1>6, <1>7, <1>8

\* Pms and the threads that set a mode are numbers.
LEMMA PmNumbers ==
  ASSUME TypeOK
  PROVE  /\ Pms = chipPm + Cardinality(Pm(indications)) /\ Pms \in Nat
         /\ Cardinality(Pm(indications)) \in Nat
         /\ IsFiniteSet(Setting) /\ Cardinality(Setting) \in Nat
         /\ Setting = {} <=> Cardinality(Setting) = 0
<1>1. IsFiniteSet(Threads)
  <2>1. Threads = {"conf"} \cup {"ap"} /\ IsFiniteSet({"conf"})
    BY FS_Singleton DEF Threads
  <2>. QED  BY <2>1, FS_AddElement
<1>2. IsFiniteSet(Setting)
  BY <1>1, FS_Subset DEF Setting
<1>3. Cardinality(Setting) \in Nat /\ (Setting = {} <=> Cardinality(Setting) = 0)
  BY <1>2, FS_CardinalityType, FS_EmptySet
<1>4. Cardinality(Pm(indications)) \in Nat
  BY PmFinite DEF TypeOK
<1>5. Pms = chipPm + Cardinality(Pm(indications))
  BY DEF Pms, Pm
<1>. QED  BY <1>2, <1>3, <1>4, <1>5 DEF TypeOK

-----------------------------------------------------------------------------
(* Each step keeps the invariant *)

\* Every step keeps the types and the tables.
LEMMA VifKeepsTypes ==
  ASSUME TypeOK, TablesSound, [Next]_vars
  PROVE  TypeOK' /\ TablesSound'
<1>. USE VifAssumption DEF TypeOK, Threads, vars, pmVars, lossVars, lifeVars,
      chipVars
<1>0. UNCHANGED <<staVars, keyVars>> =>
          /\ TablesSound'
          /\ StationsTypeOK'
  BY TablesUnchanged DEF TablesSound
<1>1. CASE AddInterface
  <2>1. present' \in BOOLEAN
    BY <1>1 DEF AddInterface
  <2>. QED  BY <1>0, <1>1, <2>1 DEF AddInterface
<1>2. CASE RemoveStarts
  BY <1>0, <1>2 DEF RemoveStarts
<1>3. CASE RemoveWaits
  <2>1. overlap' \in BOOLEAN
    BY <1>3 DEF RemoveWaits
  <2>. QED  BY <1>0, <1>3, <2>1 DEF RemoveWaits
<1>4. CASE RemoveResets
  <2>1. joined' \in BOOLEAN
    BY <1>4 DEF RemoveResets, ChipResets
  <2>. QED  BY <1>0, <1>4, <2>1 DEF RemoveResets, ChipResets
<1>5. CASE RemoveEnds
  <2>1. present' \in BOOLEAN /\ lossPending' \in BOOLEAN
    BY <1>5 DEF RemoveEnds, CancelSync
  <2>. QED  BY <1>0, <1>5, <2>1 DEF RemoveEnds, CancelSync
<1>6. CASE Join
  <2>1. joined' \in BOOLEAN /\ lost' \in BOOLEAN /\ raced' \in BOOLEAN
    BY <1>6 DEF Join
  <2>2. stale' \in BOOLEAN
    <3>1. stale' = (lossPending \/ lossRunning) \/ stale' = stale
      BY <1>6, Zenon DEF Join
    <3>. QED  BY <3>1, Zenon
  <2>. QED  BY <1>0, <1>6, <2>1, <2>2 DEF Join
<1>7. CASE Associate
  <2>1. assoc' \in BOOLEAN
    BY <1>7 DEF Associate
  <2>. QED  BY <1>0, <1>7, <2>1 DEF Associate, AsksPm
<1>8. CASE Leave
  <2>1. assoc' \in BOOLEAN
    BY <1>8 DEF Leave
  <2>. QED  BY <1>0, <1>8, <2>1 DEF Leave
<1>9. CASE Reset
  <2>1. joined' \in BOOLEAN /\ lossPending' \in BOOLEAN
    BY <1>9 DEF Reset, ChipResets, CancelSync
  <2>2. pms' \in 0 .. MaxPm /\ pmPc' \in [Threads -> {"idle", "wait", "set"}]
    BY <1>9 DEF Reset, AsksPm
  <2>. QED  BY <1>0, <1>9, <2>1, <2>2 DEF Reset, ChipResets, CancelSync
<1>10. ASSUME NEW t \in Threads, UpdatePm(t) PROVE TypeOK' /\ TablesSound'
  BY <1>0, <1>10 DEF UpdatePm
<1>11. ASSUME NEW t \in Threads, WaitedPm(t) PROVE TypeOK' /\ TablesSound'
  <2>1. overlap' \in BOOLEAN
    BY <1>11 DEF WaitedPm
  <2>. QED  BY <1>0, <1>11, <2>1 DEF WaitedPm
<1>12. ASSUME NEW t \in Threads, SetPm(t) PROVE TypeOK' /\ TablesSound'
  BY <1>0, <1>12 DEF SetPm
<1>13. CASE ChipPmDone
  BY <1>0, <1>13 DEF ChipPmDone
<1>14. CASE ChipEvent("lost")
  BY <1>0, <1>14 DEF ChipEvent
<1>15. CASE ChipEvent("regained")
  BY <1>0, <1>15 DEF ChipEvent
<1>16. CASE PmComplete
  <2>1. orphan' \in BOOLEAN
    BY <1>16 DEF PmComplete, Handle
  <2>. QED  BY <1>0, <1>16, <2>1 DEF PmComplete, Handle
<1>17. CASE BssLost
  <2>1. lossPending' \in BOOLEAN /\ lost' \in BOOLEAN
    BY <1>17 DEF BssLost, Handle
  <2>. QED  BY <1>0, <1>17, <2>1 DEF BssLost, Handle
<1>18. CASE BssRegained
  <2>1. /\ lossPending' \in BOOLEAN /\ lost' \in BOOLEAN
        /\ raced' \in BOOLEAN /\ stale' \in BOOLEAN
    BY <1>18 DEF BssRegained, Handle
  <2>. QED  BY <1>0, <1>18, <2>1 DEF BssRegained, Handle
<1>19. CASE LossRuns
  <2>1. lossPending' \in BOOLEAN /\ lossRunning' \in BOOLEAN
    BY <1>19 DEF LossRuns
  <2>. QED  BY <1>0, <1>19, <2>1 DEF LossRuns
<1>20. CASE LossReschedules
  <2>1. lossPending' \in BOOLEAN /\ lossRunning' \in BOOLEAN
    BY <1>20 DEF LossReschedules
  <2>. QED  BY <1>0, <1>20, <2>1 DEF LossReschedules
<1>21. CASE Ready /\ StationsNext
           /\ UNCHANGED <<pmVars, lossVars, lifeVars, chipVars, orphan>>
  BY <1>21, StationsNextSound DEF TablesSound
<1>22. CASE UNCHANGED vars
  BY <1>0, <1>22
<1>. QED  BY <1>1, <1>2, <1>3, <1>4, <1>5, <1>6, <1>7, <1>8, <1>9, <1>10,
  <1>11, <1>12, <1>13, <1>14, <1>15, <1>16, <1>17, <1>18, <1>19, <1>20, <1>21,
  <1>22 DEF Next

\* Every step keeps the interface still that is not in use.
LEMMA VifKeepsStill ==
  ASSUME TypeOK, Still, [Next]_vars
  PROVE  Still'
<1>. USE VifAssumption DEF TypeOK, Still, Threads, ConfIdle, Ready, vars,
      pmVars, lossVars, lifeVars, chipVars
<1>1. CASE AddInterface
  BY <1>1 DEF AddInterface
<1>2. CASE RemoveStarts
  BY <1>2 DEF RemoveStarts
<1>3. CASE RemoveWaits
  BY <1>3 DEF RemoveWaits
<1>4. CASE RemoveResets
  BY <1>4 DEF RemoveResets, ChipResets
<1>5. CASE RemoveEnds
  BY <1>5 DEF RemoveEnds, CancelSync
<1>6. CASE Join
  BY <1>6 DEF Join
<1>7. CASE Associate
  BY <1>7 DEF Associate, AsksPm
<1>8. CASE Leave
  BY <1>8 DEF Leave
<1>9. CASE Reset
  BY <1>9 DEF Reset, ChipResets, CancelSync, AsksPm
<1>10. ASSUME NEW t \in Threads, UpdatePm(t) PROVE Still'
  BY <1>10 DEF UpdatePm
<1>11. ASSUME NEW t \in Threads, WaitedPm(t) PROVE Still'
  BY <1>11 DEF WaitedPm
<1>12. ASSUME NEW t \in Threads, SetPm(t) PROVE Still'
  BY <1>12 DEF SetPm
<1>13. CASE ChipPmDone
  BY <1>13 DEF ChipPmDone
<1>14. CASE ChipEvent("lost")
  BY <1>14 DEF ChipEvent
<1>15. CASE ChipEvent("regained")
  BY <1>15 DEF ChipEvent
<1>16. CASE PmComplete
  BY <1>16 DEF PmComplete, Handle
<1>17. CASE BssLost
  BY <1>17 DEF BssLost, Handle
<1>18. CASE BssRegained
  BY <1>18 DEF BssRegained, Handle
<1>19. CASE LossRuns
  BY <1>19 DEF LossRuns
<1>20. CASE LossReschedules
  BY <1>20 DEF LossReschedules
<1>21. CASE Ready /\ StationsNext
           /\ UNCHANGED <<pmVars, lossVars, lifeVars, chipVars, orphan>>
  BY <1>21
<1>22. CASE UNCHANGED vars
  BY <1>22
<1>. QED  BY <1>1, <1>2, <1>3, <1>4, <1>5, <1>6, <1>7, <1>8, <1>9, <1>10,
  <1>11, <1>12, <1>13, <1>14, <1>15, <1>16, <1>17, <1>18, <1>19, <1>20, <1>21,
  <1>22 DEF Next

\* Every step keeps the reports of lost beacons justified.
LEMMA VifKeepsLoss ==
  ASSUME TypeOK, Still, EventsJoined, LossJustified, [Next]_vars
  PROVE  EventsJoined' /\ LossJustified'
<1>. USE VifAssumption DEF TypeOK, Still, EventsJoined, LossJustified,
      Threads, ConfIdle, Ready, vars, pmVars, lossVars, lifeVars, chipVars
<1>1. CASE AddInterface
  BY <1>1 DEF AddInterface
<1>2. CASE RemoveStarts
  BY <1>2 DEF RemoveStarts
<1>3. CASE RemoveWaits
  BY <1>3 DEF RemoveWaits
<1>4. CASE RemoveResets
  BY <1>4 DEF RemoveResets, ChipResets
<1>5. CASE RemoveEnds
  BY <1>5 DEF RemoveEnds, CancelSync
<1>6. CASE Join
  <2>1. CASE stale' = (lossPending \/ lossRunning) /\ joined' = TRUE
    <3>1. lossPending \/ lossRunning => stale'
      BY <2>1, Zenon
    <3>. QED  BY <1>6, <2>1, <3>1 DEF Join
  <2>2. CASE resetPc' = "chip" /\ UNCHANGED <<lost, raced, stale>>
    BY <1>6, <2>2 DEF Join
  <2>. QED  BY <1>6, <2>1, <2>2, Zenon DEF Join
<1>7. CASE Associate
  BY <1>7 DEF Associate
<1>8. CASE Leave
  BY <1>8 DEF Leave
<1>9. CASE Reset
  BY <1>9 DEF Reset, ChipResets, CancelSync
<1>10. ASSUME NEW t \in Threads, UpdatePm(t) PROVE EventsJoined' /\ LossJustified'
  BY <1>10 DEF UpdatePm
<1>11. ASSUME NEW t \in Threads, WaitedPm(t) PROVE EventsJoined' /\ LossJustified'
  BY <1>11 DEF WaitedPm
<1>12. ASSUME NEW t \in Threads, SetPm(t) PROVE EventsJoined' /\ LossJustified'
  BY <1>12 DEF SetPm
<1>13. CASE ChipPmDone
  BY <1>13 DEF ChipPmDone
<1>14. CASE ChipEvent("lost")
  BY <1>14 DEF ChipEvent
<1>15. CASE ChipEvent("regained")
  BY <1>15 DEF ChipEvent
<1>16. CASE PmComplete
  BY <1>16 DEF PmComplete, Handle
<1>17. CASE BssLost
  BY <1>17 DEF BssLost, Handle
<1>18. CASE BssRegained
  BY <1>18 DEF BssRegained, Handle
<1>19. CASE LossRuns
  BY <1>19 DEF LossRuns
<1>20. CASE LossReschedules
  BY <1>20 DEF LossReschedules
<1>21. CASE Ready /\ StationsNext
           /\ UNCHANGED <<pmVars, lossVars, lifeVars, chipVars, orphan>>
  BY <1>21
<1>22. CASE UNCHANGED vars
  BY <1>22
<1>. QED  BY <1>1, <1>2, <1>3, <1>4, <1>5, <1>6, <1>7, <1>8, <1>9, <1>10,
  <1>11, <1>12, <1>13, <1>14, <1>15, <1>16, <1>17, <1>18, <1>19, <1>20, <1>21,
  <1>22 DEF Next

\* Every step keeps at most one change of mode under way.
LEMMA VifKeepsPm ==
  ASSUME TypeOK, Still, PmOneAtATime, PmQuiet, NoOrphan, [Next]_vars
  PROVE  PmOneAtATime' /\ PmQuiet' /\ NoOrphan'
<1>. USE VifAssumption DEF TypeOK, Still, PmOneAtATime, PmQuiet, NoOrphan,
      Threads, ConfIdle, Ready, vars, pmVars, lossVars, lifeVars, chipVars
<1>1. CASE AddInterface
  <2>1. Pms' = Pms /\ Setting' = Setting
    BY <1>1 DEF Pms, Setting, AddInterface
  <2>2. Setting = {}
    BY <1>1 DEF Setting, AddInterface
  <2>. QED  BY <1>1, <2>1, <2>2, PmNumbers DEF AddInterface
<1>2. CASE RemoveStarts
  <2>1. Pms' = Pms /\ Setting' = Setting
    BY <1>2 DEF Pms, Setting, RemoveStarts
  <2>. QED  BY <1>2, <2>1, PmNumbers DEF RemoveStarts
<1>3. CASE RemoveWaits
  <2>1. Pms' = Pms /\ Setting' = Setting
    BY <1>3 DEF Pms, Setting, RemoveWaits
  <2>2. ~overlap' => ~overlap /\ (pmDone = 0 => Pms = 0)
    <3>1. \/ pmDone > 0 /\ UNCHANGED overlap
          \/ pmDone = 0 /\ overlap' = (overlap \/ UnderWay)
      BY <1>3 DEF RemoveWaits
    <3>2. ~overlap' => ~overlap /\ (pmDone > 0 \/ ~UnderWay)
      BY <3>1, Zenon
    <3>. QED  BY <3>2, PmNumbers DEF UnderWay
  <2>3. ~overlap' => pmDone' = 0 /\ Pms = 0
    BY <1>3, <2>2, PmNumbers DEF RemoveWaits
  <2>. QED  BY <1>3, <2>1, <2>2, <2>3, PmNumbers DEF RemoveWaits
<1>4. CASE RemoveResets
  <2>1. Pms' <= Pms /\ Pms' \in Nat /\ Setting' = Setting
    BY <1>4, PmNumbers DEF Pms, Pm, Setting, RemoveResets, ChipResets
  <2>. QED  BY <1>4, <2>1, PmNumbers DEF RemoveResets
<1>5. CASE RemoveEnds
  <2>1. Pms' = Pms /\ Setting' = Setting
    BY <1>5 DEF Pms, Setting, RemoveEnds, CancelSync
  <2>. QED  BY <1>5, <2>1, PmNumbers DEF RemoveEnds, CancelSync
<1>6. CASE Join
  <2>1. Pms' = Pms /\ Setting' = Setting
    BY <1>6 DEF Pms, Setting, Join
  <2>. QED  BY <1>6, <2>1, PmNumbers DEF Join
<1>7. CASE Associate
  <2>1. Pms' = Pms /\ Setting' = Setting
    BY <1>7 DEF Pms, Setting, ConfIdle, Associate, AsksPm
  <2>. QED  BY <1>7, <2>1, PmNumbers DEF Associate, AsksPm
<1>8. CASE Leave
  <2>1. Pms' = Pms /\ Setting' = Setting
    BY <1>8 DEF Pms, Setting, Leave
  <2>. QED  BY <1>8, <2>1, PmNumbers DEF Leave
<1>9. CASE Reset
  <2>1. Pms' <= Pms /\ Pms' \in Nat /\ Setting' = Setting
    <3>1. indications' = indications /\ chipPm' \in {chipPm, 0}
      BY <1>9 DEF Reset, ChipResets
    <3>2. Setting' = Setting
      BY <1>9 DEF Setting, Reset, AsksPm
    <3>. QED  BY <3>1, <3>2, PmNumbers DEF Pms, Pm
  <2>2. present /\ removePc = "idle"
    BY <1>9 DEF Reset
  <2>3. UNCHANGED <<pmDone, overlap, present, removePc, orphan>>
    BY <1>9 DEF Reset
  <2>. HIDE DEF Pms, Setting
  <2>. QED  BY <2>1, <2>2, <2>3, PmNumbers
<1>10. ASSUME NEW t \in Threads, UpdatePm(t) PROVE PmOneAtATime' /\ PmQuiet' /\ NoOrphan'
  <2>1. Pms' = Pms /\ Setting' = Setting
    BY <1>10 DEF Pms, Setting, UpdatePm
  <2>. QED  BY <1>10, <2>1, PmNumbers DEF UpdatePm
<1>11. ASSUME NEW t \in Threads, WaitedPm(t) PROVE PmOneAtATime' /\ PmQuiet' /\ NoOrphan'
  <2>1. Pms' = Pms
    BY <1>11 DEF Pms, WaitedPm
  <2>2. Setting' = Setting \cup {t} /\ t \notin Setting
    BY <1>11 DEF Setting, WaitedPm
  <2>3. Cardinality(Setting') = Cardinality(Setting) + 1
    BY <2>2, PmNumbers, FS_AddElement
  <2>4. present /\ removePc = "idle"
    BY <1>11 DEF WaitedPm
  <2>5. /\ ~overlap' => ~overlap /\ (pmDone = 0 => Pms = 0 /\ Setting = {})
        /\ pmDone' = IF pmDone > 0 THEN pmDone - 1 ELSE 0
    BY <1>11, PmNumbers DEF WaitedPm, UnderWay
  <2>6. ~overlap' => pmDone' + Pms + Cardinality(Setting) <= 0
    BY <2>5, PmNumbers
  <2>7. PmOneAtATime' /\ PmQuiet'
    BY <1>11, <2>1, <2>3, <2>4, <2>6, PmNumbers DEF WaitedPm
  <2>. QED  BY <1>11, <2>5, <2>7 DEF WaitedPm
<1>12. ASSUME NEW t \in Threads, SetPm(t) PROVE PmOneAtATime' /\ PmQuiet' /\ NoOrphan'
  <2>1. Setting' = Setting \ {t} /\ t \in Setting
    BY <1>12 DEF Setting, SetPm
  <2>2. Cardinality(Setting') = Cardinality(Setting) - 1
    BY <2>1, PmNumbers, FS_RemoveElement
  <2>3. Pms' \in {Pms, Pms + 1}
    <3>1. indications' = indications /\ chipPm' \in {chipPm, chipPm + 1}
      BY <1>12 DEF SetPm
    <3>. QED  BY <3>1, PmNumbers DEF Pms, Pm
  <2>4. present /\ removePc = "idle"
    BY <1>12 DEF SetPm
  <2>. QED  BY <1>12, <2>2, <2>3, <2>4, PmNumbers DEF SetPm
<1>13. CASE ChipPmDone
  <2>1. Cardinality(Pm(indications')) = Cardinality(Pm(indications)) + 1
    BY <1>13, PmAppended DEF ChipPmDone
  <2>2. Pms' = Pms /\ Setting' = Setting
    <3>1. Pms' = chipPm' + Cardinality(Pm(indications'))
      BY DEF Pms, Pm
    <3>2. chipPm' = chipPm - 1 /\ pmPc' = pmPc
      BY <1>13 DEF ChipPmDone
    <3>. QED  BY <2>1, <3>1, <3>2, PmNumbers DEF Setting
  <2>. QED  BY <1>13, <2>2, PmNumbers DEF ChipPmDone
<1>14. CASE ChipEvent("lost")
  <2>1. Cardinality(Pm(indications')) = Cardinality(Pm(indications))
    BY <1>14, PmAppended DEF ChipEvent
  <2>2. Pms' = Pms /\ Setting' = Setting
    BY <1>14, <2>1, PmNumbers DEF Pms, Pm, Setting, ChipEvent
  <2>. QED  BY <1>14, <2>2, PmNumbers DEF ChipEvent
<1>15. CASE ChipEvent("regained")
  <2>1. Cardinality(Pm(indications')) = Cardinality(Pm(indications))
    BY <1>15, PmAppended DEF ChipEvent
  <2>2. Pms' = Pms /\ Setting' = Setting
    BY <1>15, <2>1, PmNumbers DEF Pms, Pm, Setting, ChipEvent
  <2>. QED  BY <1>15, <2>2, PmNumbers DEF ChipEvent
<1>16. CASE PmComplete
  <2>1. Cardinality(Pm(indications')) = Cardinality(Pm(indications)) - 1
    BY <1>16, PmTaken DEF PmComplete, Handle
  <2>2. Pms' = Pms - 1 /\ Setting' = Setting /\ Pms > 0
    <3>1. 1 \in Pm(indications)
      BY <1>16 DEF PmComplete, Handle, Pm
    <3>2. Cardinality(Pm(indications)) > 0
      BY <3>1, PmFinite, PmNumbers, FS_EmptySet
    <3>. QED  BY <1>16, <2>1, <3>2, PmNumbers DEF Pms, Pm, Setting, PmComplete
  <2>. QED  BY <1>16, <2>2, PmNumbers DEF PmComplete
<1>17. CASE BssLost
  <2>1. Cardinality(Pm(indications')) = Cardinality(Pm(indications))
    BY <1>17, PmTaken DEF BssLost, Handle
  <2>2. Pms' = Pms /\ Setting' = Setting
    BY <1>17, <2>1, PmNumbers DEF Pms, Pm, Setting, BssLost
  <2>. QED  BY <1>17, <2>2, PmNumbers DEF BssLost
<1>18. CASE BssRegained
  <2>1. Cardinality(Pm(indications')) = Cardinality(Pm(indications))
    BY <1>18, PmTaken DEF BssRegained, Handle
  <2>2. Pms' = Pms /\ Setting' = Setting
    BY <1>18, <2>1, PmNumbers DEF Pms, Pm, Setting, BssRegained
  <2>. QED  BY <1>18, <2>2, PmNumbers DEF BssRegained
<1>19. CASE LossRuns
  <2>1. Pms' = Pms /\ Setting' = Setting
    BY <1>19 DEF Pms, Setting, LossRuns
  <2>. QED  BY <1>19, <2>1, PmNumbers DEF LossRuns
<1>20. CASE LossReschedules
  <2>1. Pms' = Pms /\ Setting' = Setting
    BY <1>20 DEF Pms, Setting, LossReschedules
  <2>. QED  BY <1>20, <2>1, PmNumbers DEF LossReschedules
<1>21. CASE Ready /\ StationsNext
           /\ UNCHANGED <<pmVars, lossVars, lifeVars, chipVars, orphan>>
  <2>1. Pms' = Pms /\ Setting' = Setting
    BY <1>21 DEF Pms, Setting
  <2>. QED  BY <1>21, <2>1
<1>22. CASE UNCHANGED vars
  <2>1. Pms' = Pms /\ Setting' = Setting
    BY <1>22 DEF Pms, Setting
  <2>. QED  BY <1>22, <2>1
<1>. QED  BY <1>1, <1>2, <1>3, <1>4, <1>5, <1>6, <1>7, <1>8, <1>9, <1>10,
  <1>11, <1>12, <1>13, <1>14, <1>15, <1>16, <1>17, <1>18, <1>19, <1>20, <1>21,
  <1>22 DEF Next

-----------------------------------------------------------------------------
(* The theorems *)

\* The invariant holds in every state.
THEOREM VifInvariance == Spec => []Inv
<1>1. Init => Inv
  <2>. SUFFICES ASSUME Init PROVE Inv
    OBVIOUS
  <2>. USE VifAssumption DEF Init
  <2>1. TablesSound
    BY StationsInitSound
  <2>2. TypeOK
    <3>1. /\ present \in BOOLEAN /\ assoc \in BOOLEAN /\ joined \in BOOLEAN
          /\ lossPending \in BOOLEAN /\ lossRunning \in BOOLEAN
          /\ overlap \in BOOLEAN /\ orphan \in BOOLEAN
          /\ lost \in BOOLEAN /\ raced \in BOOLEAN /\ stale \in BOOLEAN
      OBVIOUS
    <3>. QED  BY <2>1, <3>1 DEF TablesSound, TypeOK, Threads
  <2>3. Still /\ EventsJoined /\ LossJustified /\ NoOrphan
    BY DEF Still, EventsJoined, LossJustified, NoOrphan
  <2>4. Pms = 0 /\ Cardinality(Setting) = 0
    <3>1. Pm(indications) = {} /\ Setting = {} /\ chipPm = 0
      BY DEF Pm, Setting
    <3>. HIDE DEF Init
    <3>. QED  BY <2>2, <3>1, PmNumbers, FS_EmptySet
  <2>5. PmOneAtATime /\ PmQuiet
    BY <2>4 DEF PmOneAtATime, PmQuiet
  <2>. QED  BY <2>1, <2>2, <2>3, <2>5 DEF Inv
<1>2. Inv /\ [Next]_vars => Inv'
  BY VifKeepsTypes, VifKeepsStill, VifKeepsLoss, VifKeepsPm DEF Inv
<1>. QED  BY <1>1, <1>2, PTL DEF Spec

\* Every variable keeps its type; above all, set_pm_mode_complete is never
\* counted below zero.
THEOREM VifTypeCorrect == Spec => []TypeOK
<1>1. Inv => TypeOK
  BY DEF Inv
<1>. QED  BY <1>1, VifInvariance, PTL

\* The two threads of wfx_update_pm never have two changes of mode under way,
\* unless the chip was slower than the timeout.
THEOREM OneChangeOfMode == Spec => []PmOneAtATime
<1>1. Inv => PmOneAtATime
  BY DEF Inv
<1>. QED  BY <1>1, VifInvariance, PTL

\* No indication of a change of mode finds its interface removed, unless the
\* chip was slower than the timeout.
THEOREM NeverOrphaned == Spec => []NoOrphan
<1>1. Inv => NoOrphan
  BY DEF Inv
<1>. QED  BY <1>1, VifInvariance, PTL

\* beacon_loss_work is scheduled only while the chip watches a network or the
\* interface is being reset, and only for a network that the chip lost: since it
\* joined, or before, if it joined again without a reset, or before the work that
\* ran when the chip regained it.
THEOREM LossReported == Spec => []LossJustified
<1>1. Inv => LossJustified
  BY DEF Inv
<1>. QED  BY <1>1, VifInvariance, PTL

\* The link ids of the stations and the entries of the keys are never shared
\* and never leak, for any number of them.
THEOREM TablesOwned == Spec => []IndexesOwned
<1>1. Inv => IndexesOwned
  BY DEF Inv, TablesSound
<1>. QED  BY <1>1, VifInvariance, PTL
=============================================================================
