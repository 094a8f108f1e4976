--------------------------- MODULE StationsProofs ---------------------------
(***************************************************************************)
(* Theorems about the tables of Stations, for any number of stations, keys *)
(* and entries.                                                            *)
(***************************************************************************)
EXTENDS Stations, FiniteSetTheorems, WellFoundedInduction, TLAPS

-----------------------------------------------------------------------------
(* The first free bit *)

\* A set of naturals that is not empty has a least element.
LEMMA Least ==
  ASSUME NEW F \in SUBSET Nat, F # {}
  PROVE  \E i \in F : \A j \in F : i <= j
<1>. DEFINE Below == {0 .. i : i \in F}
<1>1. Below \subseteq FiniteSubsetsOf(Nat)
  <2>1. \A i \in F : 0 .. i \in SUBSET Nat /\ IsFiniteSet(0 .. i)
    BY FS_Interval
  <2>. QED  BY <2>1 DEF FiniteSubsetsOf
<1>2. Below # {}
  OBVIOUS
<1>3. PICK b \in Below : \A c \in Below : ~ (<<c, b>> \in StrictSubsetOrdering(Nat))
  <2>. HIDE DEF Below
  <2>. QED  BY <1>1, <1>2, WFMin, FS_StrictSubsetOrderingWellFounded
<1>4. PICK i \in F : b = 0 .. i
  OBVIOUS
<1>5. ASSUME NEW j \in F, j < i PROVE FALSE
  <2>1. 0 .. j \in SUBSET (0 .. i) /\ 0 .. j # 0 .. i
    BY <1>5
  <2>2. 0 .. j \in Below /\ 0 .. i \in SUBSET Nat
    OBVIOUS
  <2>3. <<0 .. j, b>> \in StrictSubsetOrdering(Nat)
    BY <1>4, <2>1, <2>2 DEF StrictSubsetOrdering
  <2>. QED  BY <1>3, <2>2, <2>3
<1>. QED  BY <1>5

\* ffz finds a bit that is clear, within one more than the bits that are set.
LEMMA FirstFreeIsFree ==
  ASSUME NEW map \in SUBSET Nat, IsFiniteSet(map)
  PROVE  /\ FirstFree(map) \in 0 .. Cardinality(map)
         /\ FirstFree(map) \notin map
<1>. DEFINE C == Cardinality(map)
            F == {i \in 0 .. C : i \notin map}
<1>1. C \in Nat
  BY FS_CardinalityType
<1>2. F # {}
  <2>1. SUFFICES ASSUME F = {} PROVE FALSE
    OBVIOUS
  <2>2. 0 .. C \in SUBSET map
    BY <2>1
  <2>3. Cardinality(0 .. C) <= C
    BY <2>2, FS_Subset
  <2>4. Cardinality(0 .. C) = C + 1
    BY <1>1, FS_Interval
  <2>. QED  BY <1>1, <2>3, <2>4
<1>3. PICK i \in F : \A j \in F : i <= j
  <2>1. F \in SUBSET Nat
    BY <1>1
  <2>. QED  BY <1>2, <2>1, Least
<1>4. i \in 0 .. C /\ i \notin map
  OBVIOUS
<1>5. \A j \in 0 .. i - 1 : j \in map
  BY <1>1, <1>3
<1>. HIDE DEF C, F
<1>6. \E k \in 0 .. C : k \notin map /\ \A j \in 0 .. k - 1 : j \in map
  BY <1>4, <1>5
<1>. QED  BY <1>6 DEF FirstFree, C

-----------------------------------------------------------------------------
(* The tables *)

\* The tables in a state the driver may be in: finite, owned, well typed.
TablesSound ==
    StationsTypeOK /\ IsFiniteSet(linkIdMap) /\ IndexesOwned

\* The first state is sound.
LEMMA StationsInitSound ==
  ASSUME StationsInit
  PROVE  TablesSound
<1>. USE StationsAssumption DEF StationsInit
<1>1. StationsTypeOK
  BY DEF StationsTypeOK, Entries
<1>2. IsFiniteSet(linkIdMap)
  BY FS_Singleton
<1>3. IndexesOwned
  BY DEF IndexesOwned, Added
<1>. QED  BY <1>1, <1>2, <1>3 DEF TablesSound

\* An added station gets an id that no other has.
LEMMA StaAddSound ==
  ASSUME TablesSound, NEW s \in Stas, StaAdd(s)
  PROVE  TablesSound'
<1>. DEFINE i == FirstFree(linkIdMap)
<1>. USE StationsAssumption DEF TablesSound, StaAdd, keyVars
<1>1. i \in Nat /\ i \notin linkIdMap
  <2>1. Cardinality(linkIdMap) \in Nat
    BY FS_CardinalityType
  <2>. QED  BY <2>1, FirstFreeIsFree DEF StationsTypeOK
<1>2. linkId' = [linkId EXCEPT ![s] = i] /\ linkIdMap' = linkIdMap \cup {i}
  OBVIOUS
<1>3. IsFiniteSet(linkIdMap')
  BY <1>2, FS_AddElement
<1>. HIDE DEF i
<1>4. StationsTypeOK'
  BY <1>1, <1>2 DEF StationsTypeOK, Entries
<1>5. i # 0 /\ \A t \in Added : linkId[t] # i
  BY <1>1 DEF IndexesOwned
<1>6. Added' = Added \cup {s} /\ linkId'[s] = i
        /\ \A t \in Stas \ {s} : linkId'[t] = linkId[t]
  BY <1>2, <1>5 DEF Added, StationsTypeOK
<1>7. s \notin Added
  BY DEF Added
<1>8. linkIdMap' = {0} \cup {linkId'[t] : t \in Added'}
  BY <1>2, <1>6, <1>7 DEF IndexesOwned
<1>9. \A t, u \in Added' : linkId'[t] = linkId'[u] => t = u
  BY <1>5, <1>6 DEF IndexesOwned, Added
<1>10. /\ keyMap' = {keyIdx'[k] : k \in Keys} \ {-1}
       /\ \A k \in Keys : keyIdx'[k] # -1 => chipKeys'[keyIdx'[k]] = k
  BY DEF IndexesOwned
<1>11. IndexesOwned'
  <2>. HIDE DEF StaAdd, TablesSound
  <2>. QED  BY <1>8, <1>9, <1>10 DEF IndexesOwned
<1>. QED  BY <1>3, <1>4, <1>11

\* A removed station gives back its id, and only that.
LEMMA StaRemoveSound ==
  ASSUME TablesSound, NEW s \in Stas, StaRemove(s)
  PROVE  TablesSound'
<1>. USE StationsAssumption DEF TablesSound, StaRemove, keyVars
<1>1. IsFiniteSet(linkIdMap')
  BY FS_RemoveElement
<1>2. StationsTypeOK'
  BY DEF StationsTypeOK, Entries
<1>3. Added' = Added \ {s} /\ s \in Added
        /\ \A t \in Stas \ {s} : linkId'[t] = linkId[t]
  BY DEF Added, StationsTypeOK
<1>4. IndexesOwned'
  BY <1>3 DEF IndexesOwned, Added
<1>. QED  BY <1>1, <1>2, <1>4

\* A key that the chip accepts gets an entry that no other has.
LEMMA KeyAddSound ==
  ASSUME TablesSound, NEW k \in Keys, KeyAdd(k)
  PROVE  TablesSound'
<1>. DEFINE i == FirstFree(keyMap)
<1>. USE StationsAssumption DEF TablesSound, KeyAdd, staVars
<1>1. CASE UNCHANGED keyVars
  BY <1>1 DEF keyVars, StationsTypeOK, IndexesOwned, Added
<1>2. CASE /\ keyIdx' = [keyIdx EXCEPT ![k] = FirstFree(keyMap)]
           /\ keyMap' = keyMap \cup {FirstFree(keyMap)}
           /\ chipKeys' = [chipKeys EXCEPT ![FirstFree(keyMap)] = k]
  <2>1. i \in Entries /\ i \notin keyMap
    <3>1. IsFiniteSet(Entries)
      BY FS_Interval DEF Entries
    <3>2. IsFiniteSet(keyMap) /\ keyMap \in SUBSET Nat
      <4>1. keyMap \in SUBSET Entries
        BY DEF StationsTypeOK
      <4>2. IsFiniteSet(keyMap)
        BY <3>1, <4>1, FS_Subset
      <4>. QED  BY <4>1, <4>2 DEF Entries
    <3>3. Cardinality(keyMap) \in Nat
      BY <3>2, FS_CardinalityType
    <3>. QED  BY <3>2, <3>3, FirstFreeIsFree DEF Entries
  <2>. HIDE DEF i
  <2>2. /\ keyIdx' = [keyIdx EXCEPT ![k] = i]
        /\ keyMap' = keyMap \cup {i}
        /\ chipKeys' = [chipKeys EXCEPT ![i] = k]
    BY <1>2 DEF i
  <2>3. StationsTypeOK'
    BY <2>1, <2>2 DEF StationsTypeOK
  <2>4. /\ keyIdx'[k] = i /\ i # -1 /\ keyIdx[k] = -1
        /\ \A l \in Keys \ {k} : keyIdx'[l] = keyIdx[l] /\ keyIdx[l] # i
    BY <2>1, <2>2 DEF StationsTypeOK, IndexesOwned, Entries
  <2>5. keyMap' = {keyIdx'[l] : l \in Keys} \ {-1}
    BY <2>2, <2>4 DEF IndexesOwned
  <2>6. \A l \in Keys : keyIdx'[l] # -1 => chipKeys'[keyIdx'[l]] = l
    BY <2>1, <2>2, <2>4 DEF IndexesOwned, StationsTypeOK
  <2>7. IndexesOwned'
    BY <2>5, <2>6 DEF IndexesOwned, Added
  <2>. QED  BY <2>3, <2>7
<1>. QED  BY <1>1, <1>2

\* A removed key frees its entry, and only that.
LEMMA KeyRemoveSound ==
  ASSUME TablesSound, NEW k \in Keys, KeyRemove(k)
  PROVE  TablesSound'
<1>. USE StationsAssumption DEF TablesSound, KeyRemove, staVars
<1>1. StationsTypeOK'
  BY DEF StationsTypeOK
<1>2. /\ keyIdx'[k] = -1 /\ keyIdx[k] # -1
      /\ \A l \in Keys \ {k} : keyIdx'[l] = keyIdx[l]
      /\ \A l \in Keys \ {k} : keyIdx[l] # -1 => keyIdx[l] # keyIdx[k]
  BY DEF StationsTypeOK, IndexesOwned
<1>3. keyMap' = {keyIdx'[l] : l \in Keys} \ {-1}
  BY <1>2 DEF IndexesOwned
<1>4. \A l \in Keys : keyIdx'[l] # -1 => chipKeys'[keyIdx'[l]] = l
  BY <1>2 DEF IndexesOwned, StationsTypeOK
<1>5. IndexesOwned'
  BY <1>3, <1>4 DEF IndexesOwned, Added
<1>. QED  BY <1>1, <1>5

\* Whatever changes neither table keeps them sound.
LEMMA TablesUnchanged ==
  ASSUME TablesSound, UNCHANGED <<staVars, keyVars>>
  PROVE  TablesSound'
BY DEF TablesSound, staVars, keyVars, StationsTypeOK, IndexesOwned, Added

\* Every operation on the tables keeps them sound.
THEOREM StationsNextSound ==
  ASSUME TablesSound, StationsNext
  PROVE  TablesSound'
BY StaAddSound, StaRemoveSound, KeyAddSound, KeyRemoveSound DEF StationsNext
=============================================================================
