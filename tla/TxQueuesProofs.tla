--------------------------- MODULE TxQueuesProofs ---------------------------
(***************************************************************************)
(* Theorems about TxQueues, for any number of frames, queues and threads:  *)
(* the multicast frames are always announced; and, for a chip that says    *)
(* nothing more once it was declared frozen, every frame has exactly one   *)
(* owner, the counters of the queues are exact, who holds tx_lock over a   *)
(* flushed chip finds the silence it asked for, and a flush leaves nothing *)
(* behind.                                                                 *)
(***************************************************************************)
EXTENDS TxQueues, TLAPS, FiniteSetTheorems

-----------------------------------------------------------------------------
(* The inductive invariant *)

\* The bottom half is in charge of the frame.
Held(f) == bhFrame = f /\ bhPc \in {"append", "report"}

\* Where things are: a frame is in the lists of its queue only, the bottom half
\* has a frame exactly where it needs one, which is pending until it is
\* unlinked, and the threads drop pending frames only of a silent chip.
Places ==
    /\ \A f \in Frames, q \in Queues :
          f \in ListOf(normal[q]) \cup ListOf(cab[q]) => QueueOf[f] = q
    /\ frozen => hung /\ output = <<>> /\ bhPc \notin Finishing
    /\ bhPc \in Sending \cup Finishing => bhFrame \in Frames
    /\ bhPc \in {"count", "unlink"} => bhFrame \in txPending
    /\ \A p \in Procs :
          /\ pc[p] = "count" => hand[p] \in Frames
          /\ pc[p] # "count" => hand[p] = None
          /\ pc[p] \in {"pending", "count"} => frozen

Inv == TypeOK /\ Places /\ OneOwner /\ PendingExact

-----------------------------------------------------------------------------
(* Counting a frame in a list *)

At1(s, f) == {i \in DOMAIN s : s[i] = f}

\* The places of a frame in a list are finitely many, none exactly if the
\* frame is not in it.
LEMMA TimesNumber ==
  ASSUME NEW S, NEW s \in Seq(S), NEW f
  PROVE  /\ IsFiniteSet(At1(s, f))
         /\ Times(s, f) \in Nat
         /\ Times(s, f) = 0 <=> f \notin ListOf(s)
<1>1. IsFiniteSet(1 .. Len(s)) /\ At1(s, f) \in SUBSET (1 .. Len(s))
  BY FS_Interval DEF At1
<1>2. IsFiniteSet(At1(s, f))
  BY <1>1, FS_Subset
<1>3. Times(s, f) = Cardinality(At1(s, f))
  BY DEF Times, At1
<1>4. At1(s, f) = {} <=> f \notin ListOf(s)
  BY DEF At1, ListOf
<1>. QED  BY <1>2, <1>3, <1>4, FS_CardinalityType, FS_EmptySet

\* A frame appended to a list is once more in it.
LEMMA TimesAppended ==
  ASSUME NEW S, NEW s \in Seq(S), NEW e \in S, NEW f
  PROVE  Times(Append(s, e), f) = Times(s, f) + Count(e = f)
<1>1. IsFiniteSet(At1(s, f)) /\ Times(s, f) \in Nat
  BY TimesNumber
<1>2. Times(s, f) = Cardinality(At1(s, f))
      /\ Times(Append(s, e), f) = Cardinality(At1(Append(s, e), f))
  BY DEF Times, At1
<1>3. CASE e = f
  <2>1. At1(Append(s, e), f) = At1(s, f) \cup {Len(s) + 1}
        /\ Len(s) + 1 \notin At1(s, f)
    BY <1>3 DEF At1
  <2>2. Cardinality(At1(s, f) \cup {Len(s) + 1}) = Cardinality(At1(s, f)) + 1
    BY <1>1, <2>1, FS_AddElement
  <2>3. Count(e = f) = 1
    BY <1>3 DEF Count
  <2>. QED  BY <1>2, <2>1, <2>2, <2>3
<1>4. CASE e # f
  <2>1. At1(Append(s, e), f) = At1(s, f)
    BY <1>4 DEF At1
  <2>2. Count(e = f) = 0
    BY <1>4 DEF Count
  <2>. QED  BY <1>1, <1>2, <2>1, <2>2
<1>. QED  BY <1>3, <1>4

\* The first frame of a list, once taken, is once less in it.
LEMMA TimesTaken ==
  ASSUME NEW S, NEW s \in Seq(S), s # <<>>, NEW f
  PROVE  Times(Tail(s), f) = Times(s, f) - Count(Head(s) = f)
<1>. DEFINE R == At1(s, f) \ {1}
            g == [i \in At1(Tail(s), f) |-> i + 1]
<1>1. IsFiniteSet(At1(s, f)) /\ IsFiniteSet(At1(Tail(s), f)) /\ Times(s, f) \in Nat
  <2>1. Tail(s) \in Seq(S)
    OBVIOUS
  <2>. QED  BY <2>1, TimesNumber
<1>2. \A i \in At1(Tail(s), f) : i \in Nat /\ i + 1 \in R
  BY DEF At1
<1>3. \A j \in R : j - 1 \in At1(Tail(s), f) /\ g[j - 1] = j
  <2>1. SUFFICES ASSUME NEW j \in R PROVE j - 1 \in At1(Tail(s), f) /\ g[j - 1] = j
    OBVIOUS
  <2>2. j \in 2 .. Len(s) /\ s[j] = f
    BY DEF At1
  <2>3. j - 1 \in 1 .. Len(Tail(s)) /\ Tail(s)[j - 1] = s[j]
    BY <2>2
  <2>4. j - 1 \in At1(Tail(s), f)
    BY <2>2, <2>3 DEF At1
  <2>. QED  BY <2>2, <2>4
<1>4. g \in Bijection(At1(Tail(s), f), R)
  <2>1. g \in [At1(Tail(s), f) -> R]
    BY <1>2
  <2>2. \A i, j \in At1(Tail(s), f) : g[i] = g[j] => i = j
    BY <1>2
  <2>3. \A j \in R : \E i \in At1(Tail(s), f) : g[i] = j
    BY <1>3
  <2>. HIDE DEF g, R
  <2>. QED  BY <2>1, <2>2, <2>3 DEF Bijection, Injection, Surjection, IsInjective
<1>5. Cardinality(R) = Cardinality(At1(Tail(s), f))
  <2>. HIDE DEF g, R
  <2>. QED  BY <1>1, <1>4, FS_Bijection DEF ExistsBijection
<1>6. Cardinality(R) = IF 1 \in At1(s, f) THEN Cardinality(At1(s, f)) - 1
                                          ELSE Cardinality(At1(s, f))
  BY <1>1, FS_RemoveElement
<1>7. 1 \in At1(s, f) <=> Head(s) = f
  BY DEF At1
<1>8. Times(s, f) = Cardinality(At1(s, f))
      /\ Times(Tail(s), f) = Cardinality(At1(Tail(s), f))
  BY DEF Times, At1
<1>. QED  BY <1>1, <1>5, <1>6, <1>7, <1>8 DEF Count

\* What is in a longer and in a shorter list.
LEMMA ListAppended ==
  ASSUME NEW S, NEW s \in Seq(S), NEW e \in S
  PROVE  ListOf(Append(s, e)) = ListOf(s) \cup {e}
<1>1. /\ DOMAIN Append(s, e) = DOMAIN s \cup {Len(s) + 1}
      /\ \A i \in DOMAIN s : Append(s, e)[i] = s[i]
      /\ Append(s, e)[Len(s) + 1] = e
  OBVIOUS
<1>. QED  BY <1>1 DEF ListOf

LEMMA ListTaken ==
  ASSUME NEW S, NEW s \in Seq(S), s # <<>>
  PROVE  Head(s) \in S /\ ListOf(Tail(s)) \subseteq ListOf(s)
<1>1. ASSUME NEW i \in DOMAIN Tail(s)
      PROVE  i + 1 \in DOMAIN s /\ Tail(s)[i] = s[i + 1]
  OBVIOUS
<1>. QED  BY <1>1 DEF ListOf

-----------------------------------------------------------------------------
(* The owners of a frame *)

Hands(f) == {p \in Procs : hand[p] = f}
Drops(f) == {p \in Procs : f \in dropped[p]}

\* The parts of the sum are numbers; an empty set counts nothing.
LEMMA Parts ==
  ASSUME TypeOK, NEW f \in Frames
  PROVE  /\ Times(normal[QueueOf[f]], f) \in Nat /\ Times(cab[QueueOf[f]], f) \in Nat
         /\ IsFiniteSet(Hands(f)) /\ Cardinality(Hands(f)) \in Nat
         /\ Cardinality(Hands(f)) = 0 <=> Hands(f) = {}
         /\ IsFiniteSet(Drops(f)) /\ Cardinality(Drops(f)) \in Nat
         /\ Cardinality(Drops(f)) = 0 <=> Drops(f) = {}
         /\ reports[f] \in Nat
<1>. USE QueuesAssumption
<1>1. IsFiniteSet(Procs) /\ Hands(f) \in SUBSET Procs /\ Drops(f) \in SUBSET Procs
  BY DEF Procs, Hands, Drops
<1>2. IsFiniteSet(Hands(f)) /\ IsFiniteSet(Drops(f))
  BY <1>1, FS_Subset
<1>3. Times(normal[QueueOf[f]], f) \in Nat /\ Times(cab[QueueOf[f]], f) \in Nat
  <2>1. normal[QueueOf[f]] \in Seq(Frames) /\ cab[QueueOf[f]] \in Seq(Frames)
    BY DEF TypeOK
  <2>. QED  BY <2>1, TimesNumber
<1>. QED  BY <1>2, <1>3, FS_CardinalityType, FS_EmptySet DEF TypeOK

\* The sum, in the words of this module, before and after a step.
LEMMA Sum ==
  ASSUME NEW f \in Frames
  PROVE  /\ Owners(f) = Times(normal[QueueOf[f]], f) + Times(cab[QueueOf[f]], f)
                        + Count(f \in txPending) + Count(Held(f))
                        + Cardinality(Hands(f)) + Cardinality(Drops(f)) + reports[f]
         /\ Owners(f)' = Times(normal'[QueueOf[f]], f) + Times(cab'[QueueOf[f]], f)
                        + Count(f \in txPending') + Count(Held(f)')
                        + Cardinality(Hands(f)') + Cardinality(Drops(f)') + reports'[f]
BY DEF Owners, Held, Hands, Drops, Times

\* A frame with the same parts has the same number of owners.
LEMMA SameParts ==
  ASSUME NEW f \in Frames,
         Times(normal'[QueueOf[f]], f) = Times(normal[QueueOf[f]], f),
         Times(cab'[QueueOf[f]], f) = Times(cab[QueueOf[f]], f),
         f \in txPending' <=> f \in txPending, Held(f)' <=> Held(f),
         Hands(f)' = Hands(f), Drops(f)' = Drops(f), reports'[f] = reports[f]
  PROVE  Owners(f)' = Owners(f)
<1>1. Count(f \in txPending') = Count(f \in txPending) /\ Count(Held(f)') = Count(Held(f))
  BY DEF Count
<1>. QED  BY <1>1, Sum

\* A step that moves no frame.
LEMMA SameOwners ==
  ASSUME OneOwner, UNCHANGED <<normal, cab, txPending, hand, dropped, reports>>,
         \A f \in Frames : stage'[f] = "new" <=> stage[f] = "new",
         \A f \in Frames : Held(f)' <=> Held(f)
  PROVE  OneOwner'
<1>. SUFFICES ASSUME NEW f \in Frames PROVE Owners(f)' = Count(stage'[f] # "new")
  BY DEF OneOwner
<1>1. Owners(f)' = Owners(f)
  <2>1. Hands(f)' = Hands(f) /\ Drops(f)' = Drops(f)
    BY DEF Hands, Drops
  <2>. QED  BY <2>1, SameParts
<1>2. Count(stage'[f] # "new") = Count(stage[f] # "new")
  BY DEF Count
<1>. QED  BY <1>1, <1>2 DEF OneOwner

-----------------------------------------------------------------------------
(* Each step that moves a frame leaves it with one owner *)

\* A frame has one owner at most, so that one part at most is not zero.
LEMMA Exclusive ==
  ASSUME TypeOK, OneOwner, NEW f \in Frames
  PROVE  /\ Times(normal[QueueOf[f]], f) + Times(cab[QueueOf[f]], f)
            + Count(f \in txPending) + Count(Held(f))
            + Cardinality(Hands(f)) + Cardinality(Drops(f)) + reports[f]
               = Count(stage[f] # "new")
         /\ Count(stage[f] # "new") \in 0 .. 1
         /\ Count(f \in txPending) = IF f \in txPending THEN 1 ELSE 0
         /\ Count(Held(f)) = IF Held(f) THEN 1 ELSE 0
<1>1. Owners(f) = Count(stage[f] # "new")
  BY DEF OneOwner
<1>. QED  BY <1>1, Sum DEF Count

\* A frame that no part owns, or one that mac80211 has just given.
LEMMA PutOwner ==
  ASSUME Inv, NEW e \in Frames, Put(e)
  PROVE  OneOwner'
<1>. SUFFICES ASSUME NEW f \in Frames PROVE Owners(f)' = Count(stage'[f] # "new")
  BY DEF OneOwner
<1>. DEFINE q == QueueOf[e]
<1>1. TypeOK /\ OneOwner
  BY DEF Inv
<1>2. q \in Queues /\ normal[q] \in Seq(Frames) /\ cab[q] \in Seq(Frames)
  BY <1>1, QueuesAssumption DEF TypeOK
<1>3. Held(f)' <=> Held(f)
  BY DEF Put, Held, bhVars
<1>4. /\ Hands(f)' = Hands(f) /\ Drops(f)' = Drops(f) /\ reports'[f] = reports[f]
      /\ f \in txPending' <=> f \in txPending
  BY DEF Put, Hands, Drops, procVars
<1>5. CASE f # e
  <2>1. Count(e = f) = 0
    BY <1>5 DEF Count
  <2>2. Times(normal'[QueueOf[f]], f) = Times(normal[QueueOf[f]], f)
    <3>1. CASE QueueOf[f] = q /\ e \notin Mcast
      <4>1. normal'[q] = Append(normal[q], e)
        BY <1>1, <1>2, <3>1 DEF Put, Enqueue, TypeOK
      <4>. QED  BY <1>1, <1>2, <2>1, <3>1, <4>1, TimesAppended, Parts
    <3>2. CASE QueueOf[f] # q \/ e \in Mcast
      BY <1>1, <1>2, <3>2, QueuesAssumption DEF Put, Enqueue, TypeOK
    <3>. QED  BY <3>1, <3>2
  <2>3. Times(cab'[QueueOf[f]], f) = Times(cab[QueueOf[f]], f)
    <3>1. CASE QueueOf[f] = q /\ e \in Mcast
      <4>1. cab'[q] = Append(cab[q], e)
        BY <1>1, <1>2, <3>1 DEF Put, Enqueue, TypeOK
      <4>. QED  BY <1>1, <1>2, <2>1, <3>1, <4>1, TimesAppended, Parts
    <3>2. CASE QueueOf[f] # q \/ e \notin Mcast
      BY <1>1, <1>2, <3>2, QueuesAssumption DEF Put, Enqueue, TypeOK
    <3>. QED  BY <3>1, <3>2
  <2>4. stage'[f] = stage[f]
    BY <1>1, <1>5 DEF Put, TypeOK
  <2>. QED  BY <1>1, <1>3, <1>4, <2>2, <2>3, <2>4, SameParts DEF OneOwner
<1>6. CASE f = e
  <2>1. Count(e = f) = 1
    BY <1>6 DEF Count
  <2>2. Times(normal'[q], f) + Times(cab'[q], f)
           = Times(normal[q], f) + Times(cab[q], f) + 1
    <3>0. Times(normal[q], f) \in Nat /\ Times(cab[q], f) \in Nat
      BY <1>1, <1>6, Parts
    <3>1. CASE e \in Mcast
      <4>1. cab'[q] = Append(cab[q], e) /\ normal' = normal
        BY <1>1, <1>2, <3>1 DEF Put, Enqueue, TypeOK
      <4>2. Times(cab'[q], f) = Times(cab[q], f) + 1
        BY <1>2, <2>1, <4>1, TimesAppended
      <4>. QED  BY <3>0, <4>1, <4>2
    <3>2. CASE e \notin Mcast
      <4>1. normal'[q] = Append(normal[q], e) /\ cab' = cab
        BY <1>1, <1>2, <3>2 DEF Put, Enqueue, TypeOK
      <4>2. Times(normal'[q], f) = Times(normal[q], f) + 1
        BY <1>2, <2>1, <4>1, TimesAppended
      <4>. QED  BY <3>0, <4>1, <4>2
    <3>. QED  BY <3>1, <3>2
  <2>3. stage[f] = "new" /\ stage'[f] # "new"
    BY <1>1, <1>6 DEF Put, TypeOK
  <2>4. Count(stage[f] # "new") = 0 /\ Count(stage'[f] # "new") = 1
    BY <2>3 DEF Count
  <2>5. Count(f \in txPending') = Count(f \in txPending) /\ Count(Held(f)') = Count(Held(f))
    BY <1>3, <1>4 DEF Count
  <2>6. Owners(f) = 0
    BY <1>1, <2>4 DEF OneOwner
  <2>7. /\ Count(f \in txPending) \in Nat /\ Count(Held(f)) \in Nat
        /\ Times(normal'[q], f) + Times(cab'[q], f) \in Nat
    <3>1. Times(normal[q], f) \in Nat /\ Times(cab[q], f) \in Nat
      BY <1>1, <1>6, Parts
    <3>. QED  BY <2>2, <3>1 DEF Count
  <2>8. Owners(f)' = Times(normal'[q], f) + Times(cab'[q], f)
                     + Count(f \in txPending) + Count(Held(f))
                     + Cardinality(Hands(f)) + Cardinality(Drops(f)) + reports[f]
    BY <1>4, <1>6, <2>5, Sum
  <2>9. Owners(f)' = Owners(f) + 1
    <3>. HIDE DEF q
    <3>1. Owners(f) = Times(normal[q], f) + Times(cab[q], f)
                     + Count(f \in txPending) + Count(Held(f))
                     + Cardinality(Hands(f)) + Cardinality(Drops(f)) + reports[f]
      BY <1>6, Sum DEF q
    <3>2. /\ Times(normal[q], f) \in Nat /\ Times(cab[q], f) \in Nat
          /\ Cardinality(Hands(f)) \in Nat /\ Cardinality(Drops(f)) \in Nat
          /\ reports[f] \in Nat
      BY <1>1, <1>6, Parts DEF q
    <3>. QED  BY <2>2, <2>7, <2>8, <3>1, <3>2
  <2>. QED  BY <2>4, <2>6, <2>9
<1>. QED  BY <1>5, <1>6

\* The first frame of a list of q, once taken by the bottom half.
LEMMA TakenOwner ==
  ASSUME Inv, bhPc \in {"pick", "normal"}, bhPc' = "append",
         NEW q \in Queues, NEW e \in Frames, QueueOf[e] = q, bhFrame' = e,
         UNCHANGED <<stage, txPending, reports, hand, dropped>>,
         \A f \in Frames :
            Times(normal'[QueueOf[f]], f) + Times(cab'[QueueOf[f]], f) =
            Times(normal[QueueOf[f]], f) + Times(cab[QueueOf[f]], f) - Count(e = f)
  PROVE  OneOwner'
<1>. SUFFICES ASSUME NEW f \in Frames PROVE Owners(f)' = Count(stage'[f] # "new")
  BY DEF OneOwner
<1>1. TypeOK /\ OneOwner
  BY DEF Inv
<1>2. Hands(f)' = Hands(f) /\ Drops(f)' = Drops(f) /\ reports'[f] = reports[f]
  BY DEF Hands, Drops
<1>3. Count(Held(f)) = 0 /\ Count(Held(f)') = Count(e = f)
      /\ Count(f \in txPending') = Count(f \in txPending)
  BY DEF Held, Count
<1>4. Count(e = f) \in 0 .. 1
  BY DEF Count
<1>. QED  BY <1>1, <1>2, <1>3, <1>4, Sum, Exclusive, Parts

LEMMA TakeCabOwner ==
  ASSUME Inv, BhTakeCab
  PROVE  OneOwner'
<1>1. PICK q \in Queues : /\ IsFirst(q, cab) /\ Take(q, Head(cab[q]))
                          /\ cab' = [cab EXCEPT ![q] = Tail(@)]
  BY DEF BhTakeCab
<1>. DEFINE e == Head(cab[q])
<1>2. TypeOK /\ cab[q] \in Seq(Frames) /\ cab[q] # <<>>
  BY <1>1 DEF Inv, TypeOK, IsFirst
<1>3. e \in Frames /\ QueueOf[e] = q
  <2>1. e = cab[q][1] /\ 1 \in DOMAIN cab[q] /\ e \in Frames
    BY <1>2
  <2>. QED  BY <2>1 DEF Inv, Places, ListOf
<1>4. ASSUME NEW f \in Frames
      PROVE  Times(normal'[QueueOf[f]], f) + Times(cab'[QueueOf[f]], f) =
             Times(normal[QueueOf[f]], f) + Times(cab[QueueOf[f]], f) - Count(e = f)
  <2>0. Times(normal[QueueOf[f]], f) \in Nat /\ Times(cab[QueueOf[f]], f) \in Nat
    BY <1>2, Parts
  <2>1. normal' = normal
    BY DEF BhTakeCab
  <2>2. CASE QueueOf[f] = q
    <3>1. cab'[q] = Tail(cab[q])
      BY <1>1, <1>2 DEF TypeOK
    <3>2. Times(cab'[q], f) = Times(cab[q], f) - Count(e = f)
      BY <1>2, <3>1, TimesTaken
    <3>. QED  BY <2>0, <2>1, <2>2, <3>2 DEF Count
  <2>3. CASE QueueOf[f] # q
    <3>1. cab'[QueueOf[f]] = cab[QueueOf[f]] /\ Count(e = f) = 0
      BY <1>1, <1>2, <1>3, <2>3, QueuesAssumption DEF TypeOK, Count
    <3>. QED  BY <2>0, <2>1, <3>1
  <2>. QED  BY <2>2, <2>3
<1>5. bhPc = "pick" /\ bhPc' = "append" /\ bhFrame' = e
      /\ UNCHANGED <<stage, txPending, reports, hand, dropped>>
  BY <1>1 DEF BhTakeCab, Take, procVars
<1>. HIDE DEF e
<1>. QED  BY <1>3, <1>4, <1>5, TakenOwner

LEMMA TakeNormalOwner ==
  ASSUME Inv, BhTakeNormal
  PROVE  OneOwner'
<1>1. PICK q \in Queues : /\ IsFirst(q, normal) /\ Take(q, Head(normal[q]))
                          /\ normal' = [normal EXCEPT ![q] = Tail(@)]
  BY DEF BhTakeNormal
<1>. DEFINE e == Head(normal[q])
<1>2. TypeOK /\ normal[q] \in Seq(Frames) /\ normal[q] # <<>>
  BY <1>1 DEF Inv, TypeOK, IsFirst
<1>3. e \in Frames /\ QueueOf[e] = q
  <2>1. e = normal[q][1] /\ 1 \in DOMAIN normal[q] /\ e \in Frames
    BY <1>2
  <2>. QED  BY <2>1 DEF Inv, Places, ListOf
<1>4. ASSUME NEW f \in Frames
      PROVE  Times(normal'[QueueOf[f]], f) + Times(cab'[QueueOf[f]], f) =
             Times(normal[QueueOf[f]], f) + Times(cab[QueueOf[f]], f) - Count(e = f)
  <2>0. Times(normal[QueueOf[f]], f) \in Nat /\ Times(cab[QueueOf[f]], f) \in Nat
    BY <1>2, Parts
  <2>1. cab' = cab
    BY DEF BhTakeNormal
  <2>2. CASE QueueOf[f] = q
    <3>1. normal'[q] = Tail(normal[q])
      BY <1>1, <1>2 DEF TypeOK
    <3>2. Times(normal'[q], f) = Times(normal[q], f) - Count(e = f)
      BY <1>2, <3>1, TimesTaken
    <3>. QED  BY <2>0, <2>1, <2>2, <3>2 DEF Count
  <2>3. CASE QueueOf[f] # q
    <3>1. normal'[QueueOf[f]] = normal[QueueOf[f]] /\ Count(e = f) = 0
      BY <1>1, <1>2, <1>3, <2>3, QueuesAssumption DEF TypeOK, Count
    <3>. QED  BY <2>0, <2>1, <3>1
  <2>. QED  BY <2>2, <2>3
<1>5. bhPc = "normal" /\ bhPc' = "append" /\ bhFrame' = e
      /\ UNCHANGED <<stage, txPending, reports, hand, dropped>>
  BY <1>1 DEF BhTakeNormal, Take, procVars
<1>. HIDE DEF e
<1>. QED  BY <1>3, <1>4, <1>5, TakenOwner

\* The bottom half lets go of a frame that it has put into tx_pending.
LEMMA AppendOwner ==
  ASSUME Inv, BhAppend
  PROVE  OneOwner'
<1>. SUFFICES ASSUME NEW f \in Frames PROVE Owners(f)' = Count(stage'[f] # "new")
  BY DEF OneOwner
<1>1. TypeOK /\ OneOwner
  BY DEF Inv
<1>2. /\ Hands(f)' = Hands(f) /\ Drops(f)' = Drops(f)
      /\ UNCHANGED <<stage, normal, cab, reports>>
  BY DEF Hands, Drops, BhAppend, procVars
<1>3. CASE f # bhFrame
  <2>1. (f \in txPending' <=> f \in txPending) /\ (Held(f)' <=> Held(f))
    BY <1>3 DEF BhAppend, Held
  <2>. QED  BY <1>1, <1>2, <2>1, SameParts DEF OneOwner
<1>4. CASE f = bhFrame
  <2>1. Held(f) /\ ~Held(f)' /\ f \in txPending'
    BY <1>4 DEF BhAppend, Held
  <2>2. Count(Held(f)') = 0 /\ Count(f \in txPending') = 1
    BY <2>1 DEF Count
  <2>. QED  BY <1>1, <1>2, <2>1, <2>2, Sum, Exclusive, Parts
<1>. QED  BY <1>3, <1>4

\* skb_unlink: the frame is in tx_pending, and in no other list.
LEMMA UnlinkOwner ==
  ASSUME Inv, BhUnlink
  PROVE  OneOwner'
<1>. SUFFICES ASSUME NEW f \in Frames PROVE Owners(f)' = Count(stage'[f] # "new")
  BY DEF OneOwner
<1>1. TypeOK /\ OneOwner /\ bhFrame \in txPending
  BY DEF Inv, Places, BhUnlink
<1>2. Hands(f)' = Hands(f) /\ UNCHANGED <<stage, normal, cab, reports>>
  BY DEF Hands, BhUnlink
<1>3. dropped' = [p \in Procs |-> dropped[p] \ {bhFrame}]
  BY DEF BhUnlink
<1>4. CASE f # bhFrame
  <2>1. (f \in txPending' <=> f \in txPending) /\ (Held(f)' <=> Held(f))
    BY <1>4 DEF BhUnlink, Held
  <2>2. Drops(f)' = Drops(f)
    BY <1>3, <1>4 DEF Drops
  <2>. QED  BY <1>1, <1>2, <2>1, <2>2, SameParts DEF OneOwner
<1>5. CASE f = bhFrame
  <2>1. ~Held(f) /\ Held(f)' /\ f \in txPending /\ f \notin txPending'
    BY <1>1, <1>5 DEF BhUnlink, Held
  <2>2. Count(Held(f)') = 1 /\ Count(f \in txPending') = 0
    BY <2>1 DEF Count
  <2>3. Cardinality(Drops(f)) = 0
    BY <1>1, <2>1, Exclusive, Parts
  <2>4. Drops(f)' = Drops(f)
    <3>1. Drops(f) = {}
      BY <1>1, <2>3, Parts
    <3>2. Drops(f)' = {}
      BY <1>3, <1>5 DEF Drops
    <3>. QED  BY <3>1, <3>2
  <2>5. Count(Held(f)) = 0 /\ Count(f \in txPending) = 1
    BY <2>1 DEF Count
  <2>6. Owners(f)' = Owners(f)
    <3>1. Cardinality(Drops(f)') = Cardinality(Drops(f))
          /\ Cardinality(Hands(f)') = Cardinality(Hands(f))
      BY <1>2, <2>4
    <3>2. Times(normal[QueueOf[f]], f) \in Nat /\ Times(cab[QueueOf[f]], f) \in Nat
      BY <1>1, Parts
    <3>. QED  BY <1>2, <2>2, <2>5, <3>1, <3>2, Sum
  <2>. QED  BY <1>1, <1>2, <2>6 DEF OneOwner
<1>. QED  BY <1>4, <1>5

\* The bottom half gives the frame it holds to mac80211.
LEMMA ReportOwner ==
  ASSUME Inv, BhReport
  PROVE  OneOwner'
<1>. SUFFICES ASSUME NEW f \in Frames PROVE Owners(f)' = Count(stage'[f] # "new")
  BY DEF OneOwner
<1>1. TypeOK /\ OneOwner
  BY DEF Inv
<1>2. /\ Hands(f)' = Hands(f) /\ Drops(f)' = Drops(f)
      /\ UNCHANGED <<stage, normal, cab, txPending>>
      /\ Count(f \in txPending') = Count(f \in txPending)
  BY DEF Hands, Drops, BhReport, procVars, queueVars
<1>3. reports' = [reports EXCEPT ![bhFrame] = @ + 1]
  BY DEF BhReport
<1>4. CASE f # bhFrame
  <2>1. (Held(f)' <=> Held(f)) /\ reports'[f] = reports[f]
    BY <1>1, <1>3, <1>4, QueuesAssumption DEF BhReport, Held, TypeOK
  <2>. QED  BY <1>1, <1>2, <2>1, SameParts DEF OneOwner
<1>5. CASE f = bhFrame
  <2>1. Held(f) /\ ~Held(f)' /\ reports'[f] = reports[f] + 1
    BY <1>1, <1>3, <1>5 DEF BhReport, Held, TypeOK
  <2>2. Count(Held(f)') = 0
    BY <2>1 DEF Count
  <2>. QED  BY <1>1, <1>2, <2>1, <2>2, Sum, Exclusive, Parts
<1>. QED  BY <1>4, <1>5

\* wfx_tx_queue_drop moves the frames of a queue to the list of the thread.
LEMMA DropOwner ==
  ASSUME Inv, NEW p \in Procs, NEW q \in Queues, FlushDrop(p, q)
  PROVE  OneOwner'
<1>. SUFFICES ASSUME NEW f \in Frames PROVE Owners(f)' = Count(stage'[f] # "new")
  BY DEF OneOwner
<1>1. TypeOK /\ OneOwner
  BY DEF Inv
<1>2. /\ Hands(f)' = Hands(f) /\ UNCHANGED <<stage, txPending, reports>>
      /\ Held(f)' <=> Held(f)
      /\ Count(f \in txPending') = Count(f \in txPending)
      /\ Count(Held(f)') = Count(Held(f))
  BY DEF Hands, Held, Count, FlushDrop, OthersUnchanged, bhVars
<1>3. /\ \A r \in Procs : dropped'[r] =
            IF r = p THEN dropped[p] \cup ListOf(cab[q]) \cup ListOf(normal[q])
                     ELSE dropped[r]
      /\ \A r \in Queues : /\ cab'[r] = IF r = q THEN <<>> ELSE cab[r]
                           /\ normal'[r] = IF r = q THEN <<>> ELSE normal[r]
  BY <1>1 DEF FlushDrop, TypeOK
<1>4. QueueOf[f] \in Queues
  BY QueuesAssumption
<1>5. CASE QueueOf[f] # q
  <2>1. f \notin ListOf(cab[q]) \cup ListOf(normal[q])
    BY <1>5 DEF Inv, Places
  <2>2. Drops(f)' = Drops(f)
    BY <1>3, <2>1 DEF Drops
  <2>. QED  BY <1>1, <1>2, <1>3, <1>4, <1>5, <2>2, SameParts DEF OneOwner
<1>6. CASE QueueOf[f] = q
  <2>1. cab[q] \in Seq(Frames) /\ normal[q] \in Seq(Frames)
    BY <1>1 DEF TypeOK
  <2>2. Times(cab'[q], f) = 0 /\ Times(normal'[q], f) = 0
    <3>1. <<>> \in Seq(Frames) /\ f \notin ListOf(<<>>)
      BY DEF ListOf
    <3>2. Times(<<>>, f) = 0
      BY <3>1, TimesNumber
    <3>. QED  BY <1>3, <3>2
  <2>3. CASE f \in ListOf(cab[q]) \cup ListOf(normal[q])
    <3>1. Times(cab[q], f) # 0 \/ Times(normal[q], f) # 0
      BY <2>1, <2>3, TimesNumber
    <3>2. /\ Times(cab[q], f) + Times(normal[q], f) = 1
          /\ Cardinality(Drops(f)) = 0
      <4>1. /\ Times(normal[q], f) \in Nat /\ Times(cab[q], f) \in Nat
            /\ Cardinality(Hands(f)) \in Nat /\ Cardinality(Drops(f)) \in Nat
            /\ reports[f] \in Nat
        BY <1>1, <1>6, Parts
      <4>2. Times(normal[q], f) + Times(cab[q], f)
               + Count(f \in txPending) + Count(Held(f))
               + Cardinality(Hands(f)) + Cardinality(Drops(f)) + reports[f] <= 1
            /\ Count(f \in txPending) \in Nat /\ Count(Held(f)) \in Nat
        BY <1>1, <1>6, Exclusive
      <4>. QED  BY <3>1, <4>1, <4>2
    <3>3. Drops(f) = {} /\ Drops(f)' = {p}
      <4>1. Drops(f) = {}
        BY <1>1, <3>2, Parts
      <4>. QED  BY <1>3, <2>3, <4>1 DEF Drops
    <3>4. Cardinality(Drops(f)') = 1
      BY <3>3, FS_Singleton
    <3>. QED  BY <1>1, <1>2, <1>6, <2>2, <3>2, <3>4, Sum, Exclusive, Parts
  <2>4. CASE f \notin ListOf(cab[q]) \cup ListOf(normal[q])
    <3>1. Times(cab[q], f) = 0 /\ Times(normal[q], f) = 0
      BY <2>1, <2>4, TimesNumber
    <3>2. Drops(f)' = Drops(f)
      BY <1>3, <2>4 DEF Drops
    <3>. QED  BY <1>1, <1>2, <1>6, <2>2, <3>1, <3>2, SameParts DEF OneOwner
  <2>. QED  BY <2>3, <2>4
<1>. QED  BY <1>5, <1>6

\* wfx_pending_drop takes a frame out of tx_pending.
LEMMA PendingTakeOwner ==
  ASSUME Inv, NEW p \in Procs, PendingTake(p)
  PROVE  OneOwner'
<1>1. PICK e \in txPending : txPending' = txPending \ {e}
                             /\ hand' = [hand EXCEPT ![p] = e]
  BY DEF PendingTake
<1>. SUFFICES ASSUME NEW f \in Frames PROVE Owners(f)' = Count(stage'[f] # "new")
  BY DEF OneOwner
<1>2. TypeOK /\ OneOwner
  BY DEF Inv
<1>3. /\ Drops(f)' = Drops(f) /\ UNCHANGED <<stage, normal, cab, reports>>
      /\ Held(f)' <=> Held(f)
  BY DEF Drops, Held, PendingTake, OthersUnchanged, bhVars
<1>4. \A r \in Procs : hand'[r] = IF r = p THEN e ELSE hand[r]
  BY <1>1, <1>2 DEF TypeOK
<1>5. hand[p] = None /\ e \in Frames /\ None \notin Frames
  BY <1>1, <1>2, QueuesAssumption DEF Inv, Places, PendingTake, At, TypeOK
<1>6. CASE f # e
  <2>1. Hands(f)' = Hands(f) /\ (f \in txPending' <=> f \in txPending)
    BY <1>1, <1>4, <1>5, <1>6 DEF Hands
  <2>. QED  BY <1>2, <1>3, <2>1, SameParts DEF OneOwner
<1>7. CASE f = e
  <2>1. Hands(f)' = Hands(f) \cup {p} /\ p \notin Hands(f)
    BY <1>4, <1>5, <1>7 DEF Hands
  <2>2. Cardinality(Hands(f)') = Cardinality(Hands(f)) + 1
    <3>1. IsFiniteSet(Hands(f))
      BY <1>2, Parts
    <3>. QED  BY <2>1, <3>1, FS_AddElement
  <2>3. /\ Count(f \in txPending) = 1 /\ Count(f \in txPending') = 0
        /\ Count(Held(f)') = Count(Held(f))
    BY <1>1, <1>3, <1>7 DEF Count
  <2>. QED  BY <1>2, <1>3, <2>2, <2>3, Sum, Exclusive, Parts
<1>. QED  BY <1>6, <1>7

\* It keeps the frame in its list.
LEMMA PendingCountOwner ==
  ASSUME Inv, NEW p \in Procs, PendingCount(p)
  PROVE  OneOwner'
<1>. DEFINE e == hand[p]
<1>. SUFFICES ASSUME NEW f \in Frames PROVE Owners(f)' = Count(stage'[f] # "new")
  BY DEF OneOwner
<1>1. TypeOK /\ OneOwner /\ e \in Frames /\ None \notin Frames
  BY QueuesAssumption DEF Inv, Places, PendingCount, At
<1>2. /\ UNCHANGED <<stage, normal, cab, txPending, reports>>
      /\ Held(f)' <=> Held(f)
      /\ Count(f \in txPending') = Count(f \in txPending)
      /\ Count(Held(f)') = Count(Held(f))
  BY DEF Held, Count, PendingCount, OthersUnchanged, bhVars
<1>3. \A r \in Procs : /\ hand'[r] = IF r = p THEN None ELSE hand[r]
                       /\ dropped'[r] = IF r = p THEN dropped[p] \cup {e} ELSE dropped[r]
  BY <1>1 DEF PendingCount, TypeOK
<1>4. CASE f # e
  <2>1. Hands(f)' = Hands(f) /\ Drops(f)' = Drops(f)
    BY <1>1, <1>3, <1>4 DEF Hands, Drops
  <2>. QED  BY <1>1, <1>2, <2>1, SameParts DEF OneOwner
<1>5. CASE f = e
  <2>1. p \in Hands(f) /\ Hands(f)' = Hands(f) \ {p} /\ Drops(f)' = Drops(f) \cup {p}
    BY <1>1, <1>3, <1>5 DEF Hands, Drops
  <2>2. Cardinality(Hands(f)) = 1 /\ Cardinality(Drops(f)) = 0
    <3>1. Cardinality(Hands(f)) # 0
      BY <1>1, <2>1, Parts
    <3>2. /\ Times(normal[QueueOf[f]], f) \in Nat /\ Times(cab[QueueOf[f]], f) \in Nat
          /\ Cardinality(Hands(f)) \in Nat /\ Cardinality(Drops(f)) \in Nat
          /\ reports[f] \in Nat
      BY <1>1, Parts
    <3>3. Times(normal[QueueOf[f]], f) + Times(cab[QueueOf[f]], f)
             + Count(f \in txPending) + Count(Held(f))
             + Cardinality(Hands(f)) + Cardinality(Drops(f)) + reports[f] <= 1
          /\ Count(f \in txPending) \in Nat /\ Count(Held(f)) \in Nat
      BY <1>1, Exclusive
    <3>. QED  BY <3>1, <3>2, <3>3
  <2>3. Cardinality(Hands(f)') = 0
    <3>1. IsFiniteSet(Hands(f))
      BY <1>1, Parts
    <3>2. Cardinality(Hands(f) \ {p}) = Cardinality(Hands(f)) - 1
      BY <2>1, <3>1, FS_RemoveElement
    <3>. QED  BY <2>1, <2>2, <3>2
  <2>4. Cardinality(Drops(f)') = 1
    <3>1. Drops(f) = {}
      BY <1>1, <2>2, Parts
    <3>. QED  BY <2>1, <3>1, FS_Singleton
  <2>. QED  BY <1>1, <1>2, <2>2, <2>3, <2>4, Sum, Exclusive, Parts
<1>. QED  BY <1>4, <1>5

\* wfx_flush gives a frame of its list to mac80211.
LEMMA FlushReportOwner ==
  ASSUME Inv, NEW p \in Procs, FlushReport(p)
  PROVE  OneOwner'
<1>1. PICK e \in dropped[p] : reports' = [reports EXCEPT ![e] = @ + 1]
                              /\ dropped' = [dropped EXCEPT ![p] = @ \ {e}]
  BY DEF FlushReport
<1>. SUFFICES ASSUME NEW f \in Frames PROVE Owners(f)' = Count(stage'[f] # "new")
  BY DEF OneOwner
<1>2. TypeOK /\ OneOwner
  BY DEF Inv
<1>3. /\ Hands(f)' = Hands(f) /\ UNCHANGED <<stage, normal, cab, txPending>>
      /\ Held(f)' <=> Held(f)
      /\ Count(f \in txPending') = Count(f \in txPending)
      /\ Count(Held(f)') = Count(Held(f))
  BY DEF Hands, Held, Count, FlushReport, bhVars, queueVars
<1>4. \A r \in Procs : dropped'[r] = IF r = p THEN dropped[p] \ {e} ELSE dropped[r]
  BY <1>1, <1>2 DEF TypeOK
<1>5. reports'[f] = IF f = e THEN reports[f] + 1 ELSE reports[f]
  BY <1>1, <1>2 DEF TypeOK
<1>6. CASE f # e
  <2>1. Drops(f)' = Drops(f)
    BY <1>4, <1>6 DEF Drops
  <2>. QED  BY <1>2, <1>3, <1>5, <1>6, <2>1, SameParts DEF OneOwner
<1>7. CASE f = e
  <2>1. p \in Drops(f) /\ Drops(f)' = Drops(f) \ {p}
    BY <1>1, <1>4, <1>7 DEF Drops
  <2>2. Cardinality(Drops(f)') = Cardinality(Drops(f)) - 1
    <3>1. IsFiniteSet(Drops(f))
      BY <1>2, Parts
    <3>. QED  BY <2>1, <3>1, FS_RemoveElement
  <2>. QED  BY <1>2, <1>3, <1>5, <1>7, <2>2, Sum, Exclusive, Parts
<1>. QED  BY <1>6, <1>7

-----------------------------------------------------------------------------
(* The counters of the pending frames *)

\* The frames that count are finitely many.
LEMMA CountedFinite ==
  ASSUME NEW q \in Queues
  PROVE  IsFiniteSet(Counted(q)) /\ Cardinality(Counted(q)) \in Nat
<1>1. IsFiniteSet(Counted(q))
  BY QueuesAssumption, FS_Subset DEF Counted
<1>. QED  BY <1>1, FS_CardinalityType

\* A frame that is in one place is in no other.
LEMMA InOnePlace ==
  ASSUME TypeOK, OneOwner, NEW f \in Frames
  PROVE  /\ f \in ListOf(normal[QueueOf[f]]) \cup ListOf(cab[QueueOf[f]]) =>
               f \notin txPending /\ Hands(f) = {}
         /\ Held(f) => f \notin txPending /\ Hands(f) = {}
         /\ f \in txPending => Hands(f) = {} /\ ~Held(f)
         /\ \A p \in Hands(f) : Hands(f) = {p} /\ f \notin txPending /\ ~Held(f)
<1>. DEFINE n == Times(normal[QueueOf[f]], f)
            c == Times(cab[QueueOf[f]], f)
            h == Cardinality(Hands(f))
            d == Cardinality(Drops(f))
<1>1. n \in Nat /\ c \in Nat /\ h \in Nat /\ d \in Nat /\ reports[f] \in Nat
  BY Parts
<1>2. n + c + Count(f \in txPending) + Count(Held(f)) + h + d + reports[f] <= 1
  BY Exclusive
<1>3. /\ Count(f \in txPending) = IF f \in txPending THEN 1 ELSE 0
      /\ Count(Held(f)) = IF Held(f) THEN 1 ELSE 0
  BY DEF Count
<1>4. f \in ListOf(normal[QueueOf[f]]) \cup ListOf(cab[QueueOf[f]]) => n # 0 \/ c # 0
  <2>1. normal[QueueOf[f]] \in Seq(Frames) /\ cab[QueueOf[f]] \in Seq(Frames)
    BY QueuesAssumption DEF TypeOK
  <2>. QED  BY <2>1, TimesNumber
<1>5. IsFiniteSet(Hands(f)) /\ (h = 0 <=> Hands(f) = {})
  BY Parts
<1>6. h = 1 => \A p \in Hands(f) : Hands(f) = {p}
  <2>. SUFFICES ASSUME h = 1, NEW p \in Hands(f) PROVE Hands(f) = {p}
    OBVIOUS
  <2>1. PICK r : Hands(f) = {r}
    BY <1>5, FS_Singleton
  <2>. QED  BY <2>1
<1>. HIDE DEF n, c, h, d
<1>. QED  BY <1>1, <1>2, <1>3, <1>4, <1>5, <1>6

\* A step that changes neither.
LEMMA SamePending ==
  ASSUME PendingExact, UNCHANGED <<txPending, pendingFrames, hand>>,
         \A f \in Frames : /\ bhFrame' = f /\ bhPc' = "unlink"
                                 <=> bhFrame = f /\ bhPc = "unlink"
                           /\ bhFrame' = f /\ bhPc' = "append"
                                 <=> bhFrame = f /\ bhPc = "append"
  PROVE  PendingExact'
<1>1. \A q \in Queues : Counted(q)' = Counted(q)
  BY DEF Counted
<1>. QED  BY <1>1 DEF PendingExact

\* The bottom half counts the frame it takes.
LEMMA TakenPending ==
  ASSUME Inv, NEW q \in Queues, NEW e \in Frames, QueueOf[e] = q,
         e \in ListOf(normal[q]) \cup ListOf(cab[q]),
         bhPc \in {"pick", "normal"}, Take(q, e), UNCHANGED <<txPending, hand>>
  PROVE  PendingExact'
<1>1. TypeOK /\ OneOwner
  BY DEF Inv
<1>2. e \notin txPending /\ Hands(e) = {}
  BY <1>1, InOnePlace
<1>3. bhFrame' = e /\ bhPc' = "append"
      /\ \A r \in Queues : pendingFrames'[r] =
            IF r = q THEN pendingFrames[q] + 1 ELSE pendingFrames[r]
  BY <1>1 DEF Take, TypeOK
<1>4. Counted(q)' = Counted(q) \cup {e} /\ e \notin Counted(q)
  BY <1>2, <1>3 DEF Counted, Hands
<1>5. \A r \in Queues \ {q} : Counted(r)' = Counted(r)
  BY <1>3 DEF Counted
<1>6. Cardinality(Counted(q)') = Cardinality(Counted(q)) + 1
  <2>1. IsFiniteSet(Counted(q))
    BY CountedFinite
  <2>2. Cardinality(Counted(q) \cup {e}) = Cardinality(Counted(q)) + 1
    BY <1>4, <2>1, FS_AddElement
  <2>. QED  BY <1>4, <2>2
<1>. QED  BY <1>3, <1>5, <1>6 DEF Inv, PendingExact

LEMMA TakeCabPending ==
  ASSUME Inv, BhTakeCab
  PROVE  PendingExact'
<1>1. PICK q \in Queues : IsFirst(q, cab) /\ Take(q, Head(cab[q]))
  BY DEF BhTakeCab
<1>2. Head(cab[q]) = cab[q][1] /\ 1 \in DOMAIN cab[q] /\ Head(cab[q]) \in Frames
  BY <1>1 DEF Inv, TypeOK, IsFirst
<1>3. Head(cab[q]) \in ListOf(cab[q]) /\ QueueOf[Head(cab[q])] = q
  BY <1>2 DEF Inv, Places, ListOf
<1>. QED  BY <1>1, <1>2, <1>3, TakenPending DEF BhTakeCab, procVars

LEMMA TakeNormalPending ==
  ASSUME Inv, BhTakeNormal
  PROVE  PendingExact'
<1>1. PICK q \in Queues : IsFirst(q, normal) /\ Take(q, Head(normal[q]))
  BY DEF BhTakeNormal
<1>2. Head(normal[q]) = normal[q][1] /\ 1 \in DOMAIN normal[q] /\ Head(normal[q]) \in Frames
  BY <1>1 DEF Inv, TypeOK, IsFirst
<1>3. Head(normal[q]) \in ListOf(normal[q]) /\ QueueOf[Head(normal[q])] = q
  BY <1>2 DEF Inv, Places, ListOf
<1>. QED  BY <1>1, <1>2, <1>3, TakenPending DEF BhTakeNormal, procVars

\* The frame counts also once it is in tx_pending.
LEMMA AppendPending ==
  ASSUME Inv, BhAppend
  PROVE  PendingExact'
<1>1. UNCHANGED <<pendingFrames, hand, bhFrame>>
      /\ txPending' = txPending \cup {bhFrame} /\ bhPc = "append" /\ bhPc' = "write"
  BY DEF BhAppend, procVars
<1>2. \A q \in Queues : Counted(q)' = Counted(q)
  BY <1>1 DEF Counted
<1>. QED  BY <1>1, <1>2 DEF Inv, PendingExact

\* A frame that was counted off counts no more, though it is in tx_pending...
LEMMA CountPending ==
  ASSUME Inv, BhCount
  PROVE  PendingExact'
<1>0. TypeOK /\ OneOwner /\ bhFrame \in Frames /\ bhFrame \in txPending
  BY DEF Inv, Places, BhCount, Finishing
<1>1. PICK e \in Frames, q \in Queues : e = bhFrame /\ q = QueueOf[e] /\ e \in txPending
  BY <1>0, QueuesAssumption
<1>2. UNCHANGED <<txPending, hand, bhFrame>> /\ bhPc = "count" /\ bhPc' = "unlink"
      /\ \A r \in Queues : pendingFrames'[r] =
            IF r = q THEN pendingFrames[q] - 1 ELSE pendingFrames[r]
  BY <1>0, <1>1 DEF BhCount, TypeOK, procVars
<1>3. Hands(e) = {}
  BY <1>0, <1>1, InOnePlace
<1>4. Counted(q)' = Counted(q) \ {e} /\ e \in Counted(q)
  BY <1>1, <1>2, <1>3 DEF Counted, Hands
<1>5. \A r \in Queues \ {q} : Counted(r)' = Counted(r)
  BY <1>1, <1>2 DEF Counted
<1>6. Cardinality(Counted(q)') = Cardinality(Counted(q)) - 1
  BY <1>4, CountedFinite, FS_RemoveElement
<1>. QED  BY <1>2, <1>5, <1>6 DEF Inv, PendingExact

\* ...and when it leaves that list nothing changes.
LEMMA UnlinkPending ==
  ASSUME Inv, BhUnlink
  PROVE  PendingExact'
<1>1. UNCHANGED <<pendingFrames, hand, bhFrame>>
      /\ txPending' = txPending \ {bhFrame} /\ bhPc = "unlink" /\ bhPc' = "report"
  BY DEF BhUnlink
<1>2. \A q \in Queues : Counted(q)' = Counted(q)
  BY <1>1 DEF Counted
<1>. QED  BY <1>1, <1>2 DEF Inv, PendingExact

\* A frame in the hand of wfx_pending_drop still counts...
LEMMA PendingTakeSame ==
  ASSUME Inv, NEW p \in Procs, PendingTake(p)
  PROVE  PendingExact'
<1>1. PICK e \in txPending : txPending' = txPending \ {e}
                             /\ hand' = [hand EXCEPT ![p] = e]
  BY DEF PendingTake
<1>2. TypeOK /\ e \in Frames /\ None \notin Frames /\ hand[p] = None /\ bhPc # "unlink"
  BY <1>1, QueuesAssumption DEF Inv, Places, PendingTake, At, TypeOK, Finishing
<1>3. UNCHANGED <<pendingFrames, bhFrame, bhPc>>
      /\ \A r \in Procs : hand'[r] = IF r = p THEN e ELSE hand[r]
  BY <1>1, <1>2 DEF PendingTake, OthersUnchanged, bhVars, TypeOK
<1>4. \A q \in Queues : Counted(q)' = Counted(q)
  BY <1>1, <1>2, <1>3 DEF Counted
<1>. QED  BY <1>3, <1>4 DEF Inv, PendingExact

\* ...until it is counted off.
LEMMA PendingCountPending ==
  ASSUME Inv, NEW p \in Procs, PendingCount(p)
  PROVE  PendingExact'
<1>0. TypeOK /\ OneOwner /\ hand[p] \in Frames /\ None \notin Frames
  BY QueuesAssumption DEF Inv, Places, PendingCount, At
<1>1. PICK e \in Frames, q \in Queues : e = hand[p] /\ q = QueueOf[e]
  BY <1>0, QueuesAssumption
<1>2. UNCHANGED <<txPending, bhFrame, bhPc>>
      /\ \A r \in Procs : hand'[r] = IF r = p THEN None ELSE hand[r]
  BY <1>0, <1>1 DEF PendingCount, OthersUnchanged, bhVars, TypeOK
<1>3. \A r \in Queues : pendingFrames'[r] =
            IF r = q THEN pendingFrames[q] - 1 ELSE pendingFrames[r]
  BY <1>0, <1>1 DEF PendingCount, TypeOK
<1>4. p \in Hands(e)
  BY <1>1 DEF Hands
<1>5. Hands(e) = {p} /\ e \notin txPending /\ ~Held(e)
  BY <1>0, <1>4, InOnePlace
<1>6. Counted(q)' = Counted(q) \ {e} /\ e \in Counted(q)
  BY <1>0, <1>1, <1>2, <1>5 DEF Counted, Hands, Held
<1>7. \A r \in Queues \ {q} : Counted(r)' = Counted(r)
  BY <1>0, <1>1, <1>2 DEF Counted
<1>8. Cardinality(Counted(q)') = Cardinality(Counted(q)) - 1
  BY <1>6, CountedFinite, FS_RemoveElement
<1>. QED  BY <1>3, <1>7, <1>8 DEF Inv, PendingExact

-----------------------------------------------------------------------------
(* Each step keeps the invariant *)

\* Every step keeps the types.
LEMMA KeepsTypes ==
  ASSUME TypeOK, Places, [Next]_vars
  PROVE  TypeOK'
<1>. USE QueuesAssumption DEF TypeOK, ToProc, Sending, Finishing, vars,
      queueVars, timVars, bhVars, chipVars, procVars
<1>1. ASSUME NEW f \in Frames, Put(f) PROVE TypeOK'
  <2>1. bhPending' \in BOOLEAN
    BY <1>1 DEF Put
  <2>2. PICK q \in Queues : q = QueueOf[f]
    OBVIOUS
  <2>3. normal[q] \in Seq(Frames) /\ cab[q] \in Seq(Frames)
    OBVIOUS
  <2>4. Append(normal[q], f) \in Seq(Frames) /\ Append(cab[q], f) \in Seq(Frames)
    BY <2>3
  <2>5. Enqueue(f)
    BY <1>1 DEF Put
  <2>6. normal' \in [Queues -> Seq(Frames)] /\ cab' \in [Queues -> Seq(Frames)]
    <3>1. CASE f \in Mcast
      <4>1. cab' = [cab EXCEPT ![q] = Append(@, f)] /\ normal' = normal
        BY <2>2, <2>5, <3>1 DEF Enqueue
      <4>. QED  BY <2>4, <4>1
    <3>2. CASE f \notin Mcast
      <4>1. normal' = [normal EXCEPT ![q] = Append(@, f)] /\ cab' = cab
        BY <2>2, <2>5, <3>2 DEF Enqueue
      <4>2. normal' \in [Queues -> Seq(Frames)]
        BY <2>4, <4>1
      <4>. QED  BY <4>1, <4>2
    <3>. QED  BY <3>1, <3>2
  <2>. QED  BY <1>1, <2>1, <2>6 DEF Put
<1>2. ASSUME NEW f \in Frames, ScheduleTim(f) PROVE TypeOK'
  <2>1. timPending' \in BOOLEAN /\ bhPending' \in BOOLEAN
    BY <1>2 DEF ScheduleTim, RequestBh
  <2>. QED  BY <1>2, <2>1 DEF ScheduleTim, RequestBh
<1>3. ASSUME NEW f \in Frames, ChipConfirms(f) PROVE TypeOK'
  <2>1. bhPending' \in BOOLEAN
    BY <1>3 DEF ChipConfirms, RequestBh
  <2>. QED  BY <1>3, <2>1 DEF ChipConfirms, RequestBh
<1>4. ASSUME NEW p \in Procs, FlushStart(p) PROVE TypeOK'
  BY <1>4 DEF FlushStart, Goto, At
<1>5. ASSUME NEW p \in Procs, Lock(p) PROVE TypeOK'
  BY <1>5 DEF Lock, Goto, At
<1>6. ASSUME NEW p \in Procs, FlushWaited(p) PROVE TypeOK'
  BY <1>6 DEF FlushWaited, OthersUnchanged, Goto, At
<1>7. ASSUME NEW p \in Procs, Check(p) PROVE TypeOK'
  <2>1. txLock' \in Int
    BY <1>7 DEF Check
  <2>2. pc' \in [Procs -> ToProc]
    BY <1>7 DEF Check, AfterFlush, Goto
  <2>. QED  BY <1>7, <2>1, <2>2 DEF Check, OthersUnchanged
<1>8. ASSUME NEW p \in Procs, ChipEmpty(p) PROVE TypeOK'
  BY <1>8 DEF ChipEmpty, OthersUnchanged, Goto, At
<1>9. ASSUME NEW p \in Procs, ChipStuck(p) PROVE TypeOK'
  <2>1. frozen' \in BOOLEAN
    BY <1>9 DEF ChipStuck, Silent, OthersUnchanged, Goto, At
  <2>. QED  BY <1>9, <2>1 DEF ChipStuck, Silent, OthersUnchanged, Goto, At
<1>10. ASSUME NEW p \in Procs, FlushUnlock(p) PROVE TypeOK'
  <2>1. bhPending' \in BOOLEAN
    BY <1>10 DEF FlushUnlock, Unlock, AfterFlush, OthersUnchanged, Goto, At
  <2>. QED  BY <1>10, <2>1 DEF FlushUnlock, Unlock, AfterFlush,
            OthersUnchanged, Goto, At
<1>11. ASSUME NEW p \in Procs, LockEnd(p) PROVE TypeOK'
  <2>1. bhPending' \in BOOLEAN
    BY <1>11 DEF LockEnd, Unlock, OthersUnchanged, Goto, At
  <2>. QED  BY <1>11, <2>1 DEF LockEnd, Unlock, OthersUnchanged, Goto, At
<1>12. ASSUME NEW p \in Procs, Decide(p) PROVE TypeOK'
  BY <1>12 DEF Decide, OthersUnchanged, Goto, At
<1>13. ASSUME NEW p \in Procs, PendingTake(p) PROVE TypeOK'
  BY <1>13 DEF PendingTake, OthersUnchanged, Goto, At
<1>14. ASSUME NEW p \in Procs, PendingCount(p) PROVE TypeOK'
  <2>1. hand[p] \in Frames
    BY <1>14 DEF Places, PendingCount, At
  <2>2. dropped' \in [Procs -> SUBSET Frames] /\ hand' \in [Procs -> Frames \cup {None}]
    BY <1>14, <2>1 DEF PendingCount
  <2>3. pendingFrames' \in [Queues -> Int]
    <3>1. PICK q \in Queues : q = QueueOf[hand[p]]
      BY <2>1
    <3>2. pendingFrames[q] - 1 \in Int
      OBVIOUS
    <3>3. pendingFrames' = [pendingFrames EXCEPT ![q] = @ - 1]
      BY <1>14, <3>1 DEF PendingCount
    <3>. QED  BY <3>2, <3>3
  <2>4. pc' \in [Procs -> ToProc]
    BY <1>14 DEF PendingCount, Goto
  <2>. QED  BY <1>14, <2>2, <2>3, <2>4 DEF PendingCount, OthersUnchanged
<1>15. ASSUME NEW p \in Procs, PendingDone(p) PROVE TypeOK'
  BY <1>15 DEF PendingDone, OthersUnchanged, Goto, At
<1>16. ASSUME NEW p \in Procs, FlushReport(p) PROVE TypeOK'
  BY <1>16 DEF FlushReport, Goto, At
<1>17. ASSUME NEW p \in Procs, FlushEnd(p) PROVE TypeOK'
  BY <1>17 DEF FlushEnd, Goto, At
<1>18. ASSUME NEW p \in Procs, NEW q \in Queues, FlushDrop(p, q)
      PROVE  TypeOK'
  <2>1. ListOf(cab[q]) \subseteq Frames /\ ListOf(normal[q]) \subseteq Frames
    <3>1. cab[q] \in Seq(Frames) /\ normal[q] \in Seq(Frames)
      OBVIOUS
    <3>. HIDE DEF TypeOK
    <3>. QED  BY <3>1 DEF ListOf
  <2>2. dropped' \in [Procs -> SUBSET Frames]
    BY <1>18, <2>1 DEF FlushDrop
  <2>3. cab' \in [Queues -> Seq(Frames)] /\ normal' \in [Queues -> Seq(Frames)]
    BY <1>18 DEF FlushDrop
  <2>4. todo' \in [Procs -> SUBSET Queues] /\ pc' \in [Procs -> ToProc]
    <3>1. CASE todo[p] = {q}
      <4>1. pc' = [pc EXCEPT ![p] = "wait"] /\ todo' = [todo EXCEPT ![p] = Queues]
        BY <1>18, <3>1 DEF FlushDrop, Goto
      <4>2. pc' \in [Procs -> ToProc]
        BY <4>1
      <4>. QED  BY <4>1, <4>2
    <3>2. CASE todo[p] # {q}
      <4>1. todo' = [todo EXCEPT ![p] = @ \ {q}] /\ pc' = pc
        BY <1>18, <3>2 DEF FlushDrop
      <4>2. todo' \in [Procs -> SUBSET Queues]
        BY <4>1
      <4>. QED  BY <4>1, <4>2
    <3>. QED  BY <3>1, <3>2
  <2>. QED  BY <1>18, <2>2, <2>3, <2>4 DEF FlushDrop, OthersUnchanged
<1>19. ASSUME NEW p \in Procs, NEW q \in Queues, FlushWait(p, q)
      PROVE  TypeOK'
  BY <1>19 DEF FlushWait, OthersUnchanged, Goto, At
<1>20. CASE BhStart
  <2>1. bhPending' \in BOOLEAN
    BY <1>20 DEF BhStart
  <2>. QED  BY <1>20, <2>1 DEF BhStart
<1>21. CASE BhTest
  BY <1>21 DEF BhTest
<1>22. CASE BhTakeCab
  <2>1. PICK q \in Queues : /\ IsFirst(q, cab) /\ Take(q, Head(cab[q]))
                            /\ cab' = [cab EXCEPT ![q] = Tail(@)]
    BY <1>22 DEF BhTakeCab
  <2>2. Head(cab[q]) \in Frames /\ Tail(cab[q]) \in Seq(Frames)
    <3>1. cab[q] \in Seq(Frames) /\ cab[q] # <<>>
      BY <2>1 DEF IsFirst
    <3>. QED  BY <3>1
  <2>3. cab' \in [Queues -> Seq(Frames)] /\ bhFrame' \in Frames
    BY <2>1, <2>2 DEF Take
  <2>4. pendingFrames' \in [Queues -> Int] /\ bhPc' = "append"
    BY <2>1 DEF Take
  <2>. QED  BY <1>22, <2>3, <2>4 DEF BhTakeCab
<1>23. CASE BhCabDone
  <2>1. afterDtim' \in BOOLEAN /\ timPending' \in BOOLEAN
    BY <1>23 DEF BhCabDone
  <2>. QED  BY <1>23, <2>1 DEF BhCabDone
<1>24. CASE BhTakeNormal
  <2>1. PICK q \in Queues : /\ IsFirst(q, normal) /\ Take(q, Head(normal[q]))
                            /\ normal' = [normal EXCEPT ![q] = Tail(@)]
    BY <1>24 DEF BhTakeNormal
  <2>2. Head(normal[q]) \in Frames /\ Tail(normal[q]) \in Seq(Frames)
    <3>1. normal[q] \in Seq(Frames) /\ normal[q] # <<>>
      BY <2>1 DEF IsFirst
    <3>. QED  BY <3>1
  <2>3. normal' \in [Queues -> Seq(Frames)] /\ bhFrame' \in Frames
    BY <2>1, <2>2 DEF Take
  <2>4. pendingFrames' \in [Queues -> Int] /\ bhPc' = "append"
    BY <2>1 DEF Take
  <2>. QED  BY <1>24, <2>3, <2>4 DEF BhTakeNormal
<1>25. CASE BhTakeNone
  BY <1>25 DEF BhTakeNone
<1>26. CASE BhAppend
  <2>1. bhFrame \in Frames
    BY <1>26 DEF Places, BhAppend
  <2>. QED  BY <1>26, <2>1 DEF BhAppend
<1>27. CASE BhWrite
  <2>1. bhFrame \in Frames /\ bhDid' \in BOOLEAN
    BY <1>27 DEF Places, BhWrite
  <2>. QED  BY <1>27, <2>1 DEF BhWrite
<1>28. CASE BhWriteFails
  <2>1. bhFrame \in Frames /\ bhDid' \in BOOLEAN
    BY <1>28 DEF Places, BhWriteFails
  <2>. QED  BY <1>28, <2>1 DEF BhWriteFails
<1>29. CASE BhReadCnf
  <2>1. Head(output) \in Confirmations /\ Tail(output) \in Seq(Confirmations \cup {ResumeMc})
    BY <1>29 DEF BhReadCnf
  <2>2. bhFrame' \in Frames /\ bhRequeue' \in BOOLEAN /\ bhDid' \in BOOLEAN
    BY <1>29, <2>1 DEF BhReadCnf, Confirmations
  <2>. QED  BY <1>29, <2>1, <2>2 DEF BhReadCnf
<1>30. CASE BhFind
  <2>1. bhRequeue' \in BOOLEAN
    BY <1>30 DEF BhFind
  <2>. QED  BY <1>30, <2>1 DEF BhFind
<1>31. CASE BhCount
  <2>1. bhFrame \in Frames
    BY <1>31 DEF Places, BhCount
  <2>2. pendingFrames' \in [Queues -> Int]
    <3>1. PICK q \in Queues : q = QueueOf[bhFrame]
      BY <2>1
    <3>2. pendingFrames[q] - 1 \in Int
      OBVIOUS
    <3>3. pendingFrames' = [pendingFrames EXCEPT ![q] = @ - 1]
      BY <1>31, <3>1 DEF BhCount
    <3>. QED  BY <3>2, <3>3
  <2>. QED  BY <1>31, <2>2 DEF BhCount
<1>32. CASE BhUnlink
  BY <1>32 DEF BhUnlink
<1>33. CASE BhReport
  <2>1. bhFrame \in Frames
    BY <1>33 DEF Places, BhReport
  <2>2. reports' \in [Frames -> Nat]
    BY <1>33, <2>1 DEF BhReport
  <2>3. bhRequeue' \in BOOLEAN /\ afterDtim' \in BOOLEAN /\ timPending' \in BOOLEAN
    BY <1>33 DEF BhReport
  <2>. QED  BY <1>33, <2>2, <2>3 DEF BhReport
<1>34. CASE BhResumeMc
  <2>1. afterDtim' \in BOOLEAN /\ bhPending' \in BOOLEAN /\ bhDid' \in BOOLEAN
    BY <1>34 DEF BhResumeMc, RequestBh
  <2>. QED  BY <1>34, <2>1 DEF BhResumeMc, RequestBh
<1>35. CASE BhReadNone
  <2>1. bhDid' \in BOOLEAN
    BY <1>35 DEF BhReadNone
  <2>. QED  BY <1>35, <2>1 DEF BhReadNone
<1>36. CASE TimRead
  <2>1. timPending' \in BOOLEAN /\ timBit' \in BOOLEAN
    BY <1>36 DEF TimRead, HasCab
  <2>. QED  BY <1>36, <2>1 DEF TimRead, HasCab
<1>37. CASE TimSend
  <2>1. tim' \in BOOLEAN /\ timBit' \in BOOLEAN
    BY <1>37 DEF TimSend
  <2>. QED  BY <1>37, <2>1 DEF TimSend
<1>38. CASE StopBeacon
  <2>1. beacon' \in BOOLEAN /\ afterDtim' \in BOOLEAN /\ bhPending' \in
        BOOLEAN
    BY <1>38 DEF StopBeacon, HasCab
  <2>. QED  BY <1>38, <2>1 DEF StopBeacon, HasCab
<1>39. CASE ChipDtim
  <2>1. bhPending' \in BOOLEAN
    BY <1>39 DEF ChipDtim, RequestBh
  <2>. QED  BY <1>39, <2>1 DEF ChipDtim, RequestBh
<1>40. CASE ChipHangs
  <2>1. hung' \in BOOLEAN
    BY <1>40 DEF ChipHangs
  <2>. QED  BY <1>40, <2>1 DEF ChipHangs
<1>41. CASE Freeze
  <2>1. frozen' \in BOOLEAN
    BY <1>41 DEF Freeze, Silent
  <2>. QED  BY <1>41, <2>1 DEF Freeze, Silent
<1>42. CASE UNCHANGED vars
  BY <1>42
<1>. QED  BY <1>1, <1>2, <1>3, <1>4, <1>5, <1>6, <1>7, <1>8, <1>9, <1>10,
  <1>11, <1>12, <1>13, <1>14, <1>15, <1>16, <1>17, <1>18, <1>19, <1>20, <1>21,
  <1>22, <1>23, <1>24, <1>25, <1>26, <1>27, <1>28, <1>29, <1>30, <1>31, <1>32,
  <1>33, <1>34, <1>35, <1>36, <1>37, <1>38, <1>39, <1>40, <1>41, <1>42 DEF
  Next, Call, Advance, BottomHalf, TimWork

\* Every step keeps the places.
LEMMA KeepsPlaces ==
  ASSUME ~LateAnswers, TypeOK, Places, [Next]_vars
  PROVE  Places'
<1>. USE QueuesAssumption DEF TypeOK, Places, Held, ToProc, Sending,
      Finishing, vars, queueVars, timVars, bhVars, chipVars, procVars
<1>1. ASSUME NEW f \in Frames, Put(f) PROVE Places'
  <2>1. ASSUME NEW g \in Frames, NEW q \in Queues,
               g \in ListOf(normal'[q]) \cup ListOf(cab'[q])
        PROVE  QueueOf[g] = q
    <3>1. normal[q] \in Seq(Frames) /\ cab[q] \in Seq(Frames)
      OBVIOUS
    <3>2. /\ normal'[q] = normal[q] \/ (q = QueueOf[f] /\ normal'[q] = Append(normal[q], f))
          /\ cab'[q] = cab[q] \/ (q = QueueOf[f] /\ cab'[q] = Append(cab[q], f))
      <4>1. Enqueue(f)
        BY <1>1 DEF Put
      <4>2. CASE f \in Mcast
        <5>1. normal' = normal /\ cab' = [cab EXCEPT ![QueueOf[f]] = Append(@, f)]
          BY <4>1, <4>2 DEF Enqueue
        <5>. QED  BY <5>1
      <4>3. CASE f \notin Mcast
        <5>1. cab' = cab /\ normal' = [normal EXCEPT ![QueueOf[f]] = Append(@, f)]
          BY <4>1, <4>3 DEF Enqueue
        <5>. QED  BY <5>1
      <4>. QED  BY <4>2, <4>3
    <3>3. /\ ListOf(Append(normal[q], f)) = ListOf(normal[q]) \cup {f}
          /\ ListOf(Append(cab[q], f)) = ListOf(cab[q]) \cup {f}
      BY <3>1, ListAppended
    <3>4. (g = f /\ q = QueueOf[f]) \/ g \in ListOf(normal[q]) \cup ListOf(cab[q])
      BY <2>1, <3>2, <3>3
    <3>. QED  BY <3>4
  <2>. QED  BY <1>1, <2>1 DEF Put
<1>2. ASSUME NEW f \in Frames, ScheduleTim(f) PROVE Places'
  BY <1>2 DEF ScheduleTim, RequestBh
<1>3. ASSUME NEW f \in Frames, ChipConfirms(f) PROVE Places'
  BY <1>3 DEF ChipConfirms, RequestBh
<1>4. ASSUME NEW p \in Procs, FlushStart(p) PROVE Places'
  BY <1>4 DEF FlushStart, Goto, At
<1>5. ASSUME NEW p \in Procs, Lock(p) PROVE Places'
  BY <1>5 DEF Lock, Goto, At
<1>6. ASSUME NEW p \in Procs, FlushWaited(p) PROVE Places'
  BY <1>6 DEF FlushWaited, OthersUnchanged, Goto, At
<1>7. ASSUME NEW p \in Procs, Check(p) PROVE Places'
  BY <1>7 DEF Check, AfterFlush, OthersUnchanged, Goto, At
<1>8. ASSUME NEW p \in Procs, ChipEmpty(p) PROVE Places'
  BY <1>8 DEF ChipEmpty, OthersUnchanged, Goto, At
<1>9. ASSUME NEW p \in Procs, ChipStuck(p) PROVE Places'
  BY <1>9 DEF ChipStuck, Silent, OthersUnchanged, Goto, At
<1>10. ASSUME NEW p \in Procs, FlushUnlock(p) PROVE Places'
  BY <1>10 DEF FlushUnlock, Unlock, AfterFlush, OthersUnchanged, Goto, At
<1>11. ASSUME NEW p \in Procs, LockEnd(p) PROVE Places'
  BY <1>11 DEF LockEnd, Unlock, OthersUnchanged, Goto, At
<1>12. ASSUME NEW p \in Procs, Decide(p) PROVE Places'
  BY <1>12 DEF Decide, OthersUnchanged, Goto, At
<1>13. ASSUME NEW p \in Procs, PendingTake(p) PROVE Places'
  BY <1>13 DEF PendingTake, OthersUnchanged, Goto, At
<1>14. ASSUME NEW p \in Procs, PendingCount(p) PROVE Places'
  BY <1>14 DEF PendingCount, OthersUnchanged, Goto, At
<1>15. ASSUME NEW p \in Procs, PendingDone(p) PROVE Places'
  BY <1>15 DEF PendingDone, OthersUnchanged, Goto, At
<1>16. ASSUME NEW p \in Procs, FlushReport(p) PROVE Places'
  BY <1>16 DEF FlushReport, Goto, At
<1>17. ASSUME NEW p \in Procs, FlushEnd(p) PROVE Places'
  BY <1>17 DEF FlushEnd, Goto, At
<1>18. ASSUME NEW p \in Procs, NEW q \in Queues, FlushDrop(p, q)
      PROVE  Places'
  <2>1. ASSUME NEW g \in Frames, NEW r \in Queues,
               g \in ListOf(normal'[r]) \cup ListOf(cab'[r])
        PROVE  QueueOf[g] = r
    <3>1. /\ normal'[r] = IF r = q THEN <<>> ELSE normal[r]
          /\ cab'[r] = IF r = q THEN <<>> ELSE cab[r]
      BY <1>18 DEF FlushDrop
    <3>2. ListOf(<<>>) = {}
      BY DEF ListOf
    <3>. QED  BY <2>1, <3>1, <3>2
  <2>2. pc[p] = "drop" /\ \A r \in Procs \ {p} : pc'[r] = pc[r]
    BY <1>18 DEF FlushDrop, Goto, At
  <2>3. pc'[p] \in {"drop", "wait"}
    BY <1>18, <2>2 DEF FlushDrop, Goto
  <2>. QED  BY <1>18, <2>1, <2>2, <2>3 DEF FlushDrop, OthersUnchanged
<1>19. ASSUME NEW p \in Procs, NEW q \in Queues, FlushWait(p, q)
      PROVE  Places'
  BY <1>19 DEF FlushWait, OthersUnchanged, Goto, At
<1>20. CASE BhStart
  BY <1>20 DEF BhStart
<1>21. CASE BhTest
  BY <1>21 DEF BhTest
<1>22. CASE BhTakeCab
  <2>1. PICK q \in Queues : /\ IsFirst(q, cab) /\ Take(q, Head(cab[q]))
                            /\ cab' = [cab EXCEPT ![q] = Tail(@)]
    BY <1>22 DEF BhTakeCab
  <2>2. cab[q] \in Seq(Frames) /\ cab[q] # <<>>
    BY <2>1 DEF IsFirst
  <2>3. Head(cab[q]) \in Frames /\ ListOf(Tail(cab[q])) \subseteq ListOf(cab[q])
    BY <2>2, ListTaken
  <2>4. \A r \in Queues : ListOf(cab'[r]) \subseteq ListOf(cab[r])
    BY <2>1, <2>3
  <2>5. bhFrame' \in Frames /\ bhPc' = "append"
    BY <2>1, <2>3 DEF Take
  <2>. QED  BY <1>22, <2>4, <2>5 DEF BhTakeCab
<1>23. CASE BhCabDone
  BY <1>23 DEF BhCabDone
<1>24. CASE BhTakeNormal
  <2>1. PICK q \in Queues : /\ IsFirst(q, normal) /\ Take(q, Head(normal[q]))
                            /\ normal' = [normal EXCEPT ![q] = Tail(@)]
    BY <1>24 DEF BhTakeNormal
  <2>2. normal[q] \in Seq(Frames) /\ normal[q] # <<>>
    BY <2>1 DEF IsFirst
  <2>3. Head(normal[q]) \in Frames /\ ListOf(Tail(normal[q])) \subseteq ListOf(normal[q])
    BY <2>2, ListTaken
  <2>4. \A r \in Queues : ListOf(normal'[r]) \subseteq ListOf(normal[r])
    BY <2>1, <2>3
  <2>5. bhFrame' \in Frames /\ bhPc' = "append"
    BY <2>1, <2>3 DEF Take
  <2>. QED  BY <1>24, <2>4, <2>5 DEF BhTakeNormal
<1>25. CASE BhTakeNone
  BY <1>25 DEF BhTakeNone
<1>26. CASE BhAppend
  BY <1>26 DEF BhAppend
<1>27. CASE BhWrite
  BY <1>27 DEF BhWrite
<1>28. CASE BhWriteFails
  BY <1>28 DEF BhWriteFails
<1>29. CASE BhReadCnf
  <2>1. Head(output) \in Confirmations
    BY <1>29 DEF BhReadCnf
  <2>2. bhFrame' \in Frames /\ bhPc' = "find" /\ ~frozen
    BY <1>29, <2>1 DEF BhReadCnf, Confirmations
  <2>. QED  BY <1>29, <2>2 DEF BhReadCnf
<1>30. CASE BhFind
  BY <1>30 DEF BhFind
<1>31. CASE BhCount
  BY <1>31 DEF BhCount
<1>32. CASE BhUnlink
  BY <1>32 DEF BhUnlink
<1>33. CASE BhReport
  BY <1>33 DEF BhReport
<1>34. CASE BhResumeMc
  BY <1>34 DEF BhResumeMc, RequestBh
<1>35. CASE BhReadNone
  BY <1>35 DEF BhReadNone
<1>36. CASE TimRead
  BY <1>36 DEF TimRead, HasCab
<1>37. CASE TimSend
  BY <1>37 DEF TimSend
<1>38. CASE StopBeacon
  BY <1>38 DEF StopBeacon, HasCab
<1>39. CASE ChipDtim
  BY <1>39 DEF ChipDtim, RequestBh
<1>40. CASE ChipHangs
  BY <1>40 DEF ChipHangs
<1>41. CASE Freeze
  BY <1>41 DEF Freeze, Silent
<1>42. CASE UNCHANGED vars
  BY <1>42
<1>. QED  BY <1>1, <1>2, <1>3, <1>4, <1>5, <1>6, <1>7, <1>8, <1>9, <1>10,
  <1>11, <1>12, <1>13, <1>14, <1>15, <1>16, <1>17, <1>18, <1>19, <1>20, <1>21,
  <1>22, <1>23, <1>24, <1>25, <1>26, <1>27, <1>28, <1>29, <1>30, <1>31, <1>32,
  <1>33, <1>34, <1>35, <1>36, <1>37, <1>38, <1>39, <1>40, <1>41, <1>42 DEF
  Next, Call, Advance, BottomHalf, TimWork

\* Every step keeps one owner.
LEMMA KeepsOwners ==
  ASSUME Inv, [Next]_vars
  PROVE  OneOwner'
<1>. USE DEF Inv, TypeOK, Places, Sending, Finishing, vars, queueVars,
      timVars, bhVars, chipVars, procVars
<1>1. ASSUME NEW f \in Frames, Put(f) PROVE OneOwner'
  BY <1>1, PutOwner
<1>2. ASSUME NEW f \in Frames, ScheduleTim(f) PROVE OneOwner'
  BY <1>2, SameOwners DEF Held, ScheduleTim, RequestBh
<1>3. ASSUME NEW f \in Frames, ChipConfirms(f) PROVE OneOwner'
  BY <1>3, SameOwners DEF Held, ChipConfirms, RequestBh
<1>4. ASSUME NEW p \in Procs, FlushStart(p) PROVE OneOwner'
  BY <1>4, SameOwners DEF Held, FlushStart, Goto, At
<1>5. ASSUME NEW p \in Procs, Lock(p) PROVE OneOwner'
  BY <1>5, SameOwners DEF Held, Lock, Goto, At
<1>6. ASSUME NEW p \in Procs, FlushWaited(p) PROVE OneOwner'
  BY <1>6, SameOwners DEF Held, FlushWaited, OthersUnchanged, Goto, At
<1>7. ASSUME NEW p \in Procs, Check(p) PROVE OneOwner'
  BY <1>7, SameOwners DEF Held, Check, AfterFlush, OthersUnchanged, Goto, At
<1>8. ASSUME NEW p \in Procs, ChipEmpty(p) PROVE OneOwner'
  BY <1>8, SameOwners DEF Held, ChipEmpty, OthersUnchanged, Goto, At
<1>9. ASSUME NEW p \in Procs, ChipStuck(p) PROVE OneOwner'
  BY <1>9, SameOwners DEF Held, ChipStuck, Silent, OthersUnchanged, Goto, At
<1>10. ASSUME NEW p \in Procs, FlushUnlock(p) PROVE OneOwner'
  BY <1>10, SameOwners DEF Held, FlushUnlock, Unlock, AfterFlush,
     OthersUnchanged, Goto, At
<1>11. ASSUME NEW p \in Procs, LockEnd(p) PROVE OneOwner'
  BY <1>11, SameOwners DEF Held, LockEnd, Unlock, OthersUnchanged, Goto, At
<1>12. ASSUME NEW p \in Procs, Decide(p) PROVE OneOwner'
  BY <1>12, SameOwners DEF Held, Decide, OthersUnchanged, Goto, At
<1>13. ASSUME NEW p \in Procs, PendingTake(p) PROVE OneOwner'
  BY <1>13, PendingTakeOwner
<1>14. ASSUME NEW p \in Procs, PendingCount(p) PROVE OneOwner'
  BY <1>14, PendingCountOwner
<1>15. ASSUME NEW p \in Procs, PendingDone(p) PROVE OneOwner'
  BY <1>15, SameOwners DEF Held, PendingDone, OthersUnchanged, Goto, At
<1>16. ASSUME NEW p \in Procs, FlushReport(p) PROVE OneOwner'
  BY <1>16, FlushReportOwner
<1>17. ASSUME NEW p \in Procs, FlushEnd(p) PROVE OneOwner'
  BY <1>17, SameOwners DEF Held, FlushEnd, Goto, At
<1>18. ASSUME NEW p \in Procs, NEW q \in Queues, FlushDrop(p, q)
      PROVE  OneOwner'
  BY <1>18, DropOwner
<1>19. ASSUME NEW p \in Procs, NEW q \in Queues, FlushWait(p, q)
      PROVE  OneOwner'
  BY <1>19, SameOwners DEF Held, FlushWait, OthersUnchanged, Goto, At
<1>20. CASE BhStart
  BY <1>20, SameOwners DEF Held, BhStart
<1>21. CASE BhTest
  BY <1>21, SameOwners DEF Held, BhTest
<1>22. CASE BhTakeCab
  BY <1>22, TakeCabOwner
<1>23. CASE BhCabDone
  BY <1>23, SameOwners DEF Held, BhCabDone
<1>24. CASE BhTakeNormal
  BY <1>24, TakeNormalOwner
<1>25. CASE BhTakeNone
  BY <1>25, SameOwners DEF Held, BhTakeNone
<1>26. CASE BhAppend
  BY <1>26, AppendOwner
<1>27. CASE BhWrite
  BY <1>27, SameOwners DEF Held, BhWrite
<1>28. CASE BhWriteFails
  BY <1>28, SameOwners DEF Held, BhWriteFails
<1>29. CASE BhReadCnf
  BY <1>29, SameOwners DEF Held, BhReadCnf
<1>30. CASE BhFind
  BY <1>30, SameOwners DEF Held, BhFind
<1>31. CASE BhCount
  BY <1>31, SameOwners DEF Held, BhCount
<1>32. CASE BhUnlink
  BY <1>32, UnlinkOwner
<1>33. CASE BhReport
  BY <1>33, ReportOwner
<1>34. CASE BhResumeMc
  BY <1>34, SameOwners DEF Held, BhResumeMc, RequestBh
<1>35. CASE BhReadNone
  BY <1>35, SameOwners DEF Held, BhReadNone
<1>36. CASE TimRead
  BY <1>36, SameOwners DEF Held, TimRead, HasCab
<1>37. CASE TimSend
  BY <1>37, SameOwners DEF Held, TimSend
<1>38. CASE StopBeacon
  BY <1>38, SameOwners DEF Held, StopBeacon, HasCab
<1>39. CASE ChipDtim
  BY <1>39, SameOwners DEF Held, ChipDtim, RequestBh
<1>40. CASE ChipHangs
  BY <1>40, SameOwners DEF Held, ChipHangs
<1>41. CASE Freeze
  BY <1>41, SameOwners DEF Held, Freeze, Silent
<1>42. CASE UNCHANGED vars
  BY <1>42, SameOwners DEF Held
<1>. QED  BY <1>1, <1>2, <1>3, <1>4, <1>5, <1>6, <1>7, <1>8, <1>9, <1>10,
  <1>11, <1>12, <1>13, <1>14, <1>15, <1>16, <1>17, <1>18, <1>19, <1>20, <1>21,
  <1>22, <1>23, <1>24, <1>25, <1>26, <1>27, <1>28, <1>29, <1>30, <1>31, <1>32,
  <1>33, <1>34, <1>35, <1>36, <1>37, <1>38, <1>39, <1>40, <1>41, <1>42 DEF
  Next, Call, Advance, BottomHalf, TimWork

\* Every step keeps the counters.
LEMMA KeepsPending ==
  ASSUME Inv, [Next]_vars
  PROVE  PendingExact'
<1>. USE DEF Inv, TypeOK, Places, Sending, Finishing, vars, queueVars,
      timVars, bhVars, chipVars, procVars
<1>1. ASSUME NEW f \in Frames, Put(f) PROVE PendingExact'
  BY <1>1, SamePending DEF Put, Enqueue
<1>2. ASSUME NEW f \in Frames, ScheduleTim(f) PROVE PendingExact'
  BY <1>2, SamePending DEF ScheduleTim, RequestBh
<1>3. ASSUME NEW f \in Frames, ChipConfirms(f) PROVE PendingExact'
  BY <1>3, SamePending DEF ChipConfirms, RequestBh
<1>4. ASSUME NEW p \in Procs, FlushStart(p) PROVE PendingExact'
  BY <1>4, SamePending DEF FlushStart, Goto, At
<1>5. ASSUME NEW p \in Procs, Lock(p) PROVE PendingExact'
  BY <1>5, SamePending DEF Lock, Goto, At
<1>6. ASSUME NEW p \in Procs, FlushWaited(p) PROVE PendingExact'
  BY <1>6, SamePending DEF FlushWaited, OthersUnchanged, Goto, At
<1>7. ASSUME NEW p \in Procs, Check(p) PROVE PendingExact'
  BY <1>7, SamePending DEF Check, AfterFlush, OthersUnchanged, Goto, At
<1>8. ASSUME NEW p \in Procs, ChipEmpty(p) PROVE PendingExact'
  BY <1>8, SamePending DEF ChipEmpty, OthersUnchanged, Goto, At
<1>9. ASSUME NEW p \in Procs, ChipStuck(p) PROVE PendingExact'
  BY <1>9, SamePending DEF ChipStuck, Silent, OthersUnchanged, Goto, At
<1>10. ASSUME NEW p \in Procs, FlushUnlock(p) PROVE PendingExact'
  BY <1>10, SamePending DEF FlushUnlock, Unlock, AfterFlush, OthersUnchanged,
     Goto, At
<1>11. ASSUME NEW p \in Procs, LockEnd(p) PROVE PendingExact'
  BY <1>11, SamePending DEF LockEnd, Unlock, OthersUnchanged, Goto, At
<1>12. ASSUME NEW p \in Procs, Decide(p) PROVE PendingExact'
  BY <1>12, SamePending DEF Decide, OthersUnchanged, Goto, At
<1>13. ASSUME NEW p \in Procs, PendingTake(p) PROVE PendingExact'
  BY <1>13, PendingTakeSame
<1>14. ASSUME NEW p \in Procs, PendingCount(p) PROVE PendingExact'
  BY <1>14, PendingCountPending
<1>15. ASSUME NEW p \in Procs, PendingDone(p) PROVE PendingExact'
  BY <1>15, SamePending DEF PendingDone, OthersUnchanged, Goto, At
<1>16. ASSUME NEW p \in Procs, FlushReport(p) PROVE PendingExact'
  BY <1>16, SamePending DEF FlushReport, Goto, At
<1>17. ASSUME NEW p \in Procs, FlushEnd(p) PROVE PendingExact'
  BY <1>17, SamePending DEF FlushEnd, Goto, At
<1>18. ASSUME NEW p \in Procs, NEW q \in Queues, FlushDrop(p, q)
      PROVE  PendingExact'
  BY <1>18, SamePending DEF FlushDrop, OthersUnchanged, Goto, At
<1>19. ASSUME NEW p \in Procs, NEW q \in Queues, FlushWait(p, q)
      PROVE  PendingExact'
  BY <1>19, SamePending DEF FlushWait, OthersUnchanged, Goto, At
<1>20. CASE BhStart
  BY <1>20, SamePending DEF BhStart
<1>21. CASE BhTest
  BY <1>21, SamePending DEF BhTest
<1>22. CASE BhTakeCab
  BY <1>22, TakeCabPending
<1>23. CASE BhCabDone
  BY <1>23, SamePending DEF BhCabDone
<1>24. CASE BhTakeNormal
  BY <1>24, TakeNormalPending
<1>25. CASE BhTakeNone
  BY <1>25, SamePending DEF BhTakeNone
<1>26. CASE BhAppend
  BY <1>26, AppendPending
<1>27. CASE BhWrite
  BY <1>27, SamePending DEF BhWrite
<1>28. CASE BhWriteFails
  BY <1>28, SamePending DEF BhWriteFails
<1>29. CASE BhReadCnf
  BY <1>29, SamePending DEF BhReadCnf
<1>30. CASE BhFind
  BY <1>30, SamePending DEF BhFind
<1>31. CASE BhCount
  BY <1>31, CountPending
<1>32. CASE BhUnlink
  BY <1>32, UnlinkPending
<1>33. CASE BhReport
  BY <1>33, SamePending DEF BhReport
<1>34. CASE BhResumeMc
  BY <1>34, SamePending DEF BhResumeMc, RequestBh
<1>35. CASE BhReadNone
  BY <1>35, SamePending DEF BhReadNone
<1>36. CASE TimRead
  BY <1>36, SamePending DEF TimRead, HasCab
<1>37. CASE TimSend
  BY <1>37, SamePending DEF TimSend
<1>38. CASE StopBeacon
  BY <1>38, SamePending DEF StopBeacon, HasCab
<1>39. CASE ChipDtim
  BY <1>39, SamePending DEF ChipDtim, RequestBh
<1>40. CASE ChipHangs
  BY <1>40, SamePending DEF ChipHangs
<1>41. CASE Freeze
  BY <1>41, SamePending DEF Freeze, Silent
<1>42. CASE UNCHANGED vars
  BY <1>42, SamePending
<1>. QED  BY <1>1, <1>2, <1>3, <1>4, <1>5, <1>6, <1>7, <1>8, <1>9, <1>10,
  <1>11, <1>12, <1>13, <1>14, <1>15, <1>16, <1>17, <1>18, <1>19, <1>20, <1>21,
  <1>22, <1>23, <1>24, <1>25, <1>26, <1>27, <1>28, <1>29, <1>30, <1>31, <1>32,
  <1>33, <1>34, <1>35, <1>36, <1>37, <1>38, <1>39, <1>40, <1>41, <1>42 DEF
  Next, Call, Advance, BottomHalf, TimWork

-----------------------------------------------------------------------------
(* Theorems *)

LEMMA InitInv == Init => Inv
<1>. SUFFICES ASSUME Init PROVE Inv
  OBVIOUS
<1>. USE QueuesAssumption
<1>1. TypeOK
  <2>1. /\ frozen \in BOOLEAN /\ afterDtim \in BOOLEAN /\ timPending \in BOOLEAN
        /\ timBit \in BOOLEAN /\ tim \in BOOLEAN /\ bhPending \in BOOLEAN
        /\ bhRequeue \in BOOLEAN /\ bhDid \in BOOLEAN /\ hung \in BOOLEAN
    BY DEF Init
  <2>2. beacon \in BOOLEAN
    BY DEF Init
  <2>. QED  BY <2>1, <2>2 DEF Init, TypeOK, ToProc
<1>2. Places
  BY DEF Init, Places, ListOf, Sending, Finishing
<1>3. OneOwner
  <2>. SUFFICES ASSUME NEW f \in Frames PROVE Owners(f) = Count(stage[f] # "new")
    BY DEF OneOwner
  <2>1. Times(<<>>, f) = 0
    <3>1. <<>> \in Seq(Frames) /\ f \notin ListOf(<<>>)
      BY DEF ListOf
    <3>. QED  BY <3>1, TimesNumber
  <2>2. Hands(f) = {} /\ Drops(f) = {}
    BY DEF Init, Hands, Drops
  <2>3. /\ normal[QueueOf[f]] = <<>> /\ cab[QueueOf[f]] = <<>> /\ reports[f] = 0
        /\ f \notin txPending /\ ~Held(f) /\ stage[f] = "new"
    BY DEF Init, Held
  <2>4. /\ Count(f \in txPending) = 0 /\ Count(Held(f)) = 0
        /\ Count(stage[f] # "new") = 0
        /\ Cardinality(Hands(f)) = 0 /\ Cardinality(Drops(f)) = 0
    BY <2>2, <2>3, FS_EmptySet DEF Count
  <2>. QED  BY <2>1, <2>3, <2>4, Sum
<1>4. PendingExact
  <2>1. \A q \in Queues : Counted(q) = {} /\ pendingFrames[q] = 0
    BY DEF Init, Counted
  <2>. QED  BY <2>1, FS_EmptySet DEF PendingExact
<1>. QED  BY <1>1, <1>2, <1>3, <1>4 DEF Inv

\* The invariant: without answers of a chip that was declared frozen, the types,
\* the places of the frames, their one owner and the counters of the queues
\* are kept by every step of the driver.
THEOREM QueuesInvariance ==
  ASSUME ~LateAnswers
  PROVE  Spec => []Inv
<1>1. Inv /\ [Next]_vars => Inv'
  BY KeepsTypes, KeepsPlaces, KeepsOwners, KeepsPending DEF Inv
<1>. QED  BY <1>1, InitInv, PTL DEF Spec

\* Every frame wfx_tx queued has exactly one owner until it is back in
\* mac80211, where it goes exactly once: the bottom half, wfx_flush and
\* wfx_pending_drop never lose a frame, nor give it back twice.
THEOREM FrameOwned ==
  ASSUME ~LateAnswers
  PROVE  Spec => []OneOwner
<1>1. Inv => OneOwner
  BY DEF Inv
<1>. QED  BY <1>1, QueuesInvariance, PTL

\* pending_frames of every queue is the number of its pending frames.
THEOREM PendingCorrect ==
  ASSUME ~LateAnswers
  PROVE  Spec => []PendingExact
<1>1. Inv => PendingExact
  BY DEF Inv
<1>. QED  BY <1>1, QueuesInvariance, PTL

\* The two WARN_ON(!pending_frames) of queue.c never fire, as long as no
\* answer of a chip declared frozen arrives; the run txqueues_late shows that
\* they fire when one does.
THEOREM NeverCountedTwice ==
  ASSUME ~LateAnswers
  PROVE  Spec => []CountedOff
<1>1. Inv => CountedOff
  <2>. SUFFICES ASSUME Inv PROVE CountedOff
    OBVIOUS
  <2>1. TypeOK /\ OneOwner /\ PendingExact
    BY DEF Inv
  <2>2. ASSUME NEW q \in Queues, Counted(q) # {} PROVE pendingFrames[q] > 0
    <3>1. IsFiniteSet(Counted(q)) /\ Cardinality(Counted(q)) \in Nat
      BY CountedFinite
    <3>2. Cardinality(Counted(q)) # 0
      BY <2>2, <3>1, FS_EmptySet
    <3>. QED  BY <2>1, <3>1, <3>2 DEF PendingExact
  <2>3. ASSUME bhPc = "count" PROVE pendingFrames[QueueOf[bhFrame]] > 0
    <3>1. bhFrame \in Frames /\ bhFrame \in txPending
      BY <2>3 DEF Inv, Places, Finishing
    <3>2. QueueOf[bhFrame] \in Queues /\ bhFrame \in Counted(QueueOf[bhFrame])
      BY <2>3, <3>1, QueuesAssumption DEF Counted
    <3>. QED  BY <2>2, <3>2
  <2>4. ASSUME NEW p \in Procs, At(p, "count") PROVE pendingFrames[QueueOf[hand[p]]] > 0
    <3>1. hand[p] \in Frames
      BY <2>4 DEF Inv, Places, At
    <3>2. QueueOf[hand[p]] \in Queues /\ hand[p] \in Counted(QueueOf[hand[p]])
      BY <3>1, QueuesAssumption DEF Counted
    <3>. QED  BY <2>2, <3>2
  <2>. QED  BY <2>3, <2>4 DEF CountedOff
<1>. QED  BY <1>1, QueuesInvariance, PTL

\* Every variable keeps its type.
THEOREM QueuesTypeCorrect ==
  ASSUME ~LateAnswers
  PROVE  Spec => []TypeOK
<1>1. Inv => TypeOK
  BY DEF Inv
<1>. QED  BY <1>1, QueuesInvariance, PTL

-----------------------------------------------------------------------------
(* The silence *)

\* A frame that has left the lists does not come back to them.
Away(f) ==
    /\ stage[f] # "new"
    /\ \A q \in Queues : f \notin ListOf(normal[q]) \cup ListOf(cab[q])

\* What is at the chip was written once, and is not about to be.
WrittenOnce ==
    /\ bhPc = "write" => Away(bhFrame)
    /\ \A f \in chipTx : Away(f) /\ ~(bhPc \in Sending /\ bhFrame = f)

\* tx_buffers_used counts the frames that are at the chip, or confirmed.
BuffersExact == txUsed = Cardinality(chipTx) + Cardinality(Confirmed)

\* Who holds tx_lock: the threads that want the silence, and those that wait
\* for the chip to be empty.
LockedOut == {p \in Lockers : pc[p] # "idle"}
Emptying  == {p \in Procs : pc[p] \in {"empty", "unlock"}}

LockExact ==
    /\ \A p \in Lockers : pc[p] \in {"idle", "check", "empty", "unlock", "quiet"}
    /\ \A p \in Flushers : pc[p] # "quiet"
    /\ txLock = Cardinality(LockedOut) + Cardinality(Emptying)

\* From the moment the chip was seen empty, at most one frame moves.
Silence ==
    \A p \in Lockers : pc[p] \in {"unlock", "quiet"} /\ ~frozen => InFlight <= 1

QuietInv == Inv /\ WrittenOnce /\ BuffersExact /\ LockExact /\ Silence

\* The messages that are not a given one.
LEMMA OthersNumber ==
  ASSUME NEW S, NEW s \in Seq(S), NEW r
  PROVE  /\ IsFiniteSet({i \in DOMAIN s : s[i] # r})
         /\ Cardinality({i \in DOMAIN s : s[i] # r}) = Len(s) - Times(s, r)
<1>1. /\ IsFiniteSet(1 .. Len(s)) /\ Cardinality(1 .. Len(s)) = Len(s)
      /\ DOMAIN s = 1 .. Len(s)
  <2>1. Len(s) \in Nat /\ DOMAIN s = 1 .. Len(s)
    OBVIOUS
  <2>2. IsFiniteSet(1 .. Len(s)) /\ Cardinality(1 .. Len(s))
          = IF 1 > Len(s) THEN 0 ELSE Len(s) - 1 + 1
    BY <2>1, FS_Interval
  <2>. QED  BY <2>1, <2>2
<1>2. {i \in DOMAIN s : s[i] # r} = (1 .. Len(s)) \ At1(s, r)
      /\ (1 .. Len(s)) \cap At1(s, r) = At1(s, r)
  BY <1>1 DEF At1
<1>3. /\ IsFiniteSet((1 .. Len(s)) \ At1(s, r))
      /\ Cardinality((1 .. Len(s)) \ At1(s, r))
           = Cardinality(1 .. Len(s)) - Cardinality((1 .. Len(s)) \cap At1(s, r))
  BY <1>1, FS_Difference
<1>. QED  BY <1>1, <1>2, <1>3 DEF Times, At1

\* What a message more, or one less, does to the confirmations.
LEMMA ConfirmedFinite ==
  ASSUME TypeOK
  PROVE  IsFiniteSet(Confirmed) /\ Cardinality(Confirmed) \in Nat
<1>1. output \in Seq(Confirmations \cup {ResumeMc})
  BY DEF TypeOK
<1>. QED  BY <1>1, OthersNumber, FS_CardinalityType DEF Confirmed

LEMMA ConfirmedAppended ==
  ASSUME TypeOK, NEW e \in Confirmations \cup {ResumeMc}, output' = Append(output, e)
  PROVE  Cardinality(Confirmed') = Cardinality(Confirmed) + Count(e # ResumeMc)
<1>1. output \in Seq(Confirmations \cup {ResumeMc})
  BY DEF TypeOK
<1>2. output' \in Seq(Confirmations \cup {ResumeMc}) /\ Len(output') = Len(output) + 1
      /\ Len(output) \in Nat
  BY <1>1
<1>3. Times(output', ResumeMc) = Times(output, ResumeMc) + Count(e = ResumeMc)
  BY <1>1, TimesAppended
<1>4. /\ Cardinality(Confirmed) = Len(output) - Times(output, ResumeMc)
      /\ Cardinality(Confirmed') = Len(output') - Times(output', ResumeMc)
  BY <1>1, <1>2, OthersNumber DEF Confirmed
<1>5. Times(output, ResumeMc) \in Nat
  BY <1>1, TimesNumber
<1>6. Count(e = ResumeMc) = 1 - Count(e # ResumeMc) /\ Count(e # ResumeMc) \in 0 .. 1
  BY DEF Count
<1>. HIDE DEF ResumeMc
<1>. QED  BY <1>2, <1>3, <1>4, <1>5, <1>6

LEMMA ConfirmedTaken ==
  ASSUME TypeOK, output # <<>>, output' = Tail(output)
  PROVE  Cardinality(Confirmed')
            = Cardinality(Confirmed) - Count(Head(output) # ResumeMc)
<1>1. output \in Seq(Confirmations \cup {ResumeMc})
  BY DEF TypeOK
<1>2. output' \in Seq(Confirmations \cup {ResumeMc}) /\ Len(output') = Len(output) - 1
      /\ Len(output) \in Nat
  BY <1>1
<1>3. Times(output', ResumeMc) = Times(output, ResumeMc) - Count(Head(output) = ResumeMc)
  BY <1>1, TimesTaken
<1>4. /\ Cardinality(Confirmed) = Len(output) - Times(output, ResumeMc)
      /\ Cardinality(Confirmed') = Len(output') - Times(output', ResumeMc)
  BY <1>1, <1>2, OthersNumber DEF Confirmed
<1>5. Times(output, ResumeMc) \in Nat
  BY <1>1, TimesNumber
<1>6. /\ Count(Head(output) = ResumeMc) = 1 - Count(Head(output) # ResumeMc)
      /\ Count(Head(output) # ResumeMc) \in 0 .. 1
  BY DEF Count
<1>. HIDE DEF ResumeMc
<1>. QED  BY <1>2, <1>3, <1>4, <1>5, <1>6

\* A confirmation is not the other message.
LEMMA NotResume ==
  ASSUME NEW c \in Confirmations
  PROVE  c # ResumeMc
<1>1. c.frame \in Frames
  BY QueuesAssumption DEF Confirmations
<1>2. ResumeMc.frame = None
  BY DEF ResumeMc
<1>. QED  BY <1>1, <1>2, QueuesAssumption

\* A frame the bottom half is about to send has left the lists.
LEMMA HeldAway ==
  ASSUME TypeOK, Places, OneOwner, NEW f \in Frames, Held(f)
  PROVE  Away(f)
<1>1. Times(normal[QueueOf[f]], f) = 0 /\ Times(cab[QueueOf[f]], f) = 0
      /\ Count(stage[f] # "new") = 1
  BY Exclusive, Parts
<1>2. stage[f] # "new"
  BY <1>1 DEF Count
<1>3. f \notin ListOf(normal[QueueOf[f]]) \cup ListOf(cab[QueueOf[f]])
  <2>1. QueueOf[f] \in Queues
    BY QueuesAssumption
  <2>2. normal[QueueOf[f]] \in Seq(Frames) /\ cab[QueueOf[f]] \in Seq(Frames)
    BY <2>1 DEF TypeOK
  <2>. QED  BY <1>1, <2>2, TimesNumber
<1>. QED  BY <1>2, <1>3 DEF Away, Places

\* A frame that has left the lists never comes back.
LEMMA AwayNext ==
  ASSUME TypeOK, [Next]_vars, NEW f \in Frames, Away(f)
  PROVE  Away(f)'
<1>. USE DEF timVars, bhVars, chipVars, procVars, queueVars
<1>0. ASSUME UNCHANGED <<stage, normal, cab>> PROVE Away(f)'
  BY <1>0 DEF Away
<1>1. ASSUME NEW g \in Frames, Put(g) PROVE Away(f)'
  <2>1. g # f /\ stage'[f] = stage[f]
    BY <1>1 DEF Put, Away, TypeOK
  <2>2. ASSUME NEW q \in Queues
        PROVE  /\ ListOf(normal'[q]) \subseteq ListOf(normal[q]) \cup {g}
               /\ ListOf(cab'[q]) \subseteq ListOf(cab[q]) \cup {g}
    <3>1. normal[q] \in Seq(Frames) /\ cab[q] \in Seq(Frames)
      BY DEF TypeOK
    <3>2. /\ normal'[q] = normal[q] \/ normal'[q] = Append(normal[q], g)
          /\ cab'[q] = cab[q] \/ cab'[q] = Append(cab[q], g)
      <4>1. CASE g \in Mcast
        <5>1. normal' = normal /\ cab' = [cab EXCEPT ![QueueOf[g]] = Append(@, g)]
          BY <1>1, <4>1 DEF Put, Enqueue
        <5>. QED  BY <5>1 DEF TypeOK
      <4>2. CASE g \notin Mcast
        <5>1. cab' = cab /\ normal' = [normal EXCEPT ![QueueOf[g]] = Append(@, g)]
          BY <1>1, <4>2 DEF Put, Enqueue
        <5>. QED  BY <5>1 DEF TypeOK
      <4>. QED  BY <4>1, <4>2
    <3>3. /\ ListOf(Append(normal[q], g)) = ListOf(normal[q]) \cup {g}
          /\ ListOf(Append(cab[q], g)) = ListOf(cab[q]) \cup {g}
      BY <3>1, ListAppended
    <3>. QED  BY <3>2, <3>3
  <2>. QED  BY <2>1, <2>2 DEF Away
<1>2. ASSUME NEW g \in Frames, ScheduleTim(g) PROVE Away(f)'
  BY <1>2 DEF ScheduleTim, Away, TypeOK
<1>3. CASE BhTakeCab
  <2>1. PICK q \in Queues : /\ IsFirst(q, cab)
                            /\ cab' = [cab EXCEPT ![q] = Tail(@)]
    BY <1>3 DEF BhTakeCab
  <2>2. cab[q] \in Seq(Frames) /\ cab[q] # <<>>
    BY <2>1 DEF IsFirst, TypeOK
  <2>3. ListOf(Tail(cab[q])) \subseteq ListOf(cab[q])
    BY <2>2, ListTaken
  <2>4. \A r \in Queues : ListOf(cab'[r]) \subseteq ListOf(cab[r])
    BY <2>1, <2>3 DEF TypeOK
  <2>. QED  BY <1>3, <2>4 DEF BhTakeCab, Away
<1>4. CASE BhTakeNormal
  <2>1. PICK q \in Queues : /\ IsFirst(q, normal)
                            /\ normal' = [normal EXCEPT ![q] = Tail(@)]
    BY <1>4 DEF BhTakeNormal
  <2>2. normal[q] \in Seq(Frames) /\ normal[q] # <<>>
    BY <2>1 DEF IsFirst, TypeOK
  <2>3. ListOf(Tail(normal[q])) \subseteq ListOf(normal[q])
    BY <2>2, ListTaken
  <2>4. \A r \in Queues : ListOf(normal'[r]) \subseteq ListOf(normal[r])
    BY <2>1, <2>3 DEF TypeOK
  <2>. QED  BY <1>4, <2>4 DEF BhTakeNormal, Away
<1>5. ASSUME NEW p \in Procs, NEW q \in Queues, FlushDrop(p, q) PROVE Away(f)'
  <2>1. \A r \in Queues : /\ normal'[r] = IF r = q THEN <<>> ELSE normal[r]
                          /\ cab'[r] = IF r = q THEN <<>> ELSE cab[r]
    BY <1>5 DEF FlushDrop, TypeOK
  <2>2. ListOf(<<>>) = {}
    BY DEF ListOf
  <2>. QED  BY <1>5, <2>1, <2>2 DEF FlushDrop, OthersUnchanged, Away
<1>6. ASSUME NEW g \in Frames, ChipConfirms(g) PROVE Away(f)'
  BY <1>0, <1>6 DEF ChipConfirms
<1>7. CASE StopBeacon \/ ChipDtim \/ ChipHangs \/ Freeze \/ TimRead \/ TimSend
  BY <1>0, <1>7 DEF StopBeacon, ChipDtim, ChipHangs, Freeze, TimRead, TimSend
<1>8. CASE \/ BhStart \/ BhTest \/ BhCabDone \/ BhTakeNone \/ BhAppend
           \/ BhWrite \/ BhWriteFails \/ BhReadCnf \/ BhFind \/ BhCount \/ BhUnlink
           \/ BhReport \/ BhResumeMc \/ BhReadNone
  BY <1>0, <1>8
     DEF BhStart, BhTest, BhCabDone, BhTakeNone, BhAppend, BhWrite, BhWriteFails,
         BhReadCnf, BhFind, BhCount, BhUnlink, BhReport, BhResumeMc, BhReadNone
<1>9. ASSUME NEW p \in Procs,
             \/ Call(p) \/ \E q \in Queues : FlushWait(p, q)
             \/ FlushWaited(p) \/ Check(p) \/ ChipEmpty(p) \/ ChipStuck(p)
             \/ FlushUnlock(p) \/ LockEnd(p) \/ Decide(p)
             \/ PendingTake(p) \/ PendingCount(p) \/ PendingDone(p)
             \/ FlushReport(p) \/ FlushEnd(p)
      PROVE  Away(f)'
  BY <1>0, <1>9
     DEF Call, FlushStart, Lock, FlushWait, FlushWaited, Check, ChipEmpty, ChipStuck,
         FlushUnlock, LockEnd, Decide, PendingTake, PendingCount, PendingDone,
         FlushReport, FlushEnd, OthersUnchanged
<1>10. CASE UNCHANGED vars
  BY <1>0, <1>10 DEF vars
<1>. QED
  BY <1>1, <1>2, <1>3, <1>4, <1>5, <1>6, <1>7, <1>8, <1>9, <1>10
     DEF Next, Advance, BottomHalf, TimWork

LEMMA WrittenOnceNext ==
  ASSUME Inv, WrittenOnce, [Next]_vars
  PROVE  WrittenOnce'
<1>. USE DEF Inv, Sending, timVars, bhVars, chipVars, procVars, queueVars
<1>0. /\ \A f \in Frames : Away(f) => Away(f)'
      /\ chipTx \subseteq Frames
      /\ bhPc = "write" => bhFrame \in Frames
  BY AwayNext DEF TypeOK, Places
<1>1. ASSUME UNCHANGED <<bhPc, bhFrame>>, chipTx' \subseteq chipTx
      PROVE  WrittenOnce'
  BY <1>0, <1>1 DEF WrittenOnce
<1>2. ASSUME bhPc' \notin Sending, chipTx' = chipTx PROVE WrittenOnce'
  BY <1>0, <1>2 DEF WrittenOnce
<1>3. ASSUME NEW f \in Frames, Put(f) \/ ScheduleTim(f) \/ ChipConfirms(f)
      PROVE  WrittenOnce'
  BY <1>1, <1>3 DEF Put, ScheduleTim, ChipConfirms
<1>4. ASSUME NEW f \in Frames, bhFrame' = f, bhPc' = "append", chipTx' = chipTx,
             ~Away(f)
      PROVE  WrittenOnce'
  BY <1>0, <1>4 DEF WrittenOnce
<1>5. CASE BhTakeCab
  <2>1. PICK q \in Queues : IsFirst(q, cab) /\ Take(q, Head(cab[q]))
    BY <1>5 DEF BhTakeCab
  <2>2. cab[q] \in Seq(Frames) /\ cab[q] # <<>>
    BY <2>1 DEF IsFirst, TypeOK
  <2>3. Head(cab[q]) \in Frames /\ Head(cab[q]) \in ListOf(cab[q])
    BY <2>2 DEF ListOf
  <2>4. ~Away(Head(cab[q]))
    BY <2>3 DEF Away
  <2>5. bhFrame' = Head(cab[q]) /\ bhPc' = "append" /\ chipTx' = chipTx
    BY <1>5, <2>1 DEF BhTakeCab, Take
  <2>. QED  BY <1>4, <2>3, <2>4, <2>5
<1>6. CASE BhTakeNormal
  <2>1. PICK q \in Queues : IsFirst(q, normal) /\ Take(q, Head(normal[q]))
    BY <1>6 DEF BhTakeNormal
  <2>2. normal[q] \in Seq(Frames) /\ normal[q] # <<>>
    BY <2>1 DEF IsFirst, TypeOK
  <2>3. Head(normal[q]) \in Frames /\ Head(normal[q]) \in ListOf(normal[q])
    BY <2>2 DEF ListOf
  <2>4. ~Away(Head(normal[q]))
    BY <2>3 DEF Away
  <2>5. bhFrame' = Head(normal[q]) /\ bhPc' = "append" /\ chipTx' = chipTx
    BY <1>6, <2>1 DEF BhTakeNormal, Take
  <2>. QED  BY <1>4, <2>3, <2>4, <2>5
<1>7. CASE BhAppend
  <2>1. bhPc = "append" /\ bhFrame \in Frames /\ UNCHANGED <<bhFrame, chipTx>>
        /\ bhPc' = "write"
    BY <1>7 DEF BhAppend, Places
  <2>2. Away(bhFrame)
    BY <2>1, HeldAway DEF Held
  <2>3. Away(bhFrame)'
    BY <1>7, <2>1, <2>2
       DEF BhAppend, Away
  <2>. QED  BY <1>0, <2>1, <2>3 DEF WrittenOnce
<1>8. CASE BhWrite
  <2>1. /\ chipTx' = chipTx \cup {bhFrame} /\ bhPc' = "tx" /\ bhFrame \in Frames
        /\ Away(bhFrame)
    BY <1>0, <1>8 DEF BhWrite, WrittenOnce
  <2>. QED  BY <1>0, <2>1 DEF WrittenOnce
<1>9. CASE \/ BhStart \/ BhTest \/ BhCabDone \/ BhTakeNone \/ BhWriteFails
           \/ BhReadCnf \/ BhFind \/ BhCount \/ BhUnlink \/ BhReport \/ BhReadNone
  BY <1>2, <1>9
     DEF BhStart, BhTest, BhCabDone, BhTakeNone, BhWriteFails, BhReadCnf, BhFind,
         BhCount, BhUnlink, BhReport, BhReadNone
<1>10. CASE \/ BhResumeMc \/ StopBeacon \/ ChipDtim \/ ChipHangs \/ Freeze
            \/ TimRead \/ TimSend
  BY <1>1, <1>10
     DEF BhResumeMc, StopBeacon, ChipDtim, ChipHangs, Freeze, TimRead, TimSend
<1>11. ASSUME NEW p \in Procs, Call(p) \/ Advance(p) PROVE WrittenOnce'
  <2>1. UNCHANGED <<bhPc, bhFrame, chipTx>>
    BY <1>11
       DEF Call, Advance, FlushStart, Lock, FlushDrop, FlushWait, FlushWaited, Check,
           ChipEmpty, ChipStuck, FlushUnlock, LockEnd, Decide, PendingTake,
           PendingCount, PendingDone, FlushReport, FlushEnd, OthersUnchanged
  <2>. QED  BY <1>1, <2>1
<1>12. CASE UNCHANGED vars
  BY <1>1, <1>12 DEF vars
<1>. QED
  BY <1>3, <1>5, <1>6, <1>7, <1>8, <1>9, <1>10, <1>11, <1>12
     DEF Next, BottomHalf, TimWork

\* The chip and what it says, before and after each step.
LEMMA ChipSteps ==
  ASSUME [Next]_vars
  PROVE  \/ UNCHANGED <<chipTx, output, txUsed>>
         \/ BhWrite \/ BhReadCnf \/ BhResumeMc \/ ChipDtim
         \/ \E f \in Frames : ChipConfirms(f)
<1>. USE DEF timVars, bhVars, chipVars, procVars, queueVars
<1>1. ASSUME NEW f \in Frames, Put(f) \/ ScheduleTim(f)
      PROVE  UNCHANGED <<chipTx, output, txUsed>>
  BY <1>1 DEF Put, ScheduleTim
<1>2. CASE \/ BhStart \/ BhTest \/ BhTakeCab \/ BhCabDone \/ BhTakeNormal
           \/ BhTakeNone \/ BhAppend \/ BhWriteFails \/ BhFind \/ BhCount
           \/ BhUnlink \/ BhReport \/ BhReadNone
  BY <1>2
     DEF BhStart, BhTest, BhTakeCab, BhCabDone, BhTakeNormal, BhTakeNone, BhAppend,
         BhWriteFails, BhFind, BhCount, BhUnlink, BhReport, BhReadNone
<1>3. CASE StopBeacon \/ ChipHangs \/ Freeze \/ TimRead \/ TimSend
  BY <1>3 DEF StopBeacon, ChipHangs, Freeze, TimRead, TimSend
<1>4. ASSUME NEW p \in Procs, Call(p) \/ Advance(p)
      PROVE  UNCHANGED <<chipTx, output, txUsed>>
  BY <1>4
     DEF Call, Advance, FlushStart, Lock, FlushDrop, FlushWait, FlushWaited, Check,
         ChipEmpty, ChipStuck, FlushUnlock, LockEnd, Decide, PendingTake,
         PendingCount, PendingDone, FlushReport, FlushEnd, OthersUnchanged
<1>5. CASE UNCHANGED vars
  BY <1>5 DEF vars
<1>. QED  BY <1>1, <1>2, <1>3, <1>4, <1>5 DEF Next, BottomHalf, TimWork

LEMMA ChipFinite ==
  ASSUME TypeOK
  PROVE  IsFiniteSet(chipTx) /\ Cardinality(chipTx) \in Nat
<1>1. IsFiniteSet(Frames) /\ chipTx \in SUBSET Frames
  BY QueuesAssumption DEF TypeOK
<1>. QED  BY <1>1, FS_Subset, FS_CardinalityType

\* How a step changes the number of frames at the chip and of confirmations.
LEMMA ChipNumbers ==
  ASSUME Inv, WrittenOnce
  PROVE  /\ BhWrite => /\ Cardinality(chipTx') = Cardinality(chipTx) + 1
                       /\ Cardinality(Confirmed') = Cardinality(Confirmed)
         /\ BhReadCnf => /\ Cardinality(chipTx') = Cardinality(chipTx)
                         /\ Cardinality(Confirmed') = Cardinality(Confirmed) - 1
         /\ BhResumeMc \/ ChipDtim =>
               /\ Cardinality(chipTx') = Cardinality(chipTx)
               /\ Cardinality(Confirmed') = Cardinality(Confirmed)
         /\ (\E f \in Frames : ChipConfirms(f)) =>
               /\ Cardinality(chipTx') = Cardinality(chipTx) - 1
               /\ Cardinality(Confirmed') = Cardinality(Confirmed) + 1
<1>. USE DEF Inv, chipVars
<1>0. IsFiniteSet(chipTx) /\ Cardinality(chipTx) \in Nat
      /\ Cardinality(Confirmed) \in Nat
  BY ChipFinite, ConfirmedFinite
<1>1. ASSUME BhWrite
      PROVE  /\ Cardinality(chipTx') = Cardinality(chipTx) + 1
             /\ Cardinality(Confirmed') = Cardinality(Confirmed)
  <2>1. bhFrame \notin chipTx /\ chipTx' = chipTx \cup {bhFrame} /\ output' = output
    BY <1>1 DEF BhWrite, WrittenOnce, Sending
  <2>2. Confirmed' = Confirmed
    BY <2>1 DEF Confirmed
  <2>. QED  BY <1>0, <2>1, <2>2, FS_AddElement
<1>2. ASSUME BhReadCnf
      PROVE  /\ Cardinality(chipTx') = Cardinality(chipTx)
             /\ Cardinality(Confirmed') = Cardinality(Confirmed) - 1
  <2>1. output # <<>> /\ Head(output) # ResumeMc /\ output' = Tail(output)
        /\ chipTx' = chipTx
    BY <1>2 DEF BhReadCnf
  <2>2. Cardinality(Confirmed')
           = Cardinality(Confirmed) - Count(Head(output) # ResumeMc)
    BY <2>1, ConfirmedTaken
  <2>. QED  BY <2>1, <2>2 DEF Count
<1>3. ASSUME BhResumeMc
      PROVE  /\ Cardinality(chipTx') = Cardinality(chipTx)
             /\ Cardinality(Confirmed') = Cardinality(Confirmed)
  <2>1. output # <<>> /\ Head(output) = ResumeMc /\ output' = Tail(output)
        /\ chipTx' = chipTx
    BY <1>3 DEF BhResumeMc
  <2>2. Cardinality(Confirmed')
           = Cardinality(Confirmed) - Count(Head(output) # ResumeMc)
    BY <2>1, ConfirmedTaken
  <2>3. Count(Head(output) # ResumeMc) = 0
    BY <2>1 DEF Count
  <2>. QED  BY <1>0, <2>1, <2>2, <2>3
<1>4. ASSUME ChipDtim
      PROVE  /\ Cardinality(chipTx') = Cardinality(chipTx)
             /\ Cardinality(Confirmed') = Cardinality(Confirmed)
  <2>1. output' = Append(output, ResumeMc) /\ chipTx' = chipTx
    BY <1>4 DEF ChipDtim
  <2>2. Cardinality(Confirmed')
           = Cardinality(Confirmed) + Count(ResumeMc # ResumeMc)
    BY <2>1, ConfirmedAppended
  <2>3. Count(ResumeMc # ResumeMc) = 0
    BY DEF Count
  <2>. QED  BY <1>0, <2>1, <2>2, <2>3
<1>5. ASSUME NEW f \in Frames, ChipConfirms(f)
      PROVE  /\ Cardinality(chipTx') = Cardinality(chipTx) - 1
             /\ Cardinality(Confirmed') = Cardinality(Confirmed) + 1
  <2>1. PICK c \in Confirmations : output' = Append(output, c)
    BY <1>5 DEF ChipConfirms
  <2>2. Cardinality(Confirmed') = Cardinality(Confirmed) + Count(c # ResumeMc)
    BY <2>1, ConfirmedAppended
  <2>3. Count(c # ResumeMc) = 1
    BY NotResume DEF Count
  <2>4. f \in chipTx /\ chipTx' = chipTx \ {f}
    BY <1>5 DEF ChipConfirms
  <2>. QED  BY <1>0, <2>2, <2>3, <2>4, FS_RemoveElement
<1>. QED  BY <1>1, <1>2, <1>3, <1>4, <1>5

LEMMA BuffersNext ==
  ASSUME Inv, WrittenOnce, BuffersExact, [Next]_vars
  PROVE  BuffersExact'
<1>1. Cardinality(chipTx) \in Nat /\ Cardinality(Confirmed) \in Nat
  BY ChipFinite, ConfirmedFinite DEF Inv
<1>2. CASE UNCHANGED <<chipTx, output, txUsed>>
  BY <1>2 DEF BuffersExact, Confirmed
<1>3. CASE BhWrite
  BY <1>1, <1>3, ChipNumbers DEF BuffersExact, BhWrite
<1>4. CASE BhReadCnf
  BY <1>1, <1>4, ChipNumbers DEF BuffersExact, BhReadCnf
<1>5. CASE BhResumeMc \/ ChipDtim
  BY <1>1, <1>5, ChipNumbers DEF BuffersExact, BhResumeMc, ChipDtim
<1>6. ASSUME NEW f \in Frames, ChipConfirms(f) PROVE BuffersExact'
  BY <1>1, <1>6, ChipNumbers DEF BuffersExact, ChipConfirms
<1>. QED  BY <1>2, <1>3, <1>4, <1>5, <1>6, ChipSteps

\* A set that may win or lose one element.
LEMMA OneMoves ==
  ASSUME NEW S, IsFiniteSet(S), NEW T, NEW x, \A y : y # x => (y \in T <=> y \in S)
  PROVE  Cardinality(T) = Cardinality(S) - Count(x \in S) + Count(x \in T)
<1>1. Cardinality(S) \in Nat
  BY FS_CardinalityType
<1>2. CASE x \in S /\ x \in T
  BY <1>1, <1>2 DEF Count
<1>3. CASE x \in S /\ x \notin T
  <2>1. T = S \ {x}
    BY <1>3
  <2>. QED  BY <1>1, <1>3, <2>1, FS_RemoveElement DEF Count
<1>4. CASE x \notin S /\ x \in T
  <2>1. T = S \cup {x}
    BY <1>4
  <2>. QED  BY <1>1, <1>4, <2>1, FS_AddElement DEF Count
<1>5. CASE x \notin S /\ x \notin T
  <2>1. T = S
    BY <1>5
  <2>. QED  BY <1>1, <1>5, <2>1 DEF Count
<1>. QED  BY <1>2, <1>3, <1>4, <1>5

LEMMA HoldersFinite ==
  /\ IsFiniteSet(LockedOut) /\ Cardinality(LockedOut) \in Nat
  /\ IsFiniteSet(Emptying) /\ Cardinality(Emptying) \in Nat
<1>1. IsFiniteSet(Procs) /\ LockedOut \in SUBSET Procs /\ Emptying \in SUBSET Procs
  BY QueuesAssumption DEF LockedOut, Emptying, Procs
<1>. QED  BY <1>1, FS_Subset, FS_CardinalityType

\* What a step of a thread does to the holders of tx_lock.
LEMMA HoldersMove ==
  ASSUME TypeOK, NEW p \in Procs, NEW l, Goto(p, l)
  PROVE  /\ Cardinality(LockedOut') = Cardinality(LockedOut)
                - Count(p \in Lockers /\ pc[p] # "idle")
                + Count(p \in Lockers /\ l # "idle")
         /\ Cardinality(Emptying') = Cardinality(Emptying)
                - Count(pc[p] \in {"empty", "unlock"}) + Count(l \in {"empty", "unlock"})
         /\ pc'[p] = l /\ \A r \in Procs : r # p => pc'[r] = pc[r]
<1>1. pc'[p] = l /\ \A r \in Procs : r # p => pc'[r] = pc[r]
  BY DEF Goto, TypeOK
<1>2. /\ \A r : r # p => (r \in LockedOut' <=> r \in LockedOut)
      /\ \A r : r # p => (r \in Emptying' <=> r \in Emptying)
  BY <1>1 DEF LockedOut, Emptying, Procs
<1>3. /\ Cardinality(LockedOut') = Cardinality(LockedOut) - Count(p \in LockedOut)
                                      + Count(p \in LockedOut')
      /\ Cardinality(Emptying') = Cardinality(Emptying) - Count(p \in Emptying)
                                      + Count(p \in Emptying')
  BY <1>2, HoldersFinite, OneMoves
<1>4. /\ p \in LockedOut <=> p \in Lockers /\ pc[p] # "idle"
      /\ p \in LockedOut' <=> p \in Lockers /\ l # "idle"
      /\ p \in Emptying <=> pc[p] \in {"empty", "unlock"}
      /\ p \in Emptying' <=> l \in {"empty", "unlock"}
  BY <1>1 DEF LockedOut, Emptying
<1>5. /\ Count(p \in LockedOut) = Count(p \in Lockers /\ pc[p] # "idle")
      /\ Count(p \in LockedOut') = Count(p \in Lockers /\ l # "idle")
      /\ Count(p \in Emptying) = Count(pc[p] \in {"empty", "unlock"})
      /\ Count(p \in Emptying') = Count(l \in {"empty", "unlock"})
  BY <1>4 DEF Count
<1>. QED  BY <1>1, <1>3, <1>5

LEMMA LockNext ==
  ASSUME Inv, LockExact, [Next]_vars
  PROVE  LockExact'
<1>. USE DEF timVars, bhVars, chipVars, procVars, queueVars
<1>0. /\ Cardinality(LockedOut) \in Nat /\ Cardinality(Emptying) \in Nat
      /\ TypeOK /\ Flushers \cap Lockers = {} /\ Procs = Flushers \cup Lockers
  BY HoldersFinite, QueuesAssumption DEF Inv, Procs
<1>1. ASSUME UNCHANGED <<pc, txLock>> PROVE LockExact'
  BY <1>1 DEF LockExact, LockedOut, Emptying
<1>2. ASSUME NEW p \in Procs, NEW l, Goto(p, l),
             p \in Lockers => l \in {"idle", "check", "empty", "unlock", "quiet"},
             p \in Flushers => l # "quiet",
             txLock' = txLock - Count(p \in Lockers /\ pc[p] # "idle")
                         + Count(p \in Lockers /\ l # "idle")
                         - Count(pc[p] \in {"empty", "unlock"})
                         + Count(l \in {"empty", "unlock"})
      PROVE  LockExact'
  <2>1. /\ Cardinality(LockedOut') = Cardinality(LockedOut)
                - Count(p \in Lockers /\ pc[p] # "idle")
                + Count(p \in Lockers /\ l # "idle")
        /\ Cardinality(Emptying') = Cardinality(Emptying)
                - Count(pc[p] \in {"empty", "unlock"}) + Count(l \in {"empty", "unlock"})
        /\ pc'[p] = l /\ \A r \in Procs : r # p => pc'[r] = pc[r]
    BY <1>0, <1>2, HoldersMove
  <2>2. /\ Count(p \in Lockers /\ pc[p] # "idle") \in Int
        /\ Count(p \in Lockers /\ l # "idle") \in Int
        /\ Count(pc[p] \in {"empty", "unlock"}) \in Int
        /\ Count(l \in {"empty", "unlock"}) \in Int
    BY DEF Count
  <2>3. txLock' = Cardinality(LockedOut') + Cardinality(Emptying')
    BY <1>0, <1>2, <2>1, <2>2 DEF LockExact
  <2>4. /\ \A r \in Lockers : pc'[r] \in {"idle", "check", "empty", "unlock", "quiet"}
        /\ \A r \in Flushers : pc'[r] # "quiet"
    BY <1>0, <1>2, <2>1 DEF LockExact
  <2>. QED  BY <2>3, <2>4 DEF LockExact
<1>3. ASSUME NEW p \in Procs, NEW l, Goto(p, l), p \in Flushers, l # "quiet",
             UNCHANGED txLock, pc[p] \notin {"empty", "unlock"},
             l \notin {"empty", "unlock"}
      PROVE  LockExact'
  <2>1. p \notin Lockers
    BY <1>0, <1>3
  <2>2. txLock \in Int
    BY <1>0 DEF TypeOK
  <2>3. /\ Count(p \in Lockers /\ pc[p] # "idle") = 0
        /\ Count(p \in Lockers /\ l # "idle") = 0
        /\ Count(pc[p] \in {"empty", "unlock"}) = 0
        /\ Count(l \in {"empty", "unlock"}) = 0
    BY <1>3, <2>1 DEF Count
  <2>. QED  BY <1>0, <1>2, <1>3, <2>1, <2>2, <2>3
<1>4. ASSUME NEW p \in Procs, pc[p] \in {"drop", "wait", "decide", "pending", "count",
                                         "report"}
      PROVE  p \in Flushers
  BY <1>0, <1>4 DEF LockExact
<1>5. ASSUME NEW f \in Frames, Put(f) \/ ScheduleTim(f) \/ ChipConfirms(f)
      PROVE  LockExact'
  BY <1>1, <1>5 DEF Put, ScheduleTim, ChipConfirms
<1>6. CASE BottomHalf
  BY <1>1, <1>6
     DEF BottomHalf, BhStart, BhTest, BhTakeCab, BhCabDone, BhTakeNormal, BhTakeNone,
         BhAppend, BhWrite, BhWriteFails, BhReadCnf, BhFind, BhCount, BhUnlink,
         BhReport, BhResumeMc, BhReadNone
<1>7. CASE StopBeacon \/ ChipDtim \/ ChipHangs \/ Freeze \/ TimRead \/ TimSend
  BY <1>1, <1>7 DEF StopBeacon, ChipDtim, ChipHangs, Freeze, TimRead, TimSend
<1>8. ASSUME NEW p \in Procs, FlushStart(p) PROVE LockExact'
  <2>1. PICK l \in {"drop", "wait"} : Goto(p, l)
    BY <1>8 DEF FlushStart
  <2>2. p \in Flushers /\ pc[p] = "idle" /\ UNCHANGED txLock
    BY <1>8 DEF FlushStart, At
  <2>. QED  BY <1>3, <2>1, <2>2
<1>9. ASSUME NEW p \in Procs, Lock(p) PROVE LockExact'
  <2>1. /\ p \in Lockers /\ pc[p] = "idle" /\ txLock' = txLock + 1
        /\ Goto(p, "check") /\ txLock \in Int
    BY <1>0, <1>9 DEF Lock, At, TypeOK
  <2>2. /\ Count(p \in Lockers /\ pc[p] # "idle") = 0
        /\ Count(p \in Lockers /\ "check" # "idle") = 1
        /\ Count(pc[p] \in {"empty", "unlock"}) = 0
        /\ Count("check" \in {"empty", "unlock"}) = 0
    BY <2>1 DEF Count
  <2>. QED  BY <1>0, <1>2, <2>1, <2>2
<1>10. ASSUME NEW p \in Procs, NEW q \in Queues, FlushDrop(p, q) \/ FlushWait(p, q)
       PROVE  LockExact'
  <2>1. CASE UNCHANGED <<pc, txLock>>
    BY <1>1, <2>1
  <2>2. CASE pc[p] = "drop" /\ Goto(p, "wait") /\ UNCHANGED txLock
    BY <1>3, <1>4, <2>2
  <2>. QED  BY <1>10, <2>1, <2>2 DEF FlushDrop, FlushWait, At
<1>11. ASSUME NEW p \in Procs, FlushWaited(p) PROVE LockExact'
  <2>1. pc[p] = "wait" /\ Goto(p, "check") /\ UNCHANGED txLock
    BY <1>11 DEF FlushWaited, At
  <2>. QED  BY <1>3, <1>4, <2>1
<1>12. ASSUME NEW p \in Procs, Check(p) PROVE LockExact'
  <2>0. pc[p] = "check" /\ txLock \in Int
    BY <1>0, <1>12 DEF Check, At, TypeOK
  <2>1. CASE frozen
    <3>1. Goto(p, AfterFlush(p)) /\ UNCHANGED txLock
      BY <1>12, <2>1 DEF Check
    <3>2. CASE p \in Lockers
      <4>1. AfterFlush(p) = "quiet" /\ p \notin Flushers
        BY <1>0, <3>2 DEF AfterFlush
      <4>2. /\ Count(p \in Lockers /\ pc[p] # "idle") = 1
            /\ Count(p \in Lockers /\ "quiet" # "idle") = 1
            /\ Count(pc[p] \in {"empty", "unlock"}) = 0
            /\ Count("quiet" \in {"empty", "unlock"}) = 0
        BY <2>0, <3>2 DEF Count
      <4>. QED  BY <1>2, <2>0, <3>1, <3>2, <4>1, <4>2
    <3>3. CASE p \notin Lockers
      <4>1. AfterFlush(p) = "decide" /\ p \in Flushers
        BY <1>0, <3>3 DEF AfterFlush
      <4>. QED  BY <1>3, <2>0, <3>1, <4>1
    <3>. QED  BY <3>2, <3>3
  <2>2. CASE ~frozen
    <3>1. Goto(p, "empty") /\ txLock' = txLock + 1
      BY <1>12, <2>2 DEF Check
    <3>2. /\ Count(p \in Lockers /\ pc[p] # "idle")
               = Count(p \in Lockers /\ "empty" # "idle")
          /\ Count(p \in Lockers /\ "empty" # "idle") \in 0 .. 1
          /\ Count(pc[p] \in {"empty", "unlock"}) = 0
          /\ Count("empty" \in {"empty", "unlock"}) = 1
      BY <2>0 DEF Count
    <3>. QED  BY <1>2, <2>0, <3>1, <3>2
  <2>. QED  BY <2>1, <2>2
<1>13. ASSUME NEW p \in Procs, ChipEmpty(p) \/ ChipStuck(p) PROVE LockExact'
  <2>1. pc[p] = "empty" /\ Goto(p, "unlock") /\ UNCHANGED txLock /\ txLock \in Int
    BY <1>0, <1>13 DEF ChipEmpty, ChipStuck, At, TypeOK
  <2>2. /\ Count(p \in Lockers /\ pc[p] # "idle")
               = Count(p \in Lockers /\ "unlock" # "idle")
        /\ Count(p \in Lockers /\ "unlock" # "idle") \in 0 .. 1
        /\ Count(pc[p] \in {"empty", "unlock"}) = 1
        /\ Count("unlock" \in {"empty", "unlock"}) = 1
    BY <2>1 DEF Count
  <2>. QED  BY <1>2, <2>1, <2>2
<1>14. ASSUME NEW p \in Procs, FlushUnlock(p) PROVE LockExact'
  <2>0. pc[p] = "unlock" /\ txLock \in Int /\ txLock' = txLock - 1
        /\ Goto(p, AfterFlush(p))
    BY <1>0, <1>14 DEF FlushUnlock, Unlock, At, TypeOK
  <2>1. CASE p \in Lockers
    <3>1. AfterFlush(p) = "quiet" /\ p \notin Flushers
      BY <1>0, <2>1 DEF AfterFlush
    <3>2. /\ Count(p \in Lockers /\ pc[p] # "idle") = 1
          /\ Count(p \in Lockers /\ "quiet" # "idle") = 1
          /\ Count(pc[p] \in {"empty", "unlock"}) = 1
          /\ Count("quiet" \in {"empty", "unlock"}) = 0
      BY <2>0, <2>1 DEF Count
    <3>. QED  BY <1>2, <2>0, <3>1, <3>2
  <2>2. CASE p \notin Lockers
    <3>1. AfterFlush(p) = "decide"
      BY <2>2 DEF AfterFlush
    <3>2. /\ Count(p \in Lockers /\ pc[p] # "idle") = 0
          /\ Count(p \in Lockers /\ "decide" # "idle") = 0
          /\ Count(pc[p] \in {"empty", "unlock"}) = 1
          /\ Count("decide" \in {"empty", "unlock"}) = 0
      BY <2>0, <2>2 DEF Count
    <3>. QED  BY <1>2, <2>0, <2>2, <3>1, <3>2
  <2>. QED  BY <2>1, <2>2
<1>15. ASSUME NEW p \in Procs, LockEnd(p) PROVE LockExact'
  <2>1. pc[p] = "quiet" /\ txLock \in Int /\ txLock' = txLock - 1 /\ Goto(p, "idle")
    BY <1>0, <1>15 DEF LockEnd, Unlock, At, TypeOK
  <2>2. p \in Lockers
    BY <1>0, <2>1 DEF LockExact
  <2>3. /\ Count(p \in Lockers /\ pc[p] # "idle") = 1
        /\ Count(p \in Lockers /\ "idle" # "idle") = 0
        /\ Count(pc[p] \in {"empty", "unlock"}) = 0
        /\ Count("idle" \in {"empty", "unlock"}) = 0
    BY <2>1, <2>2 DEF Count
  <2>. QED  BY <1>2, <2>1, <2>2, <2>3
<1>16. ASSUME NEW p \in Procs, Decide(p) PROVE LockExact'
  <2>1. PICK l \in {"pending", "report"} : Goto(p, l)
    BY <1>16 DEF Decide
  <2>2. pc[p] = "decide" /\ UNCHANGED txLock
    BY <1>16 DEF Decide, At
  <2>. QED  BY <1>3, <1>4, <2>1, <2>2
<1>17. ASSUME NEW p \in Procs, PendingTake(p) \/ PendingCount(p) \/ PendingDone(p)
       PROVE  LockExact'
  <2>1. PICK l \in {"pending", "count", "report"} : Goto(p, l)
    BY <1>17 DEF PendingTake, PendingCount, PendingDone
  <2>2. pc[p] \in {"pending", "count"} /\ UNCHANGED txLock
    BY <1>17 DEF PendingTake, PendingCount, PendingDone, At
  <2>. QED  BY <1>3, <1>4, <2>1, <2>2
<1>18. ASSUME NEW p \in Procs, FlushReport(p) PROVE LockExact'
  BY <1>1, <1>18 DEF FlushReport
<1>19. ASSUME NEW p \in Procs, FlushEnd(p) PROVE LockExact'
  <2>1. pc[p] = "report" /\ Goto(p, "idle") /\ UNCHANGED txLock
    BY <1>19 DEF FlushEnd, At
  <2>. QED  BY <1>3, <1>4, <2>1
<1>20. CASE UNCHANGED vars
  BY <1>1, <1>20 DEF vars
<1>. QED
  BY <1>5, <1>6, <1>7, <1>8, <1>9, <1>10, <1>11, <1>12, <1>13, <1>14, <1>15, <1>16,
     <1>17, <1>18, <1>19, <1>20
     DEF Next, Call, Advance, TimWork

\* The bottom half handles a frame, or will take one.
Moving == bhPc \in {"pick", "normal"} \cup Sending \cup Finishing

\* Under tx_lock, the bottom half takes no frame up.
LEMMA NotMoving ==
  ASSUME TypeOK, txLock # 0, [Next]_vars, UNCHANGED <<chipTx, output, txUsed>>, Moving'
  PROVE  Moving
<1>. USE DEF Moving, Sending, Finishing, timVars, bhVars, chipVars, procVars, queueVars
<1>1. ASSUME UNCHANGED bhPc PROVE Moving
  BY <1>1
<1>2. ASSUME NEW f \in Frames, Put(f) \/ ScheduleTim(f) \/ ChipConfirms(f)
      PROVE  Moving
  BY <1>1, <1>2 DEF Put, ScheduleTim, ChipConfirms
<1>3. CASE BhStart \/ BhTest \/ BhTakeNone \/ BhWriteFails \/ BhReport \/ BhReadNone
  BY <1>3 DEF BhStart, BhTest, BhTakeNone, BhWriteFails, BhReport, BhReadNone
<1>4. CASE \/ BhTakeCab \/ BhCabDone \/ BhTakeNormal \/ BhAppend \/ BhWrite
           \/ BhFind \/ BhCount \/ BhUnlink
  BY <1>4 DEF BhTakeCab, BhCabDone, BhTakeNormal, BhAppend, BhWrite, BhFind, BhCount,
              BhUnlink
<1>5. CASE BhReadCnf
  <2>1. txUsed' = txUsed - 1 /\ txUsed' = txUsed
    BY <1>5 DEF BhReadCnf
  <2>2. txUsed \in Int
    BY DEF TypeOK
  <2>. QED  BY <2>1, <2>2
<1>6. CASE BhResumeMc
  BY <1>1, <1>6 DEF BhResumeMc
<1>7. CASE StopBeacon \/ ChipDtim \/ ChipHangs \/ Freeze \/ TimRead \/ TimSend
  BY <1>1, <1>7 DEF StopBeacon, ChipDtim, ChipHangs, Freeze, TimRead, TimSend
<1>8. ASSUME NEW p \in Procs, Call(p) \/ Advance(p) PROVE Moving
  <2>1. UNCHANGED bhPc
    BY <1>8
       DEF Call, Advance, FlushStart, Lock, FlushDrop, FlushWait, FlushWaited, Check,
           ChipEmpty, ChipStuck, FlushUnlock, LockEnd, Decide, PendingTake,
           PendingCount, PendingDone, FlushReport, FlushEnd, OthersUnchanged
  <2>. QED  BY <1>1, <2>1
<1>9. CASE UNCHANGED vars
  BY <1>1, <1>9 DEF vars
<1>. QED
  BY <1>2, <1>3, <1>4, <1>5, <1>6, <1>7, <1>8, <1>9 DEF Next, BottomHalf, TimWork

LEMMA InFlightNext ==
  ASSUME Inv, WrittenOnce, txLock # 0, [Next]_vars
  PROVE  InFlight' <= InFlight
<1>. USE DEF Sending, Finishing, timVars, bhVars, chipVars, procVars, queueVars
<1>1. /\ Cardinality(chipTx) \in Nat /\ Cardinality(Confirmed) \in Nat /\ TypeOK
  BY ChipFinite, ConfirmedFinite DEF Inv
<1>2. /\ InFlight = Cardinality(chipTx) + Cardinality(Confirmed) + Count(Moving)
      /\ InFlight' = Cardinality(chipTx') + Cardinality(Confirmed') + Count(Moving')
      /\ Count(Moving) = IF Moving THEN 1 ELSE 0
      /\ Count(Moving') = IF Moving' THEN 1 ELSE 0
  BY DEF InFlight, Moving, Count
<1>3. CASE UNCHANGED <<chipTx, output, txUsed>>
  <2>1. Moving' => Moving
    BY <1>1, <1>3, NotMoving
  <2>2. Confirmed' = Confirmed
    BY <1>3 DEF Confirmed
  <2>. QED  BY <1>1, <1>2, <1>3, <2>1, <2>2
<1>4. CASE BhWrite
  <2>1. Moving /\ ~Moving'
    BY <1>4 DEF BhWrite, Moving
  <2>. QED  BY <1>1, <1>2, <1>4, <2>1, ChipNumbers
<1>5. CASE BhReadCnf
  <2>1. ~Moving
    BY <1>5 DEF BhReadCnf, Moving
  <2>. QED  BY <1>1, <1>2, <1>5, <2>1, ChipNumbers
<1>6. CASE BhResumeMc \/ ChipDtim
  <2>1. Moving' <=> Moving
    BY <1>6 DEF BhResumeMc, ChipDtim, Moving
  <2>. QED  BY <1>1, <1>2, <1>6, <2>1, ChipNumbers
<1>7. ASSUME NEW f \in Frames, ChipConfirms(f) PROVE InFlight' <= InFlight
  <2>1. Moving' <=> Moving
    BY <1>7 DEF ChipConfirms, Moving
  <2>. QED  BY <1>1, <1>2, <1>7, <2>1, ChipNumbers
<1>. QED  BY <1>3, <1>4, <1>5, <1>6, <1>7, ChipSteps

\* A frozen chip stays frozen.
LEMMA StaysFrozen ==
  ASSUME frozen, [Next]_vars
  PROVE  frozen'
<1>. USE DEF timVars, bhVars, chipVars, procVars, queueVars
<1>1. ASSUME NEW f \in Frames, Put(f) \/ ScheduleTim(f) \/ ChipConfirms(f)
      PROVE  frozen'
  BY <1>1 DEF Put, ScheduleTim, ChipConfirms
<1>2. CASE BottomHalf
  BY <1>2
     DEF BottomHalf, BhStart, BhTest, BhTakeCab, BhCabDone, BhTakeNormal, BhTakeNone,
         BhAppend, BhWrite, BhWriteFails, BhReadCnf, BhFind, BhCount, BhUnlink,
         BhReport, BhResumeMc, BhReadNone
<1>3. CASE StopBeacon \/ ChipDtim \/ ChipHangs \/ Freeze \/ TimRead \/ TimSend
  BY <1>3 DEF StopBeacon, ChipDtim, ChipHangs, Freeze, TimRead, TimSend
<1>4. ASSUME NEW p \in Procs, Call(p) \/ Advance(p) PROVE frozen'
  BY <1>4
     DEF Call, Advance, FlushStart, Lock, FlushDrop, FlushWait, FlushWaited, Check,
         ChipEmpty, ChipStuck, FlushUnlock, LockEnd, Decide, PendingTake,
         PendingCount, PendingDone, FlushReport, FlushEnd, OthersUnchanged
<1>5. CASE UNCHANGED vars
  BY <1>5 DEF vars
<1>. QED  BY <1>1, <1>2, <1>3, <1>4, <1>5 DEF Next, TimWork

\* How a thread comes to hold tx_lock over an empty chip.
LEMMA BecomesQuiet ==
  ASSUME TypeOK, [Next]_vars, NEW p \in Lockers, pc'[p] \in {"unlock", "quiet"}
  PROVE  pc[p] \in {"unlock", "quiet"} \/ ChipEmpty(p) \/ frozen'
<1>. USE DEF timVars, bhVars, chipVars, procVars, queueVars, At, Goto
<1>0. pc \in [Procs -> ToProc] /\ p \in Procs
  BY DEF TypeOK, Procs
<1>1. ASSUME UNCHANGED pc PROVE pc[p] \in {"unlock", "quiet"}
  BY <1>1
<1>2. ASSUME NEW f \in Frames, Put(f) \/ ScheduleTim(f) \/ ChipConfirms(f)
      PROVE  pc[p] \in {"unlock", "quiet"}
  BY <1>1, <1>2 DEF Put, ScheduleTim, ChipConfirms
<1>3. CASE BottomHalf
  BY <1>1, <1>3
     DEF BottomHalf, BhStart, BhTest, BhTakeCab, BhCabDone, BhTakeNormal, BhTakeNone,
         BhAppend, BhWrite, BhWriteFails, BhReadCnf, BhFind, BhCount, BhUnlink,
         BhReport, BhResumeMc, BhReadNone
<1>4. CASE StopBeacon \/ ChipDtim \/ ChipHangs \/ Freeze \/ TimRead \/ TimSend
  BY <1>1, <1>4 DEF StopBeacon, ChipDtim, ChipHangs, Freeze, TimRead, TimSend
<1>5. ASSUME NEW r \in Procs, NEW l, pc' = [pc EXCEPT ![r] = l],
             l \notin {"unlock", "quiet"}
      PROVE  pc[p] \in {"unlock", "quiet"}
  BY <1>0, <1>5
<1>6. ASSUME NEW r \in Procs,
             \/ FlushStart(r) \/ Lock(r)
             \/ \E q \in Queues : FlushDrop(r, q) \/ FlushWait(r, q)
             \/ FlushWaited(r) \/ LockEnd(r) \/ Decide(r)
             \/ PendingTake(r) \/ PendingCount(r) \/ PendingDone(r)
             \/ FlushReport(r) \/ FlushEnd(r)
      PROVE  pc[p] \in {"unlock", "quiet"}
  <2>1. UNCHANGED pc \/ \E l \in ToProc \ {"unlock", "quiet"} :
                            pc' = [pc EXCEPT ![r] = l]
    BY <1>6 DEF ToProc, FlushStart, Lock, FlushDrop, FlushWait, FlushWaited, LockEnd,
                Decide, PendingTake, PendingCount, PendingDone, FlushReport, FlushEnd
  <2>. QED  BY <1>1, <1>5, <2>1
<1>7. ASSUME NEW r \in Procs, Check(r)
      PROVE  pc[p] \in {"unlock", "quiet"} \/ frozen'
  BY <1>5, <1>7 DEF Check
<1>8. ASSUME NEW r \in Procs, ChipStuck(r) PROVE frozen'
  BY <1>8 DEF ChipStuck
<1>9. ASSUME NEW r \in Procs, ChipEmpty(r)
      PROVE  pc[p] \in {"unlock", "quiet"} \/ ChipEmpty(p)
  BY <1>0, <1>9 DEF ChipEmpty
<1>10. ASSUME NEW r \in Procs, FlushUnlock(r)
       PROVE  pc[p] \in {"unlock", "quiet"}
  BY <1>0, <1>10 DEF FlushUnlock
<1>11. CASE UNCHANGED vars
  BY <1>1, <1>11 DEF vars
<1>. QED
  BY <1>2, <1>3, <1>4, <1>6, <1>7, <1>8, <1>9, <1>10, <1>11
     DEF Next, Call, Advance, TimWork

LEMMA SilenceNext ==
  ASSUME QuietInv, [Next]_vars
  PROVE  Silence'
<1>. SUFFICES ASSUME NEW p \in Lockers, pc'[p] \in {"unlock", "quiet"}, ~frozen'
              PROVE  InFlight' <= 1
  BY DEF Silence
<1>1. ~frozen
  BY StaysFrozen
<1>2. /\ Cardinality(chipTx) \in Nat /\ Cardinality(Confirmed) \in Nat /\ TypeOK
      /\ Inv /\ WrittenOnce
  BY ChipFinite, ConfirmedFinite DEF QuietInv, Inv
<1>3. CASE pc[p] \in {"unlock", "quiet"}
  <2>1. p \in LockedOut
    BY <1>3 DEF LockedOut
  <2>2. Cardinality(LockedOut) # 0
    BY <2>1, HoldersFinite, FS_EmptySet
  <2>3. txLock # 0
    BY <2>2, HoldersFinite DEF QuietInv, LockExact
  <2>4. InFlight' <= InFlight
    BY <1>2, <2>3, InFlightNext
  <2>5. InFlight <= 1
    BY <1>1, <1>3 DEF QuietInv, Silence
  <2>6. InFlight \in Int
    BY <1>2 DEF InFlight, Count
  <2>7. InFlight' \in Int
    <3>1. Cardinality(chipTx') \in Int /\ Cardinality(Confirmed') \in Int
      <4>1. CASE UNCHANGED <<chipTx, output, txUsed>>
        BY <1>2, <4>1 DEF Confirmed
      <4>2. CASE ~UNCHANGED <<chipTx, output, txUsed>>
        BY <1>2, <4>2, ChipSteps, ChipNumbers
      <4>. QED  BY <4>1, <4>2
    <3>. QED  BY <3>1 DEF InFlight, Count
  <2>. QED  BY <2>4, <2>5, <2>6, <2>7
<1>4. CASE ChipEmpty(p)
  <2>1. txUsed = 0 /\ UNCHANGED <<chipTx, output, bhPc>>
    BY <1>4 DEF ChipEmpty, OthersUnchanged, chipVars, bhVars
  <2>2. Cardinality(chipTx) = 0 /\ Cardinality(Confirmed) = 0
    BY <1>2, <2>1 DEF QuietInv, BuffersExact
  <2>3. InFlight' = InFlight /\ InFlight <= 1
    BY <2>1, <2>2 DEF InFlight, Confirmed, Count
  <2>. QED  BY <2>3
<1>. QED  BY <1>2, <1>3, <1>4, BecomesQuiet

LEMMA QuietNext ==
  ASSUME ~LateAnswers, QuietInv, [Next]_vars
  PROVE  QuietInv'
<1>1. Inv'
  BY KeepsTypes, KeepsPlaces, KeepsOwners, KeepsPending DEF QuietInv, Inv
<1>. QED
  BY <1>1, WrittenOnceNext, BuffersNext, LockNext, SilenceNext DEF QuietInv

LEMMA QuietInit == Init => QuietInv
<1>. SUFFICES ASSUME Init PROVE QuietInv
  OBVIOUS
<1>1. Inv
  BY InitInv
<1>2. WrittenOnce /\ Silence
  BY DEF Init, WrittenOnce, Silence, Sending, Procs
<1>3. BuffersExact
  <2>1. chipTx = {} /\ Confirmed = {} /\ txUsed = 0
    BY DEF Init, Confirmed
  <2>. QED  BY <2>1, FS_EmptySet DEF BuffersExact
<1>4. LockExact
  <2>1. LockedOut = {} /\ Emptying = {} /\ txLock = 0
    BY DEF Init, LockedOut, Emptying, Procs
  <2>2. \A p \in Procs : pc[p] = "idle"
    BY DEF Init
  <2>. QED  BY <2>1, <2>2, FS_EmptySet DEF LockExact, Procs
<1>. QED  BY <1>1, <1>2, <1>3, <1>4 DEF QuietInv

\* With tx_lock held and the chip flushed, at most one data frame is under way
\* to or from the chip, however many threads lock and flush at the same time:
\* scan, join and reset find the silence they asked for.
THEOREM LockIsQuiet ==
  ASSUME ~LateAnswers
  PROVE  Spec => []QuietWhenLocked
<1>1. QuietInv /\ [Next]_vars => QuietInv'
  BY QuietNext
<1>2. QuietInv => QuietWhenLocked
  BY DEF QuietInv, Silence, QuietWhenLocked, At
<1>. QED  BY <1>1, <1>2, QuietInit, PTL DEF Spec

-----------------------------------------------------------------------------
(* A flush is complete *)

\* A frame that is pending is lost, or at the chip, or confirmed, or in the
\* hands of the bottom half.
PendingPlaced ==
    \A f \in txPending :
        \/ f \in lost \/ f \in chipTx
        \/ \E i \in DOMAIN output : output[i].frame = f
        \/ bhFrame = f /\ bhPc \in {"write", "find", "count", "unlink"}

\* The queues whose old frames the flush has still to see leave.
ToLeave(p) ==
    IF pc[p] = (IF drop[p] THEN "drop" ELSE "wait") THEN todo[p] ELSE {}

\* The frames that the flush was called for leave the lists, unless a wait
\* timed out or was skipped.
Leaving ==
    \A p \in Flushers : pc[p] # "idle" =>
        /\ \A f \in before[p] : stage[f] # "new"
        /\ pc[p] = "drop" => drop[p]
        /\ drop[p] \/ ~late[p] =>
              \A f \in before[p] : QueueOf[f] \in ToLeave(p) \/ Away(f)

\* Those of them that are neither back in mac80211, nor lost, nor about to be
\* given back by the flush.
Rest(p) == ({f \in before[p] : reports[f] = 0} \ lost) \ dropped[p]

\* The flush has seen the chip empty, or has dropped its frames.
Waited(p) ==
    \/ pc[p] \in {"unlock", "decide"} /\ ~frozen /\ (drop[p] \/ ~late[p])
    \/ pc[p] = "report" /\ (drop[p] \/ ~late[p])

\* From then on, one frame of those is left at most.
Settled == \A p \in Flushers : Waited(p) => Cardinality(Rest(p)) <= 1

FlushInv ==
    /\ QuietInv
    /\ \A p \in Lockers : dropped[p] = {}
    /\ PendingPlaced /\ Leaving /\ Settled

\* Whatever a step does, a flush goes on as it was, or does one of these.
LEMMA FlushSteps ==
  ASSUME TypeOK, [Next]_vars, NEW p \in Flushers
  PROVE  \/ /\ pc'[p] = pc[p] /\ todo'[p] = todo[p] /\ drop'[p] = drop[p]
            /\ late'[p] = late[p] /\ before'[p] = before[p]
         \/ FlushStart(p) \/ \E q \in Queues : FlushDrop(p, q) \/ FlushWait(p, q)
         \/ FlushWaited(p) \/ Check(p) \/ ChipEmpty(p) \/ ChipStuck(p)
         \/ FlushUnlock(p) \/ Decide(p) \/ LockEnd(p)
         \/ PendingTake(p) \/ PendingCount(p) \/ PendingDone(p) \/ FlushEnd(p)
<1>. USE DEF timVars, bhVars, chipVars, procVars, queueVars
<1>. DEFINE Same == /\ pc'[p] = pc[p] /\ todo'[p] = todo[p] /\ drop'[p] = drop[p]
                    /\ late'[p] = late[p] /\ before'[p] = before[p]
<1>1. CASE UNCHANGED <<pc, todo, drop, late, before>>
  BY <1>1
<1>2. ASSUME NEW f \in Frames, Put(f) \/ ScheduleTim(f) \/ ChipConfirms(f)
      PROVE  Same
  BY <1>2 DEF Put, ScheduleTim, ChipConfirms
<1>3. CASE BottomHalf
  <2>1. UNCHANGED <<pc, todo, drop, late, before>>
    BY <1>3
       DEF BottomHalf, BhStart, BhTest, BhTakeCab, BhCabDone, BhTakeNormal, BhTakeNone,
           BhAppend, BhWrite, BhWriteFails, BhReadCnf, BhFind, BhCount, BhUnlink,
           BhReport, BhResumeMc, BhReadNone
  <2>. QED  BY <2>1
<1>4. CASE StopBeacon \/ ChipDtim \/ ChipHangs \/ Freeze \/ TimRead \/ TimSend
  BY <1>4 DEF StopBeacon, ChipDtim, ChipHangs, Freeze, TimRead, TimSend
<1>5. ASSUME NEW r \in Procs, r # p, Call(r) \/ Advance(r) PROVE Same
  <2>1. /\ pc \in [Procs -> ToProc] /\ drop \in [Procs -> BOOLEAN]
        /\ late \in [Procs -> BOOLEAN] /\ todo \in [Procs -> SUBSET Queues]
        /\ before \in [Procs -> SUBSET Frames] /\ p \in Procs
    BY DEF TypeOK, Procs
  <2>2. CASE FlushStart(r) \/ Lock(r)
    BY <1>5, <2>1, <2>2 DEF FlushStart, Lock, Goto
  <2>3. ASSUME NEW q \in Queues, FlushDrop(r, q) \/ FlushWait(r, q) PROVE Same
    BY <1>5, <2>1, <2>3 DEF FlushDrop, FlushWait, Goto, OthersUnchanged
  <2>4. CASE FlushWaited(r) \/ Check(r) \/ ChipEmpty(r) \/ ChipStuck(r)
    BY <1>5, <2>1, <2>4
       DEF FlushWaited, Check, ChipEmpty, ChipStuck, Goto, OthersUnchanged
  <2>5. CASE FlushUnlock(r) \/ LockEnd(r) \/ Decide(r)
    BY <1>5, <2>1, <2>5 DEF FlushUnlock, LockEnd, Decide, Goto, OthersUnchanged
  <2>6. CASE PendingTake(r) \/ PendingCount(r) \/ PendingDone(r)
    BY <1>5, <2>1, <2>6
       DEF PendingTake, PendingCount, PendingDone, Goto, OthersUnchanged
  <2>7. CASE FlushReport(r) \/ FlushEnd(r)
    BY <1>5, <2>1, <2>7 DEF FlushReport, FlushEnd, Goto
  <2>. QED  BY <1>5, <2>2, <2>3, <2>4, <2>5, <2>6, <2>7 DEF Call, Advance
<1>6. CASE FlushReport(p)
  BY <1>6 DEF FlushReport
<1>7. CASE Lock(p)
  BY <1>7, QueuesAssumption DEF Lock
<1>8. CASE UNCHANGED vars
  BY <1>8 DEF vars
<1>. QED
  BY <1>2, <1>3, <1>4, <1>5, <1>6, <1>7, <1>8 DEF Next, Call, Advance, TimWork

\* Nobody but a flush drops frames.
LEMMA LockersDropNothing ==
  ASSUME TypeOK, LockExact, \A p \in Lockers : dropped[p] = {}, [Next]_vars
  PROVE  \A p \in Lockers : dropped'[p] = {}
<1>. USE DEF timVars, bhVars, chipVars, procVars, queueVars
<1>0. dropped \in [Procs -> SUBSET Frames] /\ Lockers \subseteq Procs
  BY DEF TypeOK, Procs
<1>1. CASE UNCHANGED dropped
  BY <1>1
<1>2. ASSUME NEW f \in Frames, Put(f) \/ ScheduleTim(f) \/ ChipConfirms(f)
      PROVE  UNCHANGED dropped
  BY <1>2 DEF Put, ScheduleTim, ChipConfirms
<1>3. CASE BhUnlink
  BY <1>0, <1>3 DEF BhUnlink
<1>4. CASE \/ BhStart \/ BhTest \/ BhTakeCab \/ BhCabDone \/ BhTakeNormal \/ BhTakeNone
           \/ BhAppend \/ BhWrite \/ BhWriteFails \/ BhReadCnf \/ BhFind \/ BhCount
           \/ BhReport \/ BhResumeMc \/ BhReadNone
  <2>1. UNCHANGED dropped
    BY <1>4
       DEF BhStart, BhTest, BhTakeCab, BhCabDone, BhTakeNormal, BhTakeNone, BhAppend,
           BhWrite, BhWriteFails, BhReadCnf, BhFind, BhCount, BhReport, BhResumeMc,
           BhReadNone
  <2>. QED  BY <1>1, <2>1
<1>5. CASE StopBeacon \/ ChipDtim \/ ChipHangs \/ Freeze \/ TimRead \/ TimSend
  BY <1>5 DEF StopBeacon, ChipDtim, ChipHangs, Freeze, TimRead, TimSend
<1>6. ASSUME NEW r \in Procs,
             \/ Call(r) \/ \E q \in Queues : FlushWait(r, q)
             \/ FlushWaited(r) \/ Check(r) \/ ChipEmpty(r) \/ ChipStuck(r)
             \/ FlushUnlock(r) \/ LockEnd(r) \/ Decide(r) \/ PendingTake(r)
             \/ PendingDone(r) \/ FlushEnd(r)
      PROVE  UNCHANGED dropped
  BY <1>6
     DEF Call, FlushStart, Lock, FlushWait, FlushWaited, Check, ChipEmpty, ChipStuck,
         FlushUnlock, LockEnd, Decide, PendingTake, PendingDone, FlushEnd,
         OthersUnchanged
<1>7. ASSUME NEW r \in Procs, FlushReport(r) PROVE \A p \in Lockers : dropped'[p] = {}
  BY <1>0, <1>7 DEF FlushReport
<1>8. ASSUME NEW r \in Procs, PendingCount(r) \/ \E q \in Queues : FlushDrop(r, q)
      PROVE  \A p \in Lockers : dropped'[p] = {}
  <2>1. pc[r] \in {"count", "drop"}
    BY <1>8 DEF PendingCount, FlushDrop, At
  <2>2. r \notin Lockers
    BY <2>1 DEF LockExact
  <2>. QED  BY <1>0, <1>8, <2>2 DEF PendingCount, FlushDrop
<1>9. CASE UNCHANGED vars
  BY <1>9 DEF vars
<1>. QED
  BY <1>1, <1>2, <1>3, <1>4, <1>5, <1>6, <1>7, <1>8, <1>9
     DEF Next, Advance, BottomHalf, TimWork

\* What is pending has a place.
LEMMA PlacedNext ==
  ASSUME TypeOK, Places, PendingPlaced, [Next]_vars
  PROVE  PendingPlaced'
<1>. USE DEF timVars, bhVars, chipVars, procVars, queueVars
<1>0. output \in Seq(Confirmations \cup {ResumeMc}) /\ txPending \subseteq Frames
  BY DEF TypeOK
<1>1. ASSUME UNCHANGED <<lost, chipTx, output, bhFrame>>, txPending' \subseteq txPending,
             UNCHANGED bhPc \/ bhPc \notin {"write", "find", "count", "unlink"}
      PROVE  PendingPlaced'
  BY <1>1 DEF PendingPlaced
<1>2. ASSUME NEW g \in Frames, Put(g) \/ ScheduleTim(g) PROVE PendingPlaced'
  BY <1>1, <1>2 DEF Put, ScheduleTim
<1>3. ASSUME NEW e, output' = Append(output, e)
      PROVE  /\ \A i \in DOMAIN output : i \in DOMAIN output' /\ output'[i] = output[i]
             /\ Len(output') \in DOMAIN output' /\ output'[Len(output')] = e
  BY <1>0, <1>3
<1>4. ASSUME NEW g \in Frames, ChipConfirms(g) PROVE PendingPlaced'
  <2>1. PICK c \in Confirmations : c.frame = g /\ output' = Append(output, c)
    BY <1>4 DEF ChipConfirms
  <2>2. /\ \A i \in DOMAIN output : i \in DOMAIN output' /\ output'[i] = output[i]
        /\ Len(output') \in DOMAIN output' /\ output'[Len(output')] = c
    BY <1>3, <2>1
  <2>3. /\ UNCHANGED <<lost, bhFrame, bhPc, txPending>>
        /\ \A f \in chipTx : f \in chipTx' \/ f = g
    BY <1>4 DEF ChipConfirms
  <2>. QED  BY <2>1, <2>2, <2>3 DEF PendingPlaced
<1>5. CASE ChipDtim
  <2>1. output' = Append(output, ResumeMc)
        /\ UNCHANGED <<lost, bhFrame, bhPc, txPending, chipTx>>
    BY <1>5 DEF ChipDtim
  <2>2. \A i \in DOMAIN output : i \in DOMAIN output' /\ output'[i] = output[i]
    BY <1>3, <2>1
  <2>. QED  BY <2>1, <2>2 DEF PendingPlaced
<1>6. CASE StopBeacon \/ ChipHangs \/ Freeze \/ TimRead \/ TimSend
  BY <1>1, <1>6 DEF StopBeacon, ChipHangs, Freeze, TimRead, TimSend
<1>7. ASSUME NEW p \in Procs, Call(p) \/ Advance(p) PROVE PendingPlaced'
  <2>1. UNCHANGED <<lost, chipTx, output, bhFrame, bhPc>> /\ txPending' \subseteq txPending
    BY <1>7
       DEF Call, Advance, FlushStart, Lock, FlushDrop, FlushWait, FlushWaited, Check,
           ChipEmpty, ChipStuck, FlushUnlock, LockEnd, Decide, PendingTake,
           PendingCount, PendingDone, FlushReport, FlushEnd, OthersUnchanged
  <2>. QED  BY <1>1, <2>1
<1>8. CASE BhStart \/ BhTest \/ BhCabDone \/ BhTakeNone \/ BhReadNone
  BY <1>1, <1>8 DEF BhStart, BhTest, BhCabDone, BhTakeNone, BhReadNone
<1>9. CASE BhTakeCab \/ BhTakeNormal \/ BhReport
  <2>1. UNCHANGED <<lost, chipTx, output, txPending>>
        /\ bhPc \notin {"write", "find", "count", "unlink"}
    BY <1>9 DEF BhTakeCab, BhTakeNormal, Take, BhReport
  <2>. QED  BY <2>1 DEF PendingPlaced
<1>10. CASE BhAppend
  <2>1. /\ UNCHANGED <<lost, chipTx, output, bhFrame>> /\ bhPc' = "write"
        /\ txPending' = txPending \cup {bhFrame} /\ bhPc = "append"
    BY <1>10 DEF BhAppend
  <2>. QED  BY <2>1 DEF PendingPlaced
<1>11. CASE BhWrite
  <2>1. /\ UNCHANGED <<lost, output, txPending>> /\ bhPc = "write"
        /\ chipTx' = chipTx \cup {bhFrame}
    BY <1>11 DEF BhWrite
  <2>. QED  BY <2>1 DEF PendingPlaced
<1>12. CASE BhWriteFails
  <2>1. /\ UNCHANGED <<chipTx, output, txPending>> /\ bhPc = "write"
        /\ lost' = lost \cup {bhFrame}
    BY <1>12 DEF BhWriteFails
  <2>. QED  BY <2>1 DEF PendingPlaced
<1>13. ASSUME output # <<>>, output' = Tail(output), NEW i \in DOMAIN output
       PROVE  i = 1 \/ (i - 1 \in DOMAIN output' /\ output'[i - 1] = output[i])
  BY <1>0, <1>13
<1>14. output # <<>> => Head(output) = output[1]
  BY <1>0
<1>15. CASE BhReadCnf
  <2>1. /\ UNCHANGED <<chipTx, lost, txPending>> /\ bhPc = "rx" /\ bhPc' = "find"
        /\ output # <<>> /\ output' = Tail(output) /\ bhFrame' = Head(output).frame
    BY <1>15 DEF BhReadCnf
  <2>2. ASSUME NEW f \in txPending', f \notin lost', f \notin chipTx'
        PROVE  \/ \E i \in DOMAIN output' : output'[i].frame = f
               \/ bhFrame' = f /\ bhPc' \in {"write", "find", "count", "unlink"}
    <3>1. PICK i \in DOMAIN output : output[i].frame = f
      BY <2>1, <2>2 DEF PendingPlaced
    <3>2. CASE i = 1
      BY <1>14, <2>1, <3>1, <3>2
    <3>3. CASE i # 1
      <4>1. i - 1 \in DOMAIN output' /\ output'[i - 1] = output[i]
        BY <1>13, <2>1, <3>3
      <4>. QED  BY <3>1, <4>1
    <3>. QED  BY <3>2, <3>3
  <2>. QED  BY <2>2 DEF PendingPlaced
<1>16. CASE BhResumeMc
  <2>1. /\ UNCHANGED <<chipTx, lost, txPending, bhPc, bhFrame>> /\ bhPc = "rx"
        /\ output # <<>> /\ output' = Tail(output) /\ output[1] = ResumeMc
    BY <1>14, <1>16 DEF BhResumeMc
  <2>2. ASSUME NEW f \in txPending', f \notin lost', f \notin chipTx'
        PROVE  \E i \in DOMAIN output' : output'[i].frame = f
    <3>1. PICK i \in DOMAIN output : output[i].frame = f
      BY <2>1, <2>2 DEF PendingPlaced
    <3>2. ResumeMc.frame = None /\ f # None
      BY <1>0, <2>1, <2>2, QueuesAssumption DEF ResumeMc
    <3>3. i # 1
      BY <2>1, <3>1, <3>2
    <3>4. i - 1 \in DOMAIN output' /\ output'[i - 1] = output[i]
      BY <1>13, <2>1, <3>3
    <3>. QED  BY <3>1, <3>4
  <2>. QED  BY <2>2 DEF PendingPlaced
<1>17. CASE BhFind
  <2>1. /\ UNCHANGED <<chipTx, lost, txPending, output>>
        /\ IF bhFrame \in txPending THEN bhPc' = "count" /\ UNCHANGED bhFrame
                                    ELSE TRUE
    BY <1>17 DEF BhFind
  <2>. QED  BY <2>1 DEF PendingPlaced
<1>18. CASE BhCount
  <2>1. UNCHANGED <<chipTx, lost, txPending, output, bhFrame>> /\ bhPc' = "unlink"
    BY <1>18 DEF BhCount
  <2>. QED  BY <2>1 DEF PendingPlaced
<1>19. CASE BhUnlink
  <2>1. UNCHANGED <<chipTx, lost, output>> /\ txPending' = txPending \ {bhFrame}
    BY <1>19 DEF BhUnlink
  <2>. QED  BY <2>1 DEF PendingPlaced
<1>20. CASE UNCHANGED vars
  BY <1>1, <1>20 DEF vars
<1>. QED
  BY <1>2, <1>4, <1>5, <1>6, <1>7, <1>8, <1>9, <1>10, <1>11, <1>12, <1>15, <1>16,
     <1>17, <1>18, <1>19, <1>20
     DEF Next, BottomHalf, TimWork

\* A frame that was submitted stays so.
LEMMA StaysSubmitted ==
  ASSUME TypeOK, [Next]_vars, NEW f \in Frames, stage[f] # "new"
  PROVE  stage'[f] # "new"
<1>. USE DEF timVars, bhVars, chipVars, procVars, queueVars
<1>1. ASSUME NEW g \in Frames, Put(g) \/ ScheduleTim(g) \/ ChipConfirms(g)
      PROVE  stage'[f] # "new"
  <2>1. stage \in [Frames -> {"new", "schedule", "given"}]
    BY DEF TypeOK
  <2>. QED  BY <1>1, <2>1 DEF Put, ScheduleTim, ChipConfirms
<1>2. CASE BottomHalf
  BY <1>2
     DEF BottomHalf, BhStart, BhTest, BhTakeCab, BhCabDone, BhTakeNormal, BhTakeNone,
         BhAppend, BhWrite, BhWriteFails, BhReadCnf, BhFind, BhCount, BhUnlink,
         BhReport, BhResumeMc, BhReadNone
<1>3. CASE StopBeacon \/ ChipDtim \/ ChipHangs \/ Freeze \/ TimRead \/ TimSend
  BY <1>3 DEF StopBeacon, ChipDtim, ChipHangs, Freeze, TimRead, TimSend
<1>4. ASSUME NEW p \in Procs, Call(p) \/ Advance(p) PROVE stage'[f] # "new"
  <2>1. UNCHANGED stage
    BY <1>4
       DEF Call, Advance, FlushStart, Lock, FlushDrop, FlushWait, FlushWaited, Check,
           ChipEmpty, ChipStuck, FlushUnlock, LockEnd, Decide, PendingTake,
           PendingCount, PendingDone, FlushReport, FlushEnd, OthersUnchanged
  <2>. QED  BY <2>1
<1>5. CASE UNCHANGED vars
  BY <1>5 DEF vars
<1>. QED  BY <1>1, <1>2, <1>3, <1>4, <1>5 DEF Next, TimWork

LEMMA LeavingNext ==
  ASSUME TypeOK, Places, LockExact, Leaving, [Next]_vars
  PROVE  Leaving'
<1>. SUFFICES ASSUME NEW p \in Flushers, pc'[p] # "idle"
              PROVE  /\ \A f \in before'[p] : stage'[f] # "new"
                     /\ pc'[p] = "drop" => drop'[p]
                     /\ drop'[p] \/ ~late'[p] =>
                           \A f \in before'[p] : QueueOf[f] \in ToLeave(p)' \/ Away(f)'
  BY DEF Leaving
<1>. USE DEF At
<1>0. /\ pc \in [Procs -> ToProc] /\ drop \in [Procs -> BOOLEAN]
      /\ late \in [Procs -> BOOLEAN] /\ todo \in [Procs -> SUBSET Queues]
      /\ before \in [Procs -> SUBSET Frames] /\ p \in Procs
  BY DEF TypeOK, Procs
<1>1. CASE FlushStart(p)
  <2>1. /\ todo'[p] = Queues /\ before'[p] \subseteq Frames
        /\ \A f \in before'[p] : stage[f] # "new" /\ stage' = stage
        /\ drop'[p] \in BOOLEAN /\ pc'[p] = IF drop'[p] THEN "drop" ELSE "wait"
    BY <1>0, <1>1 DEF FlushStart, Goto
  <2>2. ToLeave(p)' = Queues
    BY <2>1 DEF ToLeave
  <2>. QED  BY <2>1, <2>2, QueuesAssumption
<1>2. ASSUME pc[p] # "idle", before'[p] = before[p], drop'[p] = drop[p],
             pc'[p] = "drop" => pc[p] = "drop",
             late[p] => late'[p],
             drop[p] \/ ~late'[p] =>
                 \A f \in before[p] :
                     QueueOf[f] \in ToLeave(p) \ ToLeave(p)' => Away(f) \/ Away(f)'
      PROVE  /\ \A f \in before'[p] : stage'[f] # "new"
             /\ pc'[p] = "drop" => drop'[p]
             /\ drop'[p] \/ ~late'[p] =>
                   \A f \in before'[p] : QueueOf[f] \in ToLeave(p)' \/ Away(f)'
  <2>1. \A f \in before[p] : f \in Frames /\ stage[f] # "new"
    BY <1>0, <1>2 DEF Leaving
  <2>2. \A f \in before[p] : stage'[f] # "new"
    BY <2>1, StaysSubmitted
  <2>3. ASSUME drop'[p] \/ ~late'[p], NEW f \in before[p]
        PROVE  QueueOf[f] \in ToLeave(p)' \/ Away(f)'
    <3>1. drop[p] \/ ~late[p]
      BY <1>2, <2>3
    <3>2. QueueOf[f] \in ToLeave(p) \/ Away(f)
      BY <1>2, <3>1 DEF Leaving
    <3>3. Away(f) => Away(f)'
      BY <2>1, AwayNext
    <3>4. QueueOf[f] \in ToLeave(p) \ ToLeave(p)' => Away(f) \/ Away(f)'
      BY <1>2, <2>3
    <3>. QED  BY <3>2, <3>3, <3>4
  <2>. QED  BY <1>2, <2>2, <2>3 DEF Leaving
<1>3. CASE /\ pc'[p] = pc[p] /\ todo'[p] = todo[p] /\ drop'[p] = drop[p]
           /\ late'[p] = late[p] /\ before'[p] = before[p]
  <2>1. ToLeave(p)' = ToLeave(p)
    BY <1>3 DEF ToLeave
  <2>. QED  BY <1>2, <1>3, <2>1
<1>4. ASSUME NEW q \in Queues, FlushDrop(p, q)
      PROVE  /\ \A f \in before'[p] : stage'[f] # "new"
             /\ pc'[p] = "drop" => drop'[p]
             /\ drop'[p] \/ ~late'[p] =>
                   \A f \in before'[p] : QueueOf[f] \in ToLeave(p)' \/ Away(f)'
  <2>1. /\ pc[p] = "drop" /\ UNCHANGED <<before, drop, late, stage>>
        /\ \/ todo[p] = {q}
           \/ todo'[p] = todo[p] \ {q} /\ pc'[p] = "drop"
    BY <1>0, <1>4 DEF FlushDrop, OthersUnchanged
  <2>2. ToLeave(p) \ ToLeave(p)' \subseteq {q}
    BY <2>1, <1>2 DEF ToLeave, Leaving
  <2>3. \A f \in before[p] : f \in Frames /\ stage[f] # "new"
    BY <1>0, <2>1 DEF Leaving
  <2>4. ASSUME NEW f \in before[p], QueueOf[f] = q PROVE Away(f)'
    <3>1. \A r \in Queues : /\ normal'[r] = IF r = q THEN <<>> ELSE normal[r]
                            /\ cab'[r] = IF r = q THEN <<>> ELSE cab[r]
      BY <1>4 DEF FlushDrop, TypeOK
    <3>2. ListOf(<<>>) = {}
      BY DEF ListOf
    <3>3. \A r \in Queues : f \in ListOf(normal[r]) \cup ListOf(cab[r]) => r = q
      BY <2>3, <2>4 DEF Places
    <3>4. \A r \in Queues : f \notin ListOf(normal'[r]) \cup ListOf(cab'[r])
      BY <3>1, <3>2, <3>3
    <3>. QED  BY <2>1, <2>3, <3>4 DEF Away
  <2>. QED  BY <1>2, <2>1, <2>2, <2>4
<1>5. ASSUME NEW q \in Queues, Empty(q), pc[p] # "idle",
             NEW f \in before[p], QueueOf[f] = q
      PROVE  Away(f)
  <2>1. \A g \in before[p] : g \in Frames /\ stage[g] # "new"
    BY <1>0, <1>5 DEF Leaving
  <2>2. ListOf(<<>>) = {} /\ normal[q] = <<>> /\ cab[q] = <<>>
    BY <1>5 DEF ListOf, Empty
  <2>3. \A r \in Queues : f \in ListOf(normal[r]) \cup ListOf(cab[r]) => r = q
    BY <1>5, <2>1 DEF Places
  <2>4. \A r \in Queues : f \notin ListOf(normal[r]) \cup ListOf(cab[r])
    BY <2>2, <2>3
  <2>. QED  BY <2>1, <2>4 DEF Away
<1>6. CASE \E q \in Queues : FlushWait(p, q)
  <2>1. PICK q \in Queues : FlushWait(p, q)
    BY <1>6
  <2>2. /\ pc[p] = "wait" /\ pc'[p] = "wait" /\ UNCHANGED <<before, drop>>
        /\ todo'[p] = todo[p] \ {q} /\ late'[p] = (late[p] \/ ~Empty(q))
    BY <1>0, <2>1 DEF FlushWait, OthersUnchanged
  <2>3. /\ ToLeave(p) = IF drop[p] THEN {} ELSE todo[p]
        /\ ToLeave(p)' = IF drop[p] THEN {} ELSE todo[p] \ {q}
    BY <2>2 DEF ToLeave
  <2>. QED  BY <1>2, <1>5, <2>2, <2>3
<1>11. CASE FlushWaited(p)
  <2>1. /\ pc[p] = "wait" /\ pc'[p] = "check" /\ UNCHANGED <<before, drop>>
        /\ late'[p] = (late[p] \/ \E q \in todo[p] : ~Empty(q))
    BY <1>0, <1>11 DEF FlushWaited, Goto, OthersUnchanged
  <2>2. ToLeave(p) = (IF drop[p] THEN {} ELSE todo[p]) /\ todo[p] \subseteq Queues
    BY <1>0, <2>1 DEF ToLeave
  <2>3. ASSUME drop[p] \/ ~late'[p], NEW f \in before[p], QueueOf[f] \in ToLeave(p)
        PROVE  Away(f)
    <3>1. QueueOf[f] \in Queues /\ Empty(QueueOf[f])
      BY <2>1, <2>2, <2>3
    <3>. QED  BY <1>5, <2>1, <3>1
  <2>. QED  BY <1>2, <2>1, <2>3
<1>7. ASSUME pc[p] \notin {"idle", "drop", "wait"}, pc'[p] \notin {"drop", "wait"},
             UNCHANGED <<before, drop, late>>
      PROVE  /\ \A f \in before'[p] : stage'[f] # "new"
             /\ pc'[p] = "drop" => drop'[p]
             /\ drop'[p] \/ ~late'[p] =>
                   \A f \in before'[p] : QueueOf[f] \in ToLeave(p)' \/ Away(f)'
  <2>1. ToLeave(p) = {}
    BY <1>7 DEF ToLeave
  <2>. QED  BY <1>2, <1>7, <2>1
<1>8. CASE Check(p) \/ ChipEmpty(p) \/ ChipStuck(p) \/ FlushUnlock(p)
  <2>1. /\ pc[p] \in {"check", "empty", "unlock"} /\ UNCHANGED <<before, drop, late>>
        /\ pc'[p] \in {"empty", "unlock", "quiet", "decide"}
    BY <1>0, <1>8 DEF Check, ChipEmpty, ChipStuck, FlushUnlock, Goto, AfterFlush,
                      OthersUnchanged
  <2>. QED  BY <1>7, <2>1
<1>9. CASE Decide(p) \/ PendingTake(p) \/ PendingCount(p) \/ PendingDone(p)
  <2>1. /\ pc[p] \in {"decide", "pending", "count"} /\ UNCHANGED <<before, drop, late>>
        /\ pc'[p] \in {"pending", "count", "report"}
    BY <1>0, <1>9 DEF Decide, PendingTake, PendingCount, PendingDone, Goto,
                      OthersUnchanged
  <2>. QED  BY <1>7, <2>1
<1>10. CASE LockEnd(p) \/ FlushEnd(p)
  BY <1>0, <1>10 DEF LockEnd, FlushEnd, Goto
<1>. QED
  BY <1>1, <1>3, <1>4, <1>6, <1>8, <1>9, <1>10, <1>11, FlushSteps

\* A frame that has left the lists, and is not yet back in mac80211, is pending,
\* or with the bottom half, or with a thread that drops it.
LEMMA AwayOwned ==
  ASSUME TypeOK, OneOwner, NEW f \in Frames, Away(f), reports[f] = 0
  PROVE  \/ f \in txPending \/ Held(f)
         \/ \E p \in Procs : hand[p] = f \/ f \in dropped[p]
<1>1. Times(normal[QueueOf[f]], f) = 0 /\ Times(cab[QueueOf[f]], f) = 0
  <2>1. normal[QueueOf[f]] \in Seq(Frames) /\ cab[QueueOf[f]] \in Seq(Frames)
    BY QueuesAssumption DEF TypeOK
  <2>2. f \notin ListOf(normal[QueueOf[f]]) \cup ListOf(cab[QueueOf[f]])
    BY QueuesAssumption DEF Away
  <2>. QED  BY <2>1, <2>2, TimesNumber
<1>2. Count(stage[f] # "new") = 1
  BY DEF Away, Count
<1>3. \/ f \in txPending \/ Held(f)
      \/ Cardinality(Hands(f)) # 0 \/ Cardinality(Drops(f)) # 0
  BY <1>1, <1>2, Exclusive, Parts
<1>. QED  BY <1>3, Parts DEF Hands, Drops

\* What a flush still waits for only becomes less.
LEMMA ReportsGrow ==
  ASSUME TypeOK, [Next]_vars, NEW f \in Frames, reports[f] # 0
  PROVE  reports'[f] # 0
<1>. USE DEF timVars, bhVars, chipVars, procVars, queueVars
<1>0. reports \in [Frames -> Nat]
  BY DEF TypeOK
<1>1. CASE UNCHANGED reports
  BY <1>1
<1>2. ASSUME NEW g \in Frames, Put(g) \/ ScheduleTim(g) \/ ChipConfirms(g)
      PROVE  UNCHANGED reports
  BY <1>2 DEF Put, ScheduleTim, ChipConfirms
<1>3. CASE BhReport
  BY <1>0, <1>3 DEF BhReport
<1>4. CASE \/ BhStart \/ BhTest \/ BhTakeCab \/ BhCabDone \/ BhTakeNormal \/ BhTakeNone
           \/ BhAppend \/ BhWrite \/ BhWriteFails \/ BhReadCnf \/ BhFind \/ BhCount
           \/ BhUnlink \/ BhResumeMc \/ BhReadNone
  <2>1. UNCHANGED reports
    BY <1>4
       DEF BhStart, BhTest, BhTakeCab, BhCabDone, BhTakeNormal, BhTakeNone, BhAppend,
           BhWrite, BhWriteFails, BhReadCnf, BhFind, BhCount, BhUnlink, BhResumeMc,
           BhReadNone
  <2>. QED  BY <1>1, <2>1
<1>5. CASE StopBeacon \/ ChipDtim \/ ChipHangs \/ Freeze \/ TimRead \/ TimSend
  BY <1>1, <1>5 DEF StopBeacon, ChipDtim, ChipHangs, Freeze, TimRead, TimSend
<1>6. ASSUME NEW r \in Procs,
             \/ Call(r) \/ \E q \in Queues : FlushDrop(r, q) \/ FlushWait(r, q)
             \/ FlushWaited(r) \/ Check(r) \/ ChipEmpty(r) \/ ChipStuck(r)
             \/ FlushUnlock(r) \/ LockEnd(r) \/ Decide(r) \/ PendingTake(r)
             \/ PendingCount(r) \/ PendingDone(r) \/ FlushEnd(r)
      PROVE  UNCHANGED reports
  BY <1>6
     DEF Call, FlushStart, Lock, FlushDrop, FlushWait, FlushWaited, Check, ChipEmpty,
         ChipStuck, FlushUnlock, LockEnd, Decide, PendingTake, PendingCount,
         PendingDone, FlushEnd, OthersUnchanged
<1>7. ASSUME NEW r \in Procs, FlushReport(r) PROVE reports'[f] # 0
  BY <1>0, <1>7 DEF FlushReport
<1>8. CASE UNCHANGED vars
  BY <1>1, <1>8 DEF vars
<1>. QED
  BY <1>1, <1>2, <1>3, <1>4, <1>5, <1>6, <1>7, <1>8
     DEF Next, Advance, BottomHalf, TimWork

LEMMA LostGrow ==
  ASSUME [Next]_vars
  PROVE  lost \subseteq lost'
<1>. USE DEF timVars, bhVars, chipVars, procVars, queueVars
<1>1. ASSUME NEW g \in Frames, Put(g) \/ ScheduleTim(g) \/ ChipConfirms(g)
      PROVE  UNCHANGED lost
  BY <1>1 DEF Put, ScheduleTim, ChipConfirms
<1>2. CASE BottomHalf
  BY <1>2
     DEF BottomHalf, BhStart, BhTest, BhTakeCab, BhCabDone, BhTakeNormal, BhTakeNone,
         BhAppend, BhWrite, BhWriteFails, BhReadCnf, BhFind, BhCount, BhUnlink,
         BhReport, BhResumeMc, BhReadNone
<1>3. CASE StopBeacon \/ ChipDtim \/ ChipHangs \/ Freeze \/ TimRead \/ TimSend
  BY <1>3 DEF StopBeacon, ChipDtim, ChipHangs, Freeze, TimRead, TimSend
<1>4. ASSUME NEW p \in Procs, Call(p) \/ Advance(p) PROVE UNCHANGED lost
  BY <1>4
     DEF Call, Advance, FlushStart, Lock, FlushDrop, FlushWait, FlushWaited, Check,
         ChipEmpty, ChipStuck, FlushUnlock, LockEnd, Decide, PendingTake,
         PendingCount, PendingDone, FlushReport, FlushEnd, OthersUnchanged
<1>5. CASE UNCHANGED vars
  BY <1>5 DEF vars
<1>. QED  BY <1>1, <1>2, <1>3, <1>4, <1>5 DEF Next, TimWork

\* A frame leaves the list `dropped' for mac80211 only.
LEMMA DroppedReported ==
  ASSUME TypeOK, Places, OneOwner, [Next]_vars,
         NEW p \in Procs, NEW f \in dropped[p]
  PROVE  f \in dropped'[p] \/ reports'[f] # 0
<1>. USE DEF timVars, bhVars, chipVars, procVars, queueVars
<1>0. /\ dropped \in [Procs -> SUBSET Frames] /\ f \in Frames
      /\ reports \in [Frames -> Nat]
  BY DEF TypeOK
<1>1. CASE UNCHANGED dropped
  BY <1>1
<1>2. ASSUME NEW g \in Frames, Put(g) \/ ScheduleTim(g) \/ ChipConfirms(g)
      PROVE  UNCHANGED dropped
  BY <1>2 DEF Put, ScheduleTim, ChipConfirms
<1>3. CASE BhUnlink
  <2>1. bhFrame \in txPending
    BY <1>3 DEF BhUnlink, Places
  <2>2. p \in Drops(f) /\ Cardinality(Drops(f)) # 0
    BY <1>0, Parts DEF Drops
  <2>3. f \notin txPending
    <3>. DEFINE n == Times(normal[QueueOf[f]], f)
                c == Times(cab[QueueOf[f]], f)
                h == Cardinality(Hands(f))
                d == Cardinality(Drops(f))
    <3>1. n \in Nat /\ c \in Nat /\ h \in Nat /\ d \in Nat /\ reports[f] \in Nat
      BY <1>0, Parts
    <3>2. n + c + Count(f \in txPending) + Count(Held(f)) + h + d + reports[f] <= 1
      BY <1>0, Exclusive
    <3>3. /\ Count(f \in txPending) = IF f \in txPending THEN 1 ELSE 0
          /\ Count(Held(f)) = IF Held(f) THEN 1 ELSE 0
      BY DEF Count
    <3>4. d # 0
      BY <2>2
    <3>. HIDE DEF n, c, h, d
    <3>. QED  BY <3>1, <3>2, <3>3, <3>4
  <2>. QED  BY <1>0, <1>3, <2>1, <2>3 DEF BhUnlink
<1>4. CASE \/ BhStart \/ BhTest \/ BhTakeCab \/ BhCabDone \/ BhTakeNormal \/ BhTakeNone
           \/ BhAppend \/ BhWrite \/ BhWriteFails \/ BhReadCnf \/ BhFind \/ BhCount
           \/ BhReport \/ BhResumeMc \/ BhReadNone
  <2>1. UNCHANGED dropped
    BY <1>4
       DEF BhStart, BhTest, BhTakeCab, BhCabDone, BhTakeNormal, BhTakeNone, BhAppend,
           BhWrite, BhWriteFails, BhReadCnf, BhFind, BhCount, BhReport, BhResumeMc,
           BhReadNone
  <2>. QED  BY <1>1, <2>1
<1>5. CASE StopBeacon \/ ChipDtim \/ ChipHangs \/ Freeze \/ TimRead \/ TimSend
  BY <1>1, <1>5 DEF StopBeacon, ChipDtim, ChipHangs, Freeze, TimRead, TimSend
<1>6. ASSUME NEW r \in Procs,
             \/ Call(r) \/ \E q \in Queues : FlushWait(r, q)
             \/ FlushWaited(r) \/ Check(r) \/ ChipEmpty(r) \/ ChipStuck(r)
             \/ FlushUnlock(r) \/ LockEnd(r) \/ Decide(r) \/ PendingTake(r)
             \/ PendingDone(r) \/ FlushEnd(r)
      PROVE  UNCHANGED dropped
  BY <1>6
     DEF Call, FlushStart, Lock, FlushWait, FlushWaited, Check, ChipEmpty, ChipStuck,
         FlushUnlock, LockEnd, Decide, PendingTake, PendingDone, FlushEnd,
         OthersUnchanged
<1>7. ASSUME NEW r \in Procs, PendingCount(r) \/ \E q \in Queues : FlushDrop(r, q)
      PROVE  f \in dropped'[p]
  BY <1>0, <1>7 DEF PendingCount, FlushDrop
<1>8. ASSUME NEW r \in Procs, FlushReport(r)
      PROVE  f \in dropped'[p] \/ reports'[f] # 0
  <2>1. PICK g \in dropped[r] : /\ reports' = [reports EXCEPT ![g] = @ + 1]
                                /\ dropped' = [dropped EXCEPT ![r] = @ \ {g}]
    BY <1>8 DEF FlushReport
  <2>. QED  BY <1>0, <2>1
<1>9. CASE UNCHANGED vars
  BY <1>9 DEF vars
<1>. QED
  BY <1>1, <1>2, <1>3, <1>4, <1>5, <1>6, <1>7, <1>8, <1>9
     DEF Next, Advance, BottomHalf, TimWork

LEMMA RestShrinks ==
  ASSUME TypeOK, Places, OneOwner, [Next]_vars, NEW p \in Flushers, pc[p] # "idle"
  PROVE  Rest(p)' \subseteq Rest(p)
<1>0. /\ before \in [Procs -> SUBSET Frames] /\ reports \in [Frames -> Nat]
      /\ p \in Procs
  BY DEF TypeOK, Procs
<1>1. before'[p] \subseteq before[p]
  <2>1. ~FlushStart(p)
    BY DEF FlushStart, At
  <2>2. CASE FlushEnd(p)
    BY <1>0, <2>2 DEF FlushEnd
  <2>3. CASE \/ \E q \in Queues : FlushDrop(p, q) \/ FlushWait(p, q)
             \/ FlushWaited(p) \/ Check(p) \/ ChipEmpty(p) \/ ChipStuck(p)
             \/ FlushUnlock(p) \/ Decide(p) \/ LockEnd(p)
             \/ PendingTake(p) \/ PendingCount(p) \/ PendingDone(p)
    BY <2>3 DEF FlushDrop, FlushWait, FlushWaited, Check, ChipEmpty, ChipStuck,
                FlushUnlock, Decide, LockEnd, PendingTake, PendingCount, PendingDone,
                OthersUnchanged
  <2>. QED  BY <2>1, <2>2, <2>3, FlushSteps
<1>2. ASSUME NEW f \in Rest(p)' PROVE f \in Rest(p)
  <2>1. f \in before'[p] /\ reports'[f] = 0 /\ f \notin lost' /\ f \notin dropped'[p]
    BY <1>2 DEF Rest
  <2>2. f \in before[p] /\ f \in Frames
    BY <1>0, <1>1, <2>1
  <2>3. reports[f] = 0
    BY <2>1, <2>2, ReportsGrow
  <2>4. f \notin lost
    BY <2>1, LostGrow
  <2>5. f \notin dropped[p]
    BY <1>0, <2>1, DroppedReported
  <2>. QED  BY <2>2, <2>3, <2>4, <2>5 DEF Rest
<1>. QED  BY <1>2

\* Once nothing is pending, or the chip is empty, one frame is left at most:
\* that of the bottom half.
LEMMA OneRests ==
  ASSUME FlushInv, \A p, q \in Flushers : p = q,
         NEW p \in Flushers, pc[p] \in {"pending", "empty"},
         drop[p] \/ ~late[p],
         txPending = {} \/ (chipTx = {} /\ Confirmed = {})
  PROVE  Rest(p) \subseteq {bhFrame}
<1>0. /\ TypeOK /\ Places /\ OneOwner /\ PendingPlaced /\ Leaving
      /\ \A r \in Lockers : dropped[r] = {}
  BY DEF FlushInv, QuietInv, Inv
<1>1. /\ before \in [Procs -> SUBSET Frames] /\ reports \in [Frames -> Nat]
      /\ dropped \in [Procs -> SUBSET Frames] /\ p \in Procs /\ None \notin Frames
      /\ Procs = Flushers \cup Lockers /\ pc \in [Procs -> ToProc]
      /\ txPending \subseteq Frames
  BY <1>0, QueuesAssumption DEF TypeOK, Procs
<1>. SUFFICES ASSUME NEW f \in Rest(p) PROVE f = bhFrame
  OBVIOUS
<1>2. /\ f \in before[p] /\ f \in Frames /\ reports[f] = 0
      /\ f \notin lost /\ f \notin dropped[p]
  BY <1>1 DEF Rest
<1>3. Away(f)
  <2>1. ToLeave(p) = {}
    BY DEF ToLeave
  <2>. QED  BY <1>0, <1>2, <2>1 DEF Leaving
<1>4. \A r \in Procs : hand[r] # f /\ f \notin dropped[r]
  <2>1. ASSUME NEW r \in Procs PROVE hand[r] # f
    <3>1. LockExact
      BY DEF FlushInv, QuietInv
    <3>2. pc[r] # "count"
      BY <1>1, <3>1 DEF LockExact
    <3>. QED  BY <1>0, <1>1, <1>2, <3>2 DEF Places
  <2>2. ASSUME NEW r \in Procs PROVE f \notin dropped[r]
    BY <1>0, <1>1, <1>2
  <2>. QED  BY <2>1, <2>2
<1>5. f \in txPending \/ Held(f)
  BY <1>0, <1>2, <1>3, <1>4, AwayOwned
<1>6. CASE f \in txPending
  <2>1. chipTx = {} /\ Confirmed = {}
    BY <1>6
  <2>2. ASSUME NEW i \in DOMAIN output, output[i].frame = f PROVE FALSE
    <3>1. output[i] = ResumeMc
      BY <2>1 DEF Confirmed
    <3>. QED  BY <1>1, <1>2, <2>2, <3>1 DEF ResumeMc
  <2>. QED  BY <1>0, <1>2, <1>6, <2>1, <2>2 DEF PendingPlaced
<1>7. CASE Held(f)
  BY <1>7 DEF Held
<1>. QED  BY <1>5, <1>6, <1>7

LEMMA SettledNext ==
  ASSUME FlushInv, \A p, q \in Flushers : p = q, [Next]_vars
  PROVE  Settled'
<1>. SUFFICES ASSUME NEW p \in Flushers, Waited(p)' PROVE Cardinality(Rest(p)') <= 1
  BY DEF Settled
<1>. USE DEF At
<1>0. /\ TypeOK /\ Places /\ OneOwner /\ QuietInv /\ Settled
  BY DEF FlushInv, QuietInv, Inv
<1>1. /\ pc \in [Procs -> ToProc] /\ drop \in [Procs -> BOOLEAN]
      /\ late \in [Procs -> BOOLEAN] /\ p \in Procs
      /\ before \in [Procs -> SUBSET Frames] /\ IsFiniteSet(Frames)
      /\ p \notin Lockers
  BY <1>0, QueuesAssumption DEF TypeOK, Procs
<1>2. ASSUME pc[p] # "idle", NEW S, Rest(p) \subseteq S, IsFiniteSet(S),
             Cardinality(S) <= 1
      PROVE  Cardinality(Rest(p)') <= 1
  <2>1. Rest(p)' \subseteq S
    BY <1>0, <1>2, RestShrinks
  <2>2. Cardinality(Rest(p)') <= Cardinality(S)
        /\ Cardinality(Rest(p)') \in Nat /\ Cardinality(S) \in Nat
    BY <1>2, <2>1, FS_Subset, FS_CardinalityType
  <2>. QED  BY <1>2, <2>2
<1>3. ASSUME Waited(p) PROVE Cardinality(Rest(p)') <= 1
  <2>1. pc[p] # "idle"
    BY <1>3 DEF Waited
  <2>2. Cardinality(Rest(p)) <= 1
    BY <1>0, <1>3 DEF Settled
  <2>3. IsFiniteSet(Rest(p))
    <3>1. Rest(p) \subseteq Frames
      BY <1>1 DEF Rest
    <3>. QED  BY <1>1, <3>1, FS_Subset
  <2>. QED  BY <1>2, <2>1, <2>2, <2>3
<1>4. ASSUME pc[p] \in {"pending", "empty"}, drop[p] \/ ~late[p],
             txPending = {} \/ (chipTx = {} /\ Confirmed = {})
      PROVE  Cardinality(Rest(p)') <= 1
  <2>1. Rest(p) \subseteq {bhFrame}
    BY <1>4, OneRests
  <2>2. IsFiniteSet({bhFrame}) /\ Cardinality({bhFrame}) = 1
    BY FS_Singleton
  <2>3. Cardinality({bhFrame}) <= 1
    BY <2>2
  <2>. QED  BY <1>2, <1>4, <2>1, <2>2, <2>3
<1>5. frozen => frozen'
  BY StaysFrozen
<1>6. CASE pc'[p] = pc[p] /\ drop'[p] = drop[p] /\ late'[p] = late[p]
  BY <1>3, <1>5, <1>6 DEF Waited
<1>7. CASE FlushStart(p) \/ \E q \in Queues : FlushDrop(p, q) \/ FlushWait(p, q)
  <2>1. pc'[p] \in {"drop", "wait"}
    BY <1>1, <1>7 DEF FlushStart, FlushDrop, FlushWait, Goto
  <2>. QED  BY <2>1 DEF Waited
<1>8. CASE FlushWaited(p) \/ LockEnd(p) \/ PendingTake(p) \/ PendingCount(p) \/ FlushEnd(p)
  <2>1. pc'[p] \in {"check", "idle", "count", "pending"}
    BY <1>1, <1>8 DEF FlushWaited, LockEnd, PendingTake, PendingCount, FlushEnd, Goto
  <2>. QED  BY <2>1 DEF Waited
<1>9. CASE Check(p)
  <2>1. pc'[p] = "empty" \/ (pc'[p] = "decide" /\ frozen')
    BY <1>1, <1>9 DEF Check, Goto, AfterFlush
  <2>. QED  BY <2>1 DEF Waited
<1>10. CASE ChipStuck(p)
  <2>1. pc'[p] = "unlock" /\ frozen'
    BY <1>1, <1>10 DEF ChipStuck, Goto
  <2>. QED  BY <2>1 DEF Waited
<1>11. CASE ChipEmpty(p)
  <2>1. /\ pc[p] = "empty" /\ pc'[p] = "unlock" /\ txUsed = 0
        /\ UNCHANGED <<drop, late, frozen>>
    BY <1>1, <1>11 DEF ChipEmpty, Goto
  <2>2. ~frozen /\ (drop[p] \/ ~late[p])
    BY <2>1 DEF Waited
  <2>3. Cardinality(chipTx) = 0 /\ Cardinality(Confirmed) = 0
    BY <1>0, <2>1, ChipFinite, ConfirmedFinite DEF QuietInv, BuffersExact
  <2>4. chipTx = {} /\ Confirmed = {}
    BY <1>0, <2>3, ChipFinite, ConfirmedFinite, FS_EmptySet
  <2>. QED  BY <1>4, <2>1, <2>2, <2>4
<1>12. CASE FlushUnlock(p)
  <2>1. /\ pc[p] = "unlock" /\ pc'[p] = "decide" /\ UNCHANGED <<drop, late, frozen>>
    BY <1>1, <1>12 DEF FlushUnlock, Goto, AfterFlush, OthersUnchanged
  <2>. QED  BY <1>3, <2>1 DEF Waited
<1>13. CASE Decide(p)
  <2>1. /\ pc[p] = "decide" /\ UNCHANGED <<drop, late, frozen>>
        /\ pc'[p] = IF frozen THEN "pending" ELSE "report"
    BY <1>1, <1>13 DEF Decide, Goto, OthersUnchanged
  <2>. QED  BY <1>3, <2>1 DEF Waited
<1>14. CASE PendingDone(p)
  <2>1. /\ pc[p] = "pending" /\ pc'[p] = "report" /\ UNCHANGED <<drop, late, frozen>>
        /\ txPending = {}
    BY <1>1, <1>14 DEF PendingDone, Goto, OthersUnchanged
  <2>2. drop[p] \/ ~late[p]
    BY <2>1 DEF Waited
  <2>. QED  BY <1>4, <2>1, <2>2
<1>. QED
  BY <1>0, <1>6, <1>7, <1>8, <1>9, <1>10, <1>11, <1>12, <1>13, <1>14, FlushSteps

LEMMA FlushNext ==
  ASSUME ~LateAnswers, \A p, q \in Flushers : p = q, FlushInv, [Next]_vars
  PROVE  FlushInv'
<1>1. /\ TypeOK /\ Places /\ LockExact /\ QuietInv /\ PendingPlaced /\ Leaving
      /\ \A p \in Lockers : dropped[p] = {}
  BY DEF FlushInv, QuietInv, Inv
<1>2. QuietInv'
  BY <1>1, QuietNext
<1>3. \A p \in Lockers : dropped'[p] = {}
  BY <1>1, LockersDropNothing
<1>4. PendingPlaced'
  BY <1>1, PlacedNext
<1>5. Leaving'
  BY <1>1, LeavingNext
<1>6. Settled'
  BY SettledNext
<1>. QED  BY <1>2, <1>3, <1>4, <1>5, <1>6 DEF FlushInv

LEMMA FlushInit == Init => FlushInv
<1>. SUFFICES ASSUME Init PROVE FlushInv
  OBVIOUS
<1>1. /\ txPending = {} /\ \A p \in Procs : pc[p] = "idle" /\ dropped[p] = {}
      /\ Flushers \subseteq Procs /\ Lockers \subseteq Procs
  BY DEF Init, Procs
<1>2. PendingPlaced /\ Leaving /\ Settled /\ \A p \in Lockers : dropped[p] = {}
  BY <1>1 DEF PendingPlaced, Leaving, Settled, Waited
<1>. QED  BY <1>2, QuietInit DEF FlushInv

\* When wfx_flush returns, no frame it was called for is left in the driver but
\* the one in the hands of the bottom half, and those whose bus write failed:
\* whatever locks, confirmations and new frames came in between, and whether or
\* not the chip hung meanwhile.  One thread flushes: of two that do so at the
\* same time, one may return before the other has given back what it dropped.
THEOREM FlushIsComplete ==
  ASSUME ~LateAnswers, \A p, q \in Flushers : p = q
  PROVE  Spec => FlushComplete
<1>1. FlushInv /\ [Next]_vars => FlushInv'
  BY FlushNext
<1>2. ASSUME FlushInv, [Next]_vars, NEW p \in Flushers,
             At(p, "report"), pc'[p] = "idle", drop[p] \/ ~late[p]
      PROVE  Cardinality({f \in before[p] : reports[f] = 0} \ lost) <= 1
  <2>1. /\ pc \in [Procs -> ToProc] /\ p \in Procs /\ TypeOK /\ pc[p] = "report"
    BY <1>2 DEF FlushInv, QuietInv, Inv, TypeOK, Procs, At
  <2>2. FlushEnd(p)
    <3>1. CASE \E q \in Queues : FlushDrop(p, q) \/ FlushWait(p, q)
      BY <2>1, <3>1 DEF FlushDrop, FlushWait, At
    <3>2. CASE \/ FlushStart(p) \/ FlushWaited(p) \/ Check(p) \/ ChipEmpty(p)
               \/ ChipStuck(p) \/ FlushUnlock(p) \/ Decide(p) \/ LockEnd(p)
               \/ PendingTake(p) \/ PendingCount(p) \/ PendingDone(p)
      BY <2>1, <3>2 DEF FlushStart, FlushWaited, Check, ChipEmpty, ChipStuck,
                        FlushUnlock, Decide, LockEnd, PendingTake, PendingCount,
                        PendingDone, At
    <3>. QED  BY <1>2, <2>1, <3>1, <3>2, FlushSteps
  <2>3. dropped[p] = {}
    BY <2>2 DEF FlushEnd
  <2>4. Cardinality(Rest(p)) <= 1
    BY <1>2, <2>1 DEF FlushInv, Settled, Waited
  <2>5. Rest(p) = {f \in before[p] : reports[f] = 0} \ lost
    BY <2>3 DEF Rest
  <2>. QED  BY <2>4, <2>5
<1>3. FlushInv /\ [Next]_vars =>
        [\A p \in Flushers :
            (At(p, "report") /\ pc'[p] = "idle" /\ (drop[p] \/ ~late[p])) =>
                Cardinality({f \in before[p] : reports[f] = 0} \ lost) <= 1]_vars
  BY <1>2
<1>. QED  BY <1>1, <1>3, FlushInit, PTL DEF Spec, FlushComplete

-----------------------------------------------------------------------------
(* The announcement of the multicast frames *)

\* As CabAnnounced, but the update on its way is one that sees them.
CabInv ==
    /\ stage \in [Frames -> {"new", "schedule", "given"}]
    /\ HasCab => \/ hung \/ frozen \/ timPending
                 \/ \E f \in Mcast : stage[f] = "schedule"
                 \/ timPc = "send" /\ timBit
                 \/ timPc # "send" /\ tim

\* The steps that touch neither the frames of the lists nor the TIM.
LEMMA CabSame ==
  ASSUME CabInv, HasCab' => HasCab, UNCHANGED <<stage, timPc, timBit, tim>>,
         timPending => timPending', hung => hung', frozen => frozen'
  PROVE  CabInv'
BY DEF CabInv

LEMMA CabNext ==
  ASSUME CabInv, [Next]_vars
  PROVE  CabInv'
<1>. USE DEF timVars, bhVars, chipVars, procVars, queueVars
<1>1. ASSUME NEW f \in Frames, Put(f)
      PROVE  CabInv'
  <2>1. CASE f \in Mcast
    <3>1. stage' \in [Frames -> {"new", "schedule", "given"}]
          /\ stage'[f] = "schedule"
      BY <1>1, <2>1 DEF Put, CabInv
    <3>. QED  BY <2>1, <3>1 DEF CabInv
  <2>2. CASE f \notin Mcast
    <3>1. UNCHANGED <<cab, timPc, timBit, tim, timPending, hung, frozen>>
          /\ stage' = [stage EXCEPT ![f] = "given"] /\ stage[f] = "new"
      BY <1>1, <2>2 DEF Put, Enqueue
    <3>2. \A g \in Mcast : stage[g] = "schedule" => stage'[g] = "schedule"
      BY <2>2, <3>1
    <3>3. stage' \in [Frames -> {"new", "schedule", "given"}]
      BY <3>1 DEF CabInv
    <3>. QED  BY <3>1, <3>2, <3>3 DEF CabInv, HasCab
  <2>. QED  BY <2>1, <2>2
<1>2. ASSUME NEW f \in Frames, ScheduleTim(f)
      PROVE  CabInv'
  BY <1>2 DEF ScheduleTim, CabInv
<1>3. CASE TimRead
  BY <1>3 DEF TimRead, CabInv, HasCab
<1>4. CASE TimSend
  BY <1>4 DEF TimSend, CabInv, HasCab
<1>5. CASE BhTakeCab
  <2>1. HasCab
    BY <1>5 DEF BhTakeCab, IsFirst, HasCab
  <2>. QED  BY <1>5, <2>1, CabSame DEF BhTakeCab
<1>6. CASE BhCabDone
  BY <1>6, CabSame DEF BhCabDone, HasCab
<1>7. CASE BhReport
  BY <1>7, CabSame DEF BhReport, HasCab
<1>8. ASSUME NEW p \in Procs, NEW q \in Queues, FlushDrop(p, q)
      PROVE  CabInv'
  <2>1. ASSUME NEW r \in Queues, cab'[r] # <<>>
        PROVE  cab[r] # <<>>
    BY <1>8, <2>1 DEF FlushDrop
  <2>2. HasCab' => HasCab
    BY <2>1 DEF HasCab
  <2>. QED  BY <1>8, <2>2, CabSame DEF FlushDrop, OthersUnchanged
<1>9. ASSUME NEW f \in Frames, ChipConfirms(f)
      PROVE  CabInv'
  BY <1>9, CabSame DEF ChipConfirms, HasCab
<1>10. CASE StopBeacon \/ ChipDtim \/ ChipHangs \/ Freeze
  BY <1>10, CabSame DEF StopBeacon, ChipDtim, ChipHangs, Freeze, HasCab
<1>11. CASE \/ BhStart \/ BhTest \/ BhTakeNormal \/ BhTakeNone \/ BhAppend
            \/ BhWrite \/ BhWriteFails \/ BhReadCnf \/ BhFind \/ BhCount \/ BhUnlink
            \/ BhResumeMc \/ BhReadNone
  BY <1>11, CabSame
     DEF BhStart, BhTest, BhTakeNormal, BhTakeNone, BhAppend, BhWrite,
         BhWriteFails, BhReadCnf, BhFind, BhCount, BhUnlink, BhResumeMc,
         BhReadNone, HasCab
<1>12. ASSUME NEW p \in Procs, Call(p)
       PROVE  CabInv'
  BY <1>12, CabSame DEF Call, FlushStart, Lock, HasCab
<1>13. ASSUME NEW p \in Procs,
              \/ \E q \in Queues : FlushWait(p, q)
              \/ FlushWaited(p) \/ Check(p) \/ ChipEmpty(p) \/ ChipStuck(p)
              \/ FlushUnlock(p) \/ LockEnd(p) \/ Decide(p)
              \/ PendingTake(p) \/ PendingCount(p) \/ PendingDone(p)
              \/ FlushReport(p) \/ FlushEnd(p)
       PROVE  CabInv'
  BY <1>13, CabSame
     DEF FlushWait, FlushWaited, Check, ChipEmpty, ChipStuck, FlushUnlock, LockEnd,
         Decide, PendingTake, PendingCount, PendingDone, FlushReport, FlushEnd,
         OthersUnchanged, HasCab
<1>14. CASE UNCHANGED vars
  BY <1>14, CabSame DEF vars, HasCab
<1>. QED
  BY <1>1, <1>2, <1>3, <1>4, <1>5, <1>6, <1>7, <1>8, <1>9, <1>10, <1>11, <1>12,
     <1>13, <1>14
     DEF Next, Advance, BottomHalf, TimWork

\* However wfx_tx, the work item and the bottom half interleave, multicast
\* frames do not stay in the driver unannounced.
THEOREM CabAnnouncedAlways == Spec => []CabAnnounced
<1>1. Init => CabInv
  BY DEF Init, CabInv, HasCab
<1>2. CabInv => CabAnnounced
  BY DEF CabInv, CabAnnounced
<1>. QED  BY <1>1, <1>2, CabNext, PTL DEF Spec

-----------------------------------------------------------------------------
(* No frame is forgotten *)

\* The bottom half will look at the queues again, or is before one of places.
Working(places) == bhPending \/ bhDid \/ bhPc \in places \cup Sending
Blocked == txLock # 0 \/ txUsed >= NumBufs

UnicastWaits   == \E q \in Queues : normal[q] # <<>>
MulticastWaits == afterDtim /\ HasCab
InTx           == \E f \in Mcast : stage[f] = "schedule"

\* What may leave does not escape the last look of the bottom half: it came
\* before, or queues the work item again.
SendInv ==
    /\ bhPc = "idle" => ~bhDid
    /\ output # <<>> => bhPending \/ bhPc # "idle"
    /\ UnicastWaits => Blocked \/ Working({"tx", "pick", "normal"})
    /\ MulticastWaits => Blocked \/ Working({"tx", "pick"}) \/ InTx

\* When the bottom half is idle, the chip's messages are read, and frames that
\* may be sent wait for a thread that holds tx_lock, or for a frame at the chip:
\* the unlock and the confirmation start it again.
SentWhenIdle ==
    bhPc = "idle" /\ ~bhPending =>
        /\ output = <<>>
        /\ UnicastWaits \/ (MulticastWaits /\ ~InTx) =>
              LockedOut \cup Emptying # {} \/ chipTx # {}

\* The steps that leave the bottom half where it is.
LEMMA SendSame ==
  ASSUME SendInv, UNCHANGED <<bhPc, bhDid>>, bhPending => bhPending',
         output' # <<>> => output # <<>> \/ bhPending' \/ bhPc # "idle",
         Blocked => Blocked' \/ bhPending',
         UnicastWaits' => UnicastWaits \/ bhPending',
         MulticastWaits' => MulticastWaits \/ bhPending' \/ InTx',
         InTx => InTx' \/ bhPending'
  PROVE  SendInv'
BY DEF SendInv, Working

LEMMA SendNext ==
  ASSUME QuietInv, SendInv, [Next]_vars
  PROVE  SendInv'
<1>. USE DEF timVars, bhVars, chipVars, procVars, queueVars
<1>0. txLock \in Nat
  BY HoldersFinite DEF QuietInv, LockExact
<1>1. ASSUME NEW f \in Frames, Put(f)
      PROVE  SendInv'
  <2>. QueueOf[f] \in Queues /\ stage \in [Frames -> {"new", "schedule", "given"}]
    BY QueuesAssumption DEF QuietInv, Inv, TypeOK
  <2>1. UNCHANGED <<bhPc, bhDid, output, txLock, txUsed, afterDtim>>
        /\ (bhPending => bhPending')
    BY <1>1 DEF Put
  <2>2. CASE f \in Mcast
    <3>1. UNCHANGED normal /\ InTx'
      BY <1>1, <2>2 DEF Put, Enqueue, InTx
    <3>. QED  BY <2>1, <3>1, SendSame DEF Blocked, UnicastWaits
  <2>3. CASE f \notin Mcast
    <3>1. UNCHANGED cab /\ bhPending'
      BY <1>1, <2>3 DEF Put, Enqueue
    <3>. QED  BY <2>1, <3>1, SendSame DEF Blocked, MulticastWaits, HasCab
  <2>. QED  BY <2>2, <2>3
<1>2. ASSUME NEW f \in Frames, ScheduleTim(f)
      PROVE  SendInv'
  BY <1>2, SendSame
     DEF ScheduleTim, RequestBh, Blocked, UnicastWaits, MulticastWaits, HasCab
<1>3. ASSUME NEW f \in Frames, ChipConfirms(f)
      PROVE  SendInv'
  BY <1>3, SendSame
     DEF ChipConfirms, RequestBh, Blocked, UnicastWaits, MulticastWaits, HasCab
<1>4. CASE TimRead \/ TimSend \/ ChipHangs \/ Freeze
  <2>1. UNCHANGED <<bhPc, bhDid, bhPending, output, txLock, txUsed, normal, cab,
                    afterDtim, stage>>
    BY <1>4 DEF TimRead, TimSend, ChipHangs, Freeze
  <2>. QED
    BY <2>1, SendSame DEF Blocked, UnicastWaits, MulticastWaits, HasCab, InTx
<1>5. CASE ChipDtim
  BY <1>5, SendSame
     DEF ChipDtim, RequestBh, Blocked, UnicastWaits, MulticastWaits, HasCab
<1>6. CASE StopBeacon
  BY <1>6, SendSame
     DEF StopBeacon, Blocked, UnicastWaits, MulticastWaits, HasCab, InTx
<1>7. CASE BhResumeMc
  BY <1>7 DEF BhResumeMc, RequestBh, SendInv, Working
<1>8. CASE BhStart
  BY <1>8
     DEF BhStart, SendInv, Working, Blocked, UnicastWaits, MulticastWaits,
         HasCab, InTx
<1>9. CASE BhTest
  <2>1. /\ UNCHANGED <<bhDid, bhPending, output, txLock, txUsed, normal, cab,
                       afterDtim, stage>>
        /\ bhPc = "tx"
        /\ bhPc' = "pick" \/ (bhPc' = "rx" /\ Blocked)
    <3>1. txUsed \in Int /\ NumBufs \in Int
      BY QueuesAssumption DEF QuietInv, Inv, TypeOK
    <3>. QED  BY <1>9, <3>1 DEF BhTest, Blocked
  <2>2. UnicastWaits' = UnicastWaits /\ MulticastWaits' = MulticastWaits
        /\ InTx' = InTx /\ Blocked' = Blocked
    BY <2>1 DEF Blocked, UnicastWaits, MulticastWaits, HasCab, InTx
  <2>. QED  BY <2>1, <2>2 DEF SendInv, Working
<1>10. CASE BhTakeCab
  BY <1>10 DEF BhTakeCab, Take, SendInv, Working, Sending
<1>11. CASE BhCabDone
  BY <1>11
     DEF BhCabDone, SendInv, Working, Blocked, UnicastWaits, MulticastWaits, Sending
<1>12. CASE BhTakeNormal
  BY <1>12 DEF BhTakeNormal, Take, SendInv, Working, Sending
<1>13. CASE BhTakeNone
  BY <1>13
     DEF BhTakeNone, SendInv, Working, Blocked, UnicastWaits, MulticastWaits,
         HasCab, InTx, Sending
<1>14. CASE BhAppend
  BY <1>14 DEF BhAppend, SendInv, Working, Sending
<1>15. CASE BhWrite \/ BhWriteFails \/ BhReadCnf
  BY <1>15 DEF BhWrite, BhWriteFails, BhReadCnf, SendInv, Working
<1>16. CASE BhFind \/ BhCount \/ BhUnlink
  BY <1>16
     DEF BhFind, BhCount, BhUnlink, SendInv, Working, Blocked, UnicastWaits,
         MulticastWaits, HasCab, InTx, Sending
<1>17. CASE BhReport
  BY <1>17
     DEF BhReport, SendInv, Working, Blocked, UnicastWaits, MulticastWaits,
         HasCab, InTx, Sending
<1>18. CASE BhReadNone
  BY <1>18
     DEF BhReadNone, SendInv, Working, Blocked, UnicastWaits, MulticastWaits,
         HasCab, InTx, Sending
<1>19. ASSUME NEW p \in Procs, NEW q \in Queues, FlushDrop(p, q)
       PROVE  SendInv'
  <2>1. /\ UNCHANGED <<bhPc, bhDid, bhPending, output, txLock, txUsed, afterDtim,
                       stage>>
        /\ \A r \in Queues : cab'[r] # <<>> => cab[r] # <<>>
        /\ \A r \in Queues : normal'[r] # <<>> => normal[r] # <<>>
    BY <1>19 DEF FlushDrop, OthersUnchanged
  <2>2. (UnicastWaits' => UnicastWaits) /\ (MulticastWaits' => MulticastWaits)
    BY <2>1 DEF UnicastWaits, MulticastWaits, HasCab
  <2>. QED  BY <2>1, <2>2, SendSame DEF Blocked, InTx
<1>20. ASSUME NEW p \in Procs, \/ Call(p) \/ Check(p)
                               \/ FlushUnlock(p) \/ LockEnd(p)
       PROVE  SendInv'
  <2>1. /\ UNCHANGED <<bhPc, bhDid, output, txUsed, normal, cab, afterDtim, stage>>
        /\ bhPending => bhPending'
        /\ txLock # 0 => txLock' # 0 \/ bhPending'
    <3>1. CASE Call(p) \/ Check(p)
      BY <1>0, <3>1 DEF Call, FlushStart, Lock, Check, OthersUnchanged
    <3>2. CASE FlushUnlock(p) \/ LockEnd(p)
      <4>1. /\ UNCHANGED <<bhPc, bhDid, output, txUsed, normal, cab, afterDtim,
                           stage>>
            /\ txLock' = txLock - 1
            /\ bhPending' = (bhPending \/ txLock = 1)
        BY <3>2 DEF FlushUnlock, LockEnd, Unlock, OthersUnchanged
      <4>2. txLock # 0 => txLock' # 0 \/ txLock = 1
        BY <1>0, <4>1
      <4>. QED  BY <4>1, <4>2
    <3>. QED  BY <1>20, <3>1, <3>2
  <2>. QED
    BY <2>1, SendSame DEF Blocked, UnicastWaits, MulticastWaits, HasCab, InTx
<1>21. ASSUME NEW p \in Procs,
              \/ \E q \in Queues : FlushWait(p, q)
              \/ FlushWaited(p) \/ ChipEmpty(p) \/ ChipStuck(p) \/ Decide(p)
              \/ PendingTake(p) \/ PendingCount(p) \/ PendingDone(p)
              \/ FlushReport(p) \/ FlushEnd(p)
       PROVE  SendInv'
  <2>1. UNCHANGED <<bhPc, bhDid, bhPending, output, txLock, txUsed, normal, cab,
                    afterDtim, stage>>
    BY <1>21
       DEF FlushWait, FlushWaited, ChipEmpty, ChipStuck, Decide, PendingTake,
           PendingCount, PendingDone, FlushReport, FlushEnd, OthersUnchanged
  <2>. QED
    BY <2>1, SendSame DEF Blocked, UnicastWaits, MulticastWaits, HasCab, InTx
<1>22. CASE UNCHANGED vars
  BY <1>22, SendSame
     DEF vars, Blocked, UnicastWaits, MulticastWaits, HasCab, InTx
<1>. QED
  BY <1>1, <1>2, <1>3, <1>4, <1>5, <1>6, <1>7, <1>8, <1>9, <1>10, <1>11, <1>12,
     <1>13, <1>14, <1>15, <1>16, <1>17, <1>18, <1>19, <1>20, <1>21, <1>22
     DEF Next, Advance, BottomHalf, TimWork

\* tx_lock that is taken has a holder, and a buffer that is used, with nothing
\* left to read, has a frame at the chip.
LEMMA SendHolds ==
  ASSUME QuietInv, SendInv
  PROVE  SentWhenIdle
<1>. SUFFICES ASSUME bhPc = "idle", ~bhPending
              PROVE  /\ output = <<>>
                     /\ UnicastWaits \/ (MulticastWaits /\ ~InTx) =>
                           LockedOut \cup Emptying # {} \/ chipTx # {}
  BY DEF SentWhenIdle
<1>1. output = <<>>
  BY DEF SendInv
<1>2. ASSUME UnicastWaits \/ (MulticastWaits /\ ~InTx)
      PROVE  Blocked
  BY <1>2 DEF SendInv, Working, Sending
<1>3. ASSUME txLock # 0
      PROVE  LockedOut \cup Emptying # {}
  <2>1. Cardinality(LockedOut) # 0 \/ Cardinality(Emptying) # 0
    BY <1>3, HoldersFinite DEF QuietInv, LockExact
  <2>. QED  BY <2>1, HoldersFinite, FS_EmptySet
<1>4. ASSUME txUsed >= NumBufs
      PROVE  chipTx # {}
  <2>1. Confirmed = {}
    BY <1>1 DEF Confirmed
  <2>2. Cardinality(Confirmed) = 0
    BY <2>1, FS_EmptySet
  <2>3. Cardinality(chipTx) # 0
    BY <1>4, <2>2, QueuesAssumption, ChipFinite DEF QuietInv, Inv, BuffersExact
  <2>. QED  BY <2>3, FS_EmptySet
<1>. QED  BY <1>1, <1>2, <1>3, <1>4 DEF Blocked

\* No wake-up of the bottom half is lost, whatever the order in which wfx_tx,
\* the multicast signal, the last wfx_tx_unlock and the confirmations come: a
\* frame that may be sent never waits for something that will not happen.
THEOREM NoFrameForgotten ==
  ASSUME ~LateAnswers
  PROVE  Spec => []SentWhenIdle
<1>1. Init => SendInv
  BY DEF Init, SendInv, UnicastWaits, MulticastWaits
<1>2. QuietInv /\ [Next]_vars => QuietInv'
  BY QuietNext
<1>3. QuietInv /\ SendInv /\ [Next]_vars => SendInv'
  BY SendNext
<1>4. QuietInv /\ SendInv => SentWhenIdle
  BY SendHolds
<1>. QED  BY <1>1, <1>2, <1>3, <1>4, QuietInit, PTL DEF Spec
=============================================================================
