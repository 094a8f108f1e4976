----------------------------- MODULE RateFixup -----------------------------
(***************************************************************************)
(* What becomes of the list of rates mac80211 gives with a frame           *)
(* (data_tx.c).  wfx_tx_fixup_rates makes of it a list the firmware        *)
(* accepts: decreasing, without duplicates, the slowest rate at the end.   *)
(* After the confirmation wfx_tx_fill_rates reports in it how often each   *)
(* rate was tried.                                                         *)
(*                                                                         *)
(* A list is a sequence of IEEE80211_TX_MAX_RATES = 4 rates; idx is -1 from*)
(* the first unused one on, and the first one is used.  mac80211's counts  *)
(* are at most 15, so a sum of two never leaves the 5 bits of the field.   *)
(***************************************************************************)
EXTENDS Integers, FiniteSets

Slots == 1 .. 4
CountMax == 15

AtMost(n, max) == IF n > max THEN max ELSE n

\* A rate taken out of the list keeps its flags.
Removed(rate) == [idx |-> -1, count |-> 0, sgi |-> rate.sgi]

\* The flags of the first rate hold for all.
OneGi(r) == [i \in Slots |-> [r[i] EXCEPT !.sgi = r[1].sgi]]

\* Mutant of Merge: the sum is not limited to 15.
MergeUnlimited(r, i) ==
    IF r[i + 1].idx = r[i].idx /\ r[i].idx # -1
    THEN [r EXCEPT ![i].count = @ + r[i + 1].count,
                   ![i + 1] = Removed(@)]
    ELSE r

\* Two neighbours with the same index become one.
Merge(r, i) ==
    IF r[i + 1].idx = r[i].idx /\ r[i].idx # -1
    THEN [r EXCEPT ![i].count = AtMost(@ + r[i + 1].count, CountMax),
                   ![i + 1] = Removed(@)]
    ELSE r

\* Two neighbours in the wrong order are exchanged.
Swap(r, i) ==
    IF r[i + 1].idx > r[i].idx
    THEN [r EXCEPT ![i] = r[i + 1], ![i + 1] = r[i]]
    ELSE r

Step(r, i) == Swap(Merge(r, i), i)
Pass(r) == Step(Step(Step(r, 1), 2), 3)

\* Passes are made until one changes nothing.  Three always suffice, and any
\* further one does change nothing (Settled): the loop ends with this list.
Settle(r) == Pass(Pass(Pass(r)))
Settled(r) == \A i \in 1 .. 3 : Step(r, i) = r

\* MCS0 or 1 Mbps takes the first unused place, if it is not in the list.
Lowest(r) ==
    [i \in Slots |->
        IF r[i].idx = -1 /\ \A j \in Slots : j < i => r[j].idx > 0
        THEN [idx |-> 0, count |-> 8, sgi |-> FALSE]
        ELSE r[i]]

LongGi(r) == [i \in Slots |-> [r[i] EXCEPT !.sgi = @ /\ i = 1]]

Sorted(r) == Settle(OneGi(r))
Fixup(r) == LongGi(Lowest(Sorted(r)))

\* wfx_tx_fill_rates: the tries are shared out over the rates in their order.
Before(r, i) ==
    CASE i = 1 -> 0
      [] i = 2 -> r[1].count
      [] i = 3 -> r[1].count + r[2].count
      [] i = 4 -> r[1].count + r[2].count + r[3].count
FillRates(r, tries) ==
    [i \in Slots |->
        IF r[i].idx = -1 \/ tries > Before(r, i) + r[i].count THEN r[i]
        ELSE IF tries <= Before(r, i)
        THEN Removed(r[i])
        ELSE [r[i] EXCEPT !.count = tries - Before(r, i)]]

-----------------------------------------------------------------------------
\* The lists that are checked: any order of five indexes, each with a count of
\* its own, and the short guard interval on the first rate or on the others.
Offers(sgi) == {[idx |-> x, count |-> 6 + x, sgi |-> sgi] : x \in 0 .. 4}
Unused == [idx |-> -1, count |-> 0, sgi |-> FALSE]
Lists == UNION {{<<a, b, c, d>> :
                    a \in Offers(g), b \in Offers(~g) \cup {Unused},
                    c \in Offers(~g) \cup {Unused},
                    d \in Offers(~g) \cup {Unused}} : g \in BOOLEAN}
Inputs == {r \in Lists :
              \A i \in 2 .. 3 : r[i].idx = -1 => r[i + 1].idx = -1}

RateIndexes(r) == {r[i].idx : i \in Slots} \ {-1}
TriesAt(r, i, x) == IF r[i].idx = x THEN r[i].count ELSE 0
Tries(r, x) ==
    TriesAt(r, 1, x) + TriesAt(r, 2, x) + TriesAt(r, 3, x) + TriesAt(r, 4, x)
Reported(r, i) == IF r[i].idx = -1 THEN 0 ELSE r[i].count
Total(r) == Reported(r, 1) + Reported(r, 2) + Reported(r, 3) + Reported(r, 4)

\* Whatever the order and the duplicates of mac80211's list r: the sort has
\* ended, and the fixed list is strictly decreasing, keeps every rate with its
\* tries up to 15, ends with the slowest one if there is room, and only the
\* first try may use the short guard interval.
Fixed(r) ==
    LET f == Fixup(r)
    IN  /\ Settled(Sorted(r))
        /\ \A i, j \in Slots : i < j => f[i].idx > f[j].idx \/ f[j].idx = -1
        /\ RateIndexes(f) = RateIndexes(r)
                \cup IF Cardinality(RateIndexes(r)) < 4 THEN {0} ELSE {}
        /\ \A x \in RateIndexes(r) : Tries(f, x) = AtMost(Tries(r, x), CountMax)
        /\ \A i \in Slots : f[i].sgi = (i = 1 /\ r[1].sgi)

\* The confirmation reports every try it counts, and none that was not made,
\* over the first rates of the fixed list f.
Filled(f) ==
    \A n \in 0 .. Total(f) :
        LET g == FillRates(f, n)
        IN  /\ Total(g) = n
            /\ \A i \in Slots : \/ g[i] = f[i]
                                \/ \A j \in Slots : j > i => g[j].idx = -1

\* Both hold for every list that is checked.
AllFixedUp == \A r \in Inputs : Fixed(r) /\ Filled(Fixup(r))
=============================================================================
