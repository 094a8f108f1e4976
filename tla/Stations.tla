------------------------------ MODULE Stations ------------------------------
(***************************************************************************)
(* The two tables of indexes the driver keeps for the chip: the link ids of*)
(* the stations of an access point (wfx_sta_add, wfx_sta_remove) and the   *)
(* entries of the keys (wfx_set_key).  Each index is the first free bit of *)
(* a map.  mac80211 serialises the calls about stations, and conf_mutex    *)
(* those about keys, so an operation is one step.                          *)
(***************************************************************************)
EXTENDS Integers, FiniteSets

CONSTANTS
    Stas,           \* stations
    LinkIdMax,      \* HIF_LINK_ID_MAX
    Keys,           \* keys of mac80211
    MaxKeyEntries   \* MAX_KEY_ENTRIES

ASSUME StationsAssumption ==
    LinkIdMax \in Nat \ {0} /\ MaxKeyEntries \in Nat

VARIABLES
    linkId,         \* of each station; 0: none
    linkIdMap,      \* the bits that are set
    keyIdx,         \* hw_key_idx of each installed key; -1: not installed
    keyMap,         \* the bits that are set
    chipKeys        \* the key the chip has in each entry

staVars == <<linkId, linkIdMap>>
keyVars == <<keyIdx, keyMap, chipKeys>>

Entries == 0 .. MaxKeyEntries - 1
NoKey == "none"

StationsTypeOK ==
    /\ linkId \in [Stas -> Nat]
    /\ linkIdMap \in SUBSET Nat
    /\ keyIdx \in [Keys -> {-1} \cup Entries]
    /\ keyMap \in SUBSET Entries
    /\ chipKeys \in [Entries -> Keys \cup {NoKey}]

StationsInit ==
    /\ linkId = [s \in Stas |-> 0] /\ linkIdMap = {0}
    /\ keyIdx = [k \in Keys |-> -1] /\ keyMap = {}
    /\ chipKeys = [i \in Entries |-> NoKey]

\* ffz.
FirstFree(map) == CHOOSE i \in 0 .. Cardinality(map) :
                      i \notin map /\ \A j \in 0 .. i - 1 : j \in map

Added == {s \in Stas : linkId[s] # 0}

\* mac80211 adds at most max_ap_assoc_sta stations; the last of them may get
\* the id HIF_LINK_ID_MAX, of which the code only warns.
StaAdd(s) ==
    /\ linkId[s] = 0
    /\ Cardinality(Added) < LinkIdMax
    /\ linkId' = [linkId EXCEPT ![s] = FirstFree(linkIdMap)]
    /\ linkIdMap' = linkIdMap \cup {FirstFree(linkIdMap)}
    /\ UNCHANGED keyVars

StaRemove(s) ==
    /\ linkId[s] # 0
    /\ linkIdMap' = linkIdMap \ {linkId[s]}
    /\ linkId' = [linkId EXCEPT ![s] = 0]
    /\ UNCHANGED keyVars

\* wfx_add_key, with room in the table, and the chip accepts or refuses.
KeyAdd(k) ==
    /\ keyIdx[k] = -1
    /\ FirstFree(keyMap) < MaxKeyEntries
    /\ \/ /\ keyIdx' = [keyIdx EXCEPT ![k] = FirstFree(keyMap)]
          /\ keyMap' = keyMap \cup {FirstFree(keyMap)}
          /\ chipKeys' = [chipKeys EXCEPT ![FirstFree(keyMap)] = k]
       \/ UNCHANGED keyVars
    /\ UNCHANGED staVars

\* Mutant of KeyRemove: the chip is told of another entry.
KeyRemoveFirst(k) ==
    /\ keyIdx[k] # -1
    /\ keyMap' = keyMap \ {keyIdx[k]}
    /\ keyIdx' = [keyIdx EXCEPT ![k] = -1]
    /\ chipKeys' = [chipKeys EXCEPT ![0] = NoKey]
    /\ UNCHANGED staVars

\* wfx_remove_key: the entry is freed even if the chip keeps the key.
KeyRemove(k) ==
    /\ keyIdx[k] # -1
    /\ keyMap' = keyMap \ {keyIdx[k]}
    /\ keyIdx' = [keyIdx EXCEPT ![k] = -1]
    /\ chipKeys' \in {chipKeys, [chipKeys EXCEPT ![keyIdx[k]] = NoKey]}
    /\ UNCHANGED staVars

StationsNext ==
    \/ \E s \in Stas : StaAdd(s) \/ StaRemove(s)
    \/ \E k \in Keys : KeyAdd(k) \/ KeyRemove(k)

\* Every station and every key has an index of its own, whose bit is set, and
\* no other bit is; an installed key is what the chip has in its entry, after
\* any sequence of additions, refusals and removals.
IndexesOwned ==
    /\ linkIdMap = {0} \cup {linkId[s] : s \in Added}
    /\ \A s, t \in Added : linkId[s] = linkId[t] => s = t
    /\ keyMap = {keyIdx[k] : k \in Keys} \ {-1}
    /\ \A k \in Keys : keyIdx[k] # -1 => chipKeys[keyIdx[k]] = k
=============================================================================
