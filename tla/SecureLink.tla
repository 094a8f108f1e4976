----------------------------- MODULE SecureLink -----------------------------
(***************************************************************************)
(* The keys of the secure link (secure_link.c).  A key is the number of the*)
(* exchange it comes from.  wfx_sl_key_exchange sends a public key and     *)
(* waits for the chip's; the reception of that one (wfx_sl_check_pubkey)   *)
(* computes the key, puts both sequence numbers to 0 and completes         *)
(* key_renew_done, which nothing reinitialises.  The numbers are the       *)
(* nonces: the message that makes one equal to slk_renew_period schedules a*)
(* renewal, once.                                                          *)
(*                                                                         *)
(* The locks of wfx_cmd_send and wfx_sl_renew_key are those of HifCmd: no  *)
(* command between the two halves of an exchange.  The chip changes keys   *)
(* when it sends its public key; it may also refuse, say nothing, send one *)
(* that does not verify, or be slower than any timeout.  The host may fail *)
(* to compute a key that the chip already uses: the chip alone has changed *)
(* keys then.  Data frames are not encrypted (sl_commands).                *)
(***************************************************************************)
EXTENDS Integers, Sequences, SequencesExt

CONSTANTS
    Period,         \* slk_renew_period
    HdrMod,         \* 2^30, the numbers of the header of a message
    CtrMod,         \* 2^32, the numbers of the host's counters
    MaxQueue,       \* messages the chip keeps for the host
    MaxKeys,        \* bound: exchanges
    MaxCmds,        \* bound: commands
    MaxInds         \* bound: indications

\* With the default period, 2^29, the chip may keep as many messages.
ASSUME SlAssumption ==
    /\ Period \in Nat \ {0} /\ MaxQueue \in Nat \ {0, 1}
    /\ HdrMod \in Nat /\ CtrMod \in Nat
    /\ Period + MaxQueue <= HdrMod /\ HdrMod <= CtrMod
    /\ MaxKeys \in Nat /\ MaxCmds \in Nat /\ MaxInds \in Nat

VARIABLES
    hostKey,        \* ccm_ctxt; 0: none, negative: one the chip does not have
    txSeq, rxSeq,   \* tx_seqnum, rx_seqnum
    ecdh,           \* edch_ctxt: the exchange it belongs to; 0: freed
    renewWork,      \* key_renew_work is queued
    renewDone,      \* the completion key_renew_done
    xPc,            \* where wfx_sl_key_exchange is
    command,        \* a command holds key_renew_lock
    frozen,         \* chip_frozen
    toChip, toHost, \* messages on their way
    chipKey, chipTx,            \* the chip's key and sequence number
    exchanges, cmds, inds,      \* counts
    apart,          \* the host did not take the chip's last key
    missed,         \* an exchange gave no key since the host took one
    sent            \* the keys and nonces of all messages encoded

hostKeyVars == <<hostKey, txSeq, rxSeq>>
renewVars   == <<ecdh, renewWork, renewDone, xPc>>
cmdVars     == <<command, frozen>>
chipKeyVars == <<chipKey, chipTx>>
slCounts    == <<exchanges, cmds, inds>>
slVars == <<hostKeyVars, renewVars, cmdVars, toChip, toHost, chipKeyVars,
            slCounts, apart, missed, sent>>

\* The key and the number that a message is encoded with.  Those the chip does
\* not encode stand for its key and its next number when it sent them; a public
\* key stands for the key it gives, whose numbers start at 0.
Encoded == {"cnf", "ind"}
Messages == [kind : Encoded \cup {"cmd", "pub", "bad", "asked", "refused"},
             key : Int, seq : Nat]

SlTypeOK ==
    /\ hostKey \in Int /\ chipKey \in Nat
    /\ txSeq \in 0 .. CtrMod - 1 /\ rxSeq \in 0 .. CtrMod - 1
    /\ chipTx \in 0 .. HdrMod - 1
    /\ ecdh \in 0 .. MaxKeys
    /\ renewWork \in BOOLEAN
    /\ renewDone \in Nat
    /\ xPc \in {"idle", "ask", "wait"}
    /\ command \in BOOLEAN /\ frozen \in BOOLEAN
    /\ toChip \in Seq(Messages) /\ toHost \in Seq(Messages)
    /\ exchanges \in 0 .. MaxKeys
    /\ cmds \in 0 .. MaxCmds /\ inds \in 0 .. MaxInds
    /\ apart \in BOOLEAN /\ missed \in BOOLEAN
    /\ sent \in SUBSET ({"host", "chip"} \X Int \X Nat)

SlInit ==
    /\ hostKey = 0 /\ txSeq = 0 /\ rxSeq = 0
    /\ ecdh = 0 /\ renewWork = FALSE /\ renewDone = 0 /\ xPc = "idle"
    /\ command = FALSE /\ frozen = FALSE
    /\ toChip = <<>> /\ toHost = <<>>
    /\ chipKey = 0 /\ chipTx = 0
    /\ exchanges = 0 /\ cmds = 0 /\ inds = 0
    /\ apart = FALSE /\ missed = FALSE
    /\ sent = {}

Message(kind, key, seq) == [kind |-> kind, key |-> key, seq |-> seq]

-----------------------------------------------------------------------------
(* Commands *)

\* wfx_sl_encode: the header holds 30 bits of the number, the nonce all of it.
Encode ==
    /\ toChip' = Append(toChip, Message("cmd", hostKey, txSeq % HdrMod))
    /\ sent' = sent \cup {<<"host", hostKey, txSeq>>}
    /\ txSeq' = (txSeq + 1) % CtrMod
    /\ renewWork' = (renewWork \/ txSeq' = Period)

\* Mutant of SendCmd: an exchange does not keep commands out.
SendCmdAnytime ==
    /\ hostKey # 0 /\ ~command /\ ~frozen
    /\ cmds < MaxCmds /\ cmds' = cmds + 1
    /\ command' = TRUE
    /\ Encode
    /\ UNCHANGED <<hostKey, rxSeq, ecdh, renewDone, xPc, frozen, toHost,
                   chipKeyVars, exchanges, inds, apart, missed>>

\* wfx_cmd_send and the bottom half's tx_helper.
SendCmd ==
    /\ hostKey # 0 /\ ~command /\ ~frozen /\ xPc = "idle"
    /\ cmds < MaxCmds /\ cmds' = cmds + 1
    /\ command' = TRUE
    /\ Encode
    /\ UNCHANGED <<hostKey, rxSeq, ecdh, renewDone, xPc, frozen, toHost,
                   chipKeyVars, exchanges, inds, apart, missed>>

\* wfx_cmd_send gives up: no command is sent any more.
CommandTimesOut ==
    /\ command
    /\ command' = FALSE
    /\ frozen' = TRUE
    /\ UNCHANGED <<hostKeyVars, renewVars, toChip, toHost, chipKeyVars, slCounts,
                   apart, missed, sent>>

\* Mutant of Decode: the reception does not watch the period.
DecodeBlind(m) ==
    /\ rxSeq' = (m.seq + 1) % CtrMod
    /\ UNCHANGED renewWork

\* wfx_sl_decode: the number is that of the message, whether expected or not.
Decode(m) ==
    /\ rxSeq' = (m.seq + 1) % CtrMod
    /\ renewWork' = (renewWork \/ rxSeq' = Period)

\* rx_helper, for a confirmation or an indication; it drops a message encoded
\* with another key.
Receive ==
    /\ toHost # <<>> /\ Head(toHost).kind \in Encoded
    /\ toHost' = Tail(toHost)
    /\ Decode(Head(toHost))
    /\ command' = (command /\ ~(Head(toHost).kind = "cnf"
                                  /\ Head(toHost).key = hostKey))
    /\ UNCHANGED <<hostKey, txSeq, ecdh, renewDone, xPc, frozen, toChip,
                   chipKeyVars, slCounts, apart, missed, sent>>

-----------------------------------------------------------------------------
(* The exchange of keys *)

\* wfx_sl_key_exchange, up to hif_sl_send_pub_keys.
Exchange ==
    /\ ~command /\ xPc = "idle" /\ ~frozen
    /\ exchanges < MaxKeys
    /\ exchanges' = exchanges + 1
    /\ ecdh' = exchanges + 1
    /\ toChip' = Append(toChip, Message("pub", exchanges + 1, 0))
    /\ xPc' = "ask"
    /\ UNCHANGED <<hostKeyVars, renewDone, cmdVars, toHost, chipKeyVars,
                   cmds, inds, apart, missed, sent>>

\* It fails before: it computes no key to send, or the chip is frozen.
ExchangeFails ==
    /\ ~command /\ xPc = "idle"
    /\ missed' = TRUE
    /\ UNCHANGED <<hostKeyVars, ecdh, renewDone, xPc, cmdVars, toChip, toHost,
                   chipKeyVars, slCounts, apart, sent>>

\* wfx_sl_renew_key.
RenewKey ==
    /\ renewWork
    /\ renewWork' = FALSE
    /\ Exchange \/ ExchangeFails

\* wfx_sl_key_exchange ends without a key.
GivesUp ==
    /\ xPc' = "idle" /\ ecdh' = 0
    /\ missed' = TRUE

\* The confirmation of hif_sl_send_pub_keys, dropped if nobody waits for it.
PubKeyConfirmed ==
    /\ toHost # <<>> /\ Head(toHost).kind \in {"asked", "refused"}
    /\ toHost' = Tail(toHost)
    /\ \/ xPc # "ask" /\ UNCHANGED <<xPc, ecdh, missed>>
       \/ /\ xPc = "ask" /\ Head(toHost).kind = "asked"
          /\ xPc' = "wait" /\ UNCHANGED <<ecdh, missed>>
       \/ xPc = "ask" /\ Head(toHost).kind = "refused" /\ GivesUp
    /\ UNCHANGED <<hostKeyVars, renewWork, renewDone, cmdVars, toChip,
                   chipKeyVars, slCounts, apart, sent>>

\* Mutant of PubKeyTimesOut: hif_sl_send_pub_keys waits without a timeout.
PubKeyWaits == xPc = "none" /\ UNCHANGED slVars

\* wfx_cmd_send gives up on hif_sl_send_pub_keys.
PubKeyTimesOut ==
    /\ xPc = "ask"
    /\ GivesUp
    /\ frozen' = TRUE
    /\ UNCHANGED <<hostKeyVars, renewWork, renewDone, command, toChip, toHost,
                   chipKeyVars, slCounts, apart, sent>>

\* Mutant of Discards: the numbers are reset before the key is verified.
DiscardsReset ==
    /\ txSeq' = 0 /\ rxSeq' = 0 /\ UNCHANGED hostKey
    /\ missed' = TRUE
    /\ apart' = (apart \/ Head(toHost).kind = "pub")

\* wfx_sl_check_pubkey.  A key that does not verify changes nothing, nor does
\* one that finds edch_ctxt freed, nor one for which a computation fails.
Discards ==
    /\ UNCHANGED hostKeyVars
    /\ missed' = TRUE
    /\ apart' = (apart \/ Head(toHost).kind = "pub")

\* The key is set, of use if it belongs to this exchange and mbedtls_ccm_setkey
\* does not fail; else it is one that the chip does not have.
Takes ==
    /\ Head(toHost).kind = "pub" /\ ecdh # 0
    /\ txSeq' = 0 /\ rxSeq' = 0
    /\ \/ /\ Head(toHost).key = ecdh /\ hostKey' = ecdh
          /\ missed' = FALSE /\ apart' = FALSE
       \/ /\ hostKey' = -ecdh
          /\ missed' = TRUE /\ apart' = TRUE

CheckPubkey ==
    /\ toHost # <<>> /\ Head(toHost).kind \in {"pub", "bad"}
    /\ toHost' = Tail(toHost)
    /\ renewDone' = renewDone + 1
    /\ Discards \/ Takes
    /\ UNCHANGED <<ecdh, renewWork, xPc, cmdVars, toChip, chipKeyVars, slCounts,
                   sent>>

\* The wait for key_renew_done ends, perhaps thanks to the key of an exchange
\* before.
Exchanged ==
    /\ xPc = "wait"
    /\ renewDone > 0
    /\ renewDone' = renewDone - 1
    /\ ecdh' = 0
    /\ xPc' = "idle"
    /\ missed' = (missed \/ hostKey # ecdh)
    /\ UNCHANGED <<hostKeyVars, renewWork, cmdVars, toChip, toHost, chipKeyVars,
                   slCounts, apart, sent>>

\* It times out, be the chip's key on its way or not.
ExchangeTimesOut ==
    /\ xPc = "wait"
    /\ renewDone = 0
    /\ GivesUp
    /\ UNCHANGED <<hostKeyVars, renewWork, renewDone, cmdVars, toChip, toHost,
                   chipKeyVars, slCounts, apart, sent>>

-----------------------------------------------------------------------------
(* The chip *)

HasRoomForHost(n) == Len(toHost) + n <= MaxQueue

ChipEncodes(kind) ==
    /\ HasRoomForHost(1)
    /\ toHost' = Append(toHost, Message(kind, chipKey, chipTx))
    /\ sent' = sent \cup {<<"chip", chipKey, chipTx>>}
    /\ chipTx' = (chipTx + 1) % HdrMod

\* A command encoded with another key is never answered.
ChipConfirms ==
    /\ toChip # <<>> /\ Head(toChip).kind = "cmd" /\ Head(toChip).key = chipKey
    /\ toChip' = Tail(toChip)
    /\ ChipEncodes("cnf")
    /\ UNCHANGED <<hostKeyVars, renewVars, cmdVars, chipKey, slCounts, apart,
                   missed>>

ChipReports ==
    /\ chipKey # 0 /\ inds < MaxInds
    /\ inds' = inds + 1
    /\ ChipEncodes("ind")
    /\ UNCHANGED <<hostKeyVars, renewVars, cmdVars, toChip, chipKey, exchanges,
                   cmds, apart, missed>>

\* The public key of the host: the chip confirms, and answers with its own and
\* changes keys, or with one that does not verify, or with nothing; or it
\* refuses.
ChipExchanges ==
    /\ toChip # <<>> /\ Head(toChip).kind = "pub"
    /\ toChip' = Tail(toChip)
    /\ HasRoomForHost(2)
    /\ LET Say(kind) == Message(kind, chipKey, chipTx)
           asked == Append(toHost, Say("asked"))
           k == Head(toChip).key
       IN \/ /\ toHost' = Append(asked, Message("pub", k, 0))
             /\ chipKey' = k /\ chipTx' = 0
          \/ /\ toHost' \in {Append(asked, Say("bad")), asked,
                            Append(toHost, Say("refused"))}
             /\ UNCHANGED chipKeyVars
    /\ UNCHANGED <<hostKeyVars, renewVars, cmdVars, slCounts, apart, missed, sent>>

Bh == Receive \/ PubKeyConfirmed \/ CheckPubkey
Waits == CommandTimesOut \/ PubKeyTimesOut \/ Exchanged \/ ExchangeTimesOut
ChipLink == ChipConfirms \/ ChipReports \/ ChipExchanges
SlNext == SendCmd \/ RenewKey \/ Bh \/ Waits \/ ChipLink

-----------------------------------------------------------------------------
\* Every message is decoded with the key it was encoded with, in sequence
\* ("wrong encrypted message sequence"), although the two sides change keys at
\* different times and messages are under way in both directions; the chip's
\* numbers have 30 bits, and the host's counter reaches 2^30 before them.  Only
\* when the host has handled a key of the chip and not taken it, the two sides
\* are apart; the next key that it takes brings them together again.
SameKey ==
    ~apart =>
       /\ toHost # <<>> /\ Head(toHost).kind \in Encoded =>
             Head(toHost).key = hostKey /\ Head(toHost).seq = rxSeq % HdrMod
       /\ (\A m \in ToSet(toHost) : m.kind # "pub") =>
             \A m \in ToSet(toChip) : m.kind = "cmd" => m.key = chipKey

\* The present key must be replaced: the renewal is queued, or has no key yet,
\* or ended without one.
Overdue == missed \/ renewWork \/ (xPc # "idle" /\ hostKey # ecdh)

\* All numbers have been used with the present key.
HostExhausted == \A n \in 0 .. CtrMod - 1 : <<"host", hostKey, n>> \in sent
ChipExhausted == \A n \in 0 .. HdrMod - 1 : <<"chip", chipKey, n>> \in sent

\* No side encodes two messages with the same key and the same number, a nonce
\* is never used twice, unless all numbers have been used with the key: 2^32 by
\* the host, 2^30 by the chip.  That takes a renewal long overdue, for it is
\* scheduled once and nothing stops the messages until one succeeds.
NonceFresh ==
    [][/\ /\ Len(toChip') > Len(toChip) /\ Last(toChip').kind = "cmd"
          /\ <<"host", hostKey, txSeq>> \in sent
          => Overdue /\ HostExhausted
       /\ /\ Len(toHost') > Len(toHost) /\ Last(toHost').kind \in Encoded
          /\ <<"chip", chipKey, chipTx>> \in sent
          => Overdue /\ ChipExhausted]_slVars
=============================================================================
