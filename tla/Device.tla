------------------------------- MODULE Device -------------------------------
(***************************************************************************)
(* The life of the device from wfx_probe on: the firmware is downloaded    *)
(* (FwUpload), it announces itself, the secure link is set up (SecureLink),*)
(* the configuration is sent and the interfaces are registered.  An error  *)
(* on the way ends the probe, except that of a secure link that the chip   *)
(* does not insist on.  Then the link lives on: commands, indications and  *)
(* renewals of the key.                                                    *)
(***************************************************************************)
EXTENDS FwUpload, SecureLink

VARIABLE linkMode       \* hw_caps.link_mode, of the startup indication

vars == <<fwVars, slVars, linkMode>>

\* Type correctness of every variable.
TypeOK ==
    /\ FwTypeOK
    /\ SlTypeOK
    /\ bootPc \in {"start", "upload", "put", "jumped", "slink", "exchange", "pds",
                   "subscribe", "register", "up", "failed"} \cup Turns
    /\ linkMode \in {"unknown", "SEC_LINK_UNAVAILABLE", "SEC_LINK_EVAL",
                     "SEC_LINK_ENFORCED"}

Init == FwInit /\ SlInit /\ linkMode = "unknown"

BootTo(from, to) == bootPc = from /\ bootPc' = to

\* hif_startup_indication completes firmware_ready in time.
Started ==
    /\ BootTo("jumped", "slink")
    /\ ncpStatus = "jumped"
    /\ linkMode' \in {"SEC_LINK_UNAVAILABLE", "SEC_LINK_EVAL", "SEC_LINK_ENFORCED"}
    /\ UNCHANGED <<hostVars, hostStatus, put, romVars, fifo, slVars>>

\* It does not, or its API is too old.
NotStarted ==
    /\ BootTo("jumped", "failed")
    /\ UNCHANGED <<hostVars, hostStatus, put, romVars, fifo, slVars, linkMode>>

\* wfx_sl_init: the first exchange of keys.
LinkStarts ==
    /\ BootTo("slink", "exchange")
    /\ linkMode # "SEC_LINK_UNAVAILABLE"
    /\ UNCHANGED renewWork
    /\ Exchange \/ ExchangeFails
    /\ UNCHANGED <<hostVars, hostStatus, put, romVars, fifo, linkMode>>

\* wfx_sl_init without an exchange: no key is given, the API is too old, or
\* the chip has no secure link; then or after the exchange, wfx_probe gives up
\* only on SEC_LINK_ENFORCED.  An exchange whose key cannot be set may end well.
LinkDone ==
    /\ bootPc \in {"slink", "exchange"}
    /\ bootPc = "exchange" => xPc = "idle"
    /\ \/ bootPc' = "pds" /\ (linkMode = "SEC_LINK_ENFORCED" => hostKey # 0)
       \/ bootPc' = "failed" /\ linkMode = "SEC_LINK_ENFORCED" /\ hostKey <= 0
    /\ UNCHANGED <<hostVars, hostStatus, put, romVars, fifo, slVars, linkMode>>

\* wfx_send_pdata_pds, irq_subscribe, and what registers the interfaces.
Configure ==
    /\ \/ BootTo("pds", "subscribe")
       \/ BootTo("subscribe", "register")
       \/ BootTo("register", "up")
    /\ UNCHANGED <<hostVars, hostStatus, put, romVars, fifo, slVars, linkMode>>

\* Each of these steps may fail.
ProbeFails ==
    /\ bootPc \in {"pds", "subscribe", "register"}
    /\ bootPc' = "failed"
    /\ UNCHANGED <<hostVars, hostStatus, put, romVars, fifo, slVars, linkMode>>

Boot == Started \/ NotStarted \/ LinkStarts \/ LinkDone \/ Configure \/ ProbeFails

\* The link is used from the configuration on.
LinkUsed == bootPc \in {"exchange", "pds", "subscribe", "register", "up"}

LinkNext ==
    /\ LinkUsed
    /\ \/ Bh \/ Waits \/ ChipLink
       \/ bootPc # "exchange" /\ (SendCmd \/ RenewKey)
    /\ UNCHANGED <<fwVars, linkMode>>

Next ==
    \/ FwNext /\ UNCHANGED <<slVars, linkMode>>
    \/ Boot
    \/ LinkNext

Spec == Init /\ [][Next]_vars

Linked(A) == LinkUsed /\ A /\ UNCHANGED <<fwVars, linkMode>>

\* The probe's thread, the bottom half and the work item run, every wait for the
\* chip ends by its timeout at the latest, and a mutex is fair.  Nothing is
\* assumed of the chip and of its boot loader.
FairSpec ==
    /\ Spec
    /\ WF_vars((HostBoots /\ UNCHANGED <<slVars, linkMode>>) \/ Boot)
    /\ WF_vars(Linked(Bh)) /\ WF_vars(Linked(Waits))
    /\ SF_vars(Linked(bootPc # "exchange" /\ RenewKey))

-----------------------------------------------------------------------------
\* The probe ends, whatever the boot loader and the chip do: every wait for
\* them has a timeout, that of wfx_cmd_send for hif_sl_send_pub_keys included.
ProbeEnds == <>(bootPc \in {"up", "failed"})

\* A counter that reaches the period is reset by a new key, unless an exchange
\* gives none: it is then not repeated before the other counter gets there.
KeyRenewed ==
    txSeq >= Period \/ rxSeq >= Period
       ~> (txSeq < Period /\ rxSeq < Period) \/ missed \/ exchanges = MaxKeys
              \/ bootPc = "failed"

=============================================================================
