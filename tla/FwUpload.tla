------------------------------ MODULE FwUpload ------------------------------
(***************************************************************************)
(* The download of the firmware (load_firmware_secure, upload_firmware).   *)
(* Host and boot loader talk through two status words, in turns, and the   *)
(* image goes through a FIFO of the chip: the host writes a block and then *)
(* moves WFX_DCA_PUT, the chip reads up to there and moves WFX_DCA_GET,    *)
(* which the host reads only when it believes the FIFO full.               *)
(*                                                                         *)
(* Sizes and offsets count blocks.  The result of most operations is       *)
(* tested and ends the boot; that of a write of WFX_DCA_HOST_STATUS is not,*)
(* so it may be lost.  The chip's side is what the handshake expects of it.*)
(***************************************************************************)
EXTENDS Integers

CONSTANTS
    Blocks,         \* size of the image
    Fifo            \* DNLD_FIFO_SIZE

ASSUME FwAssumption == Blocks \in Nat /\ Fifo \in Nat \ {0}

VARIABLES
    bootPc,         \* where the boot is
    offs,           \* blocks written: offs
    bytesDone,      \* the last value read of WFX_DCA_GET: bytes_done
    hostStatus, put,            \* registers the host writes
    ncpStatus, get,             \* registers the chip writes
    fifo,           \* the number of the block in each place; -1: none
    intact          \* every block the chip has read was the one it expected

hostVars == <<offs, bytesDone>>
romVars  == <<ncpStatus, get, intact>>
fwVars   == <<bootPc, hostVars, hostStatus, put, romVars, fifo>>

\* The turns of the handshake: what the host waits for, what it writes then.
Expects ==
    [info    |-> "NCP_INFO_READY",       ready |-> "NCP_READY",
     pending |-> "NCP_DOWNLOAD_PENDING", auth  |-> "NCP_AUTH_OK",
     legacy  |-> "NCP_PUB_KEY_RDY"]
Turns == DOMAIN Expects
Says ==
    [info |-> "HOST_INFO_READ", ready  |-> "HOST_UPLOAD_PENDING",
     auth |-> "HOST_OK_TO_JUMP", legacy |-> "HOST_OK_TO_JUMP"]
Then ==
    [info    |-> "ready",  ready |-> "pending",
     pending |-> "upload", auth  |-> "jumped", legacy |-> "jumped"]

FwTypeOK ==
    /\ offs \in 0 .. Blocks
    /\ bytesDone \in 0 .. Blocks
    /\ hostStatus \in {"none", "HOST_READY", "HOST_UPLOAD_COMPLETE"}
                        \cup {Says[t] : t \in DOMAIN Says}
    /\ put \in 0 .. Blocks
    /\ ncpStatus \in {"NCP_NOT_READY", "NCP_AUTH_FAIL", "jumped"}
                        \cup {Expects[t] : t \in Turns}
    /\ get \in 0 .. Blocks
    /\ fifo \in [0 .. Fifo - 1 -> -1 .. Blocks - 1]
    /\ intact \in BOOLEAN

FwInit ==
    /\ bootPc = "start"
    /\ offs = 0 /\ bytesDone = 0
    /\ hostStatus = "none" /\ put = 0
    /\ ncpStatus = "NCP_NOT_READY" /\ get = 0
    /\ fifo = [i \in 0 .. Fifo - 1 |-> -1]
    /\ intact = TRUE

-----------------------------------------------------------------------------
(* The host *)

\* sram_reg_write(WFX_DCA_HOST_STATUS, s), which may fail unseen.
Tell(s) == hostStatus' \in {s, hostStatus}

BootStarts ==
    /\ bootPc = "start"
    /\ bootPc' = "info"
    /\ Tell("HOST_READY")
    /\ UNCHANGED <<hostVars, put, romVars, fifo>>

\* wait_ncp_status finds the status it waits for.
Answered ==
    /\ bootPc \in Turns
    /\ ncpStatus = Expects[bootPc]
    /\ bootPc' = Then[bootPc]
    /\ IF bootPc \in DOMAIN Says THEN Tell(Says[bootPc]) ELSE UNCHANGED hostStatus
    /\ UNCHANGED <<hostVars, put, romVars, fifo>>

\* It has not after DCA_TIMEOUT, or a read fails.  An older boot loader gives
\* another status at the end.
NotAnswered ==
    /\ bootPc \in Turns
    /\ bootPc' = IF bootPc = "auth" THEN "legacy" ELSE "failed"
    /\ UNCHANGED <<hostVars, hostStatus, put, romVars, fifo>>

\* Mutant of HasRoom: what is left to read is counted two blocks too low.
HasRoomLax == offs - bytesDone <= Fifo

HasRoom == offs + 1 - bytesDone < Fifo

\* upload_firmware: the FIFO may be full, WFX_DCA_GET tells.
PollGet ==
    /\ bootPc = "upload" /\ offs < Blocks
    /\ ~HasRoom
    /\ bytesDone' = get
    /\ UNCHANGED <<bootPc, offs, hostStatus, put, romVars, fifo>>

WriteBlock ==
    /\ bootPc = "upload" /\ offs < Blocks
    /\ HasRoom
    /\ fifo' = [fifo EXCEPT ![offs % Fifo] = offs]
    /\ bootPc' = "put"
    /\ UNCHANGED <<hostVars, hostStatus, put, romVars>>

PutBlock ==
    /\ bootPc = "put"
    /\ offs' = offs + 1
    /\ put' = offs + 1
    /\ bootPc' = "upload"
    /\ UNCHANGED <<bytesDone, hostStatus, romVars, fifo>>

Uploaded ==
    /\ bootPc = "upload" /\ offs = Blocks
    /\ bootPc' = "auth"
    /\ Tell("HOST_UPLOAD_COMPLETE")
    /\ UNCHANGED <<hostVars, put, romVars, fifo>>

\* A bus error, or DCA_TIMEOUT while the FIFO is full.
UploadFails ==
    /\ bootPc \in {"start", "upload", "put"}
    /\ bootPc' = "failed"
    /\ UNCHANGED <<hostVars, hostStatus, put, romVars, fifo>>

-----------------------------------------------------------------------------
(* The boot loader *)

RomTurn(s, n) == hostStatus = s /\ ncpStatus = n

RomAnswers ==
    /\ \/ /\ RomTurn("HOST_READY", "NCP_NOT_READY")
          /\ ncpStatus' = "NCP_INFO_READY"
       \/ /\ RomTurn("HOST_INFO_READ", "NCP_INFO_READY")
          /\ ncpStatus' = "NCP_READY"
       \/ /\ RomTurn("HOST_UPLOAD_PENDING", "NCP_READY")
          /\ ncpStatus' = "NCP_DOWNLOAD_PENDING"
       \/ /\ RomTurn("HOST_UPLOAD_COMPLETE", "NCP_DOWNLOAD_PENDING")
          /\ get = Blocks
          /\ ncpStatus' \in {"NCP_AUTH_FAIL"}
                \cup IF intact THEN {"NCP_AUTH_OK", "NCP_PUB_KEY_RDY"} ELSE {}
       \/ /\ hostStatus = "HOST_OK_TO_JUMP"
          /\ ncpStatus \in {"NCP_AUTH_OK", "NCP_PUB_KEY_RDY"}
          /\ ncpStatus' = "jumped"
    /\ UNCHANGED <<bootPc, hostVars, hostStatus, put, get, intact, fifo>>

RomReads ==
    /\ ncpStatus = "NCP_DOWNLOAD_PENDING"
    /\ get < put
    /\ intact' = (intact /\ fifo[get % Fifo] = get)
    /\ get' = get + 1
    /\ UNCHANGED <<bootPc, hostVars, hostStatus, put, ncpStatus, fifo>>

HostBoots == BootStarts \/ Answered \/ NotAnswered \/ PollGet \/ WriteBlock
               \/ PutBlock \/ Uploaded \/ UploadFails
Rom == RomAnswers \/ RomReads
FwNext == HostBoots \/ Rom

-----------------------------------------------------------------------------
\* What the chip has not read is still in the FIFO, block by block, although
\* the host writes the block to come before it moves WFX_DCA_PUT and knows
\* only an old value of WFX_DCA_GET; and what it has read was right.
BlocksIntact ==
    /\ intact
    /\ \A i \in get .. put - 1 : fifo[i % Fifo] = i
=============================================================================
