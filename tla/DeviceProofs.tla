---------------------------- MODULE DeviceProofs ----------------------------
(***************************************************************************)
(* Theorems about Device: the download of the firmware, for any size of    *)
(* the image and of the FIFO, and the keys and nonces of the secure link,  *)
(* for any number of messages and renewals.                                *)
(***************************************************************************)
EXTENDS Device, SequenceTheorems, TLAPS

-----------------------------------------------------------------------------
(* The download *)

\* Places of a ring of n are told apart by less than n steps.
LEMMA RingPlace ==
  ASSUME NEW n \in Nat \ {0}, NEW i \in Nat
  PROVE  i % n \in 0 .. n - 1
OBVIOUS

LEMMA RingTurn ==
  ASSUME NEW n \in Nat \ {0}, NEW i \in Nat
  PROVE  i = n * (i \div n) + (i % n) /\ i \div n \in Nat
OBVIOUS

LEMMA RingDiffers ==
  ASSUME NEW n \in Nat \ {0}, NEW i \in Nat, NEW j \in Nat, i < j, j - i < n
  PROVE  i % n # j % n
<1>. DEFINE a == i \div n
            b == j \div n
<1>1. i = n * a + (i % n) /\ a \in Nat
  BY RingTurn
<1>2. j = n * b + (j % n) /\ b \in Nat
  BY RingTurn
<1>3. i % n \in Nat /\ j % n \in Nat
  BY RingPlace
<1>. HIDE DEF a, b
<1>. SUFFICES ASSUME i % n = j % n PROVE FALSE
  OBVIOUS
<1>4. j - i = n * b - n * a
  BY <1>1, <1>2, <1>3
<1>5. CASE b <= a
  <2>1. n * b <= n * a
    BY <1>5, <1>1, <1>2
  <2>. QED  BY <2>1, <1>4, <1>1, <1>2
<1>6. CASE a + 1 <= b
  <2>1. n * (a + 1) <= n * b /\ n * (a + 1) = n * a + n
    BY <1>6, <1>1, <1>2
  <2>. QED  BY <2>1, <1>4, <1>1, <1>2
<1>. QED  BY <1>5, <1>6, <1>1, <1>2

\* The two pointers move behind the host's offset, and never a whole FIFO
\* apart: what the host knows of WFX_DCA_GET is old, not wrong.
Pointers ==
    /\ put = offs
    /\ bytesDone <= get /\ get <= put
    /\ offs - bytesDone < Fifo

\* A block that is written but not announced lies beside what is announced.
Written ==
    bootPc = "put" => /\ offs < Blocks /\ HasRoom
                      /\ fifo[offs % Fifo] = offs

UploadInv == FwTypeOK /\ Pointers /\ Written /\ BlocksIntact

\* Every step of the host and of the boot loader keeps the blocks.
LEMMA FwNextKeeps ==
  ASSUME UploadInv, FwNext
  PROVE  UploadInv'
<1>. USE FwAssumption DEF UploadInv, hostVars, romVars
<1>0. /\ offs \in Nat /\ bytesDone \in Nat /\ put \in Nat /\ get \in Nat
      /\ Blocks \in Nat /\ Fifo \in Nat \ {0}
  BY DEF FwTypeOK
<1>1. CASE BootStarts \/ Answered \/ NotAnswered \/ Uploaded \/ UploadFails
  <2>1. /\ UNCHANGED <<offs, bytesDone, put, ncpStatus, get, intact, fifo>>
        /\ bootPc' # "put"
    BY <1>1 DEF BootStarts, Answered, NotAnswered, Uploaded, UploadFails, Then,
                Turns, Expects
  <2>2. hostStatus' \in {"none", "HOST_READY", "HOST_UPLOAD_COMPLETE"}
                          \cup {Says[t] : t \in DOMAIN Says}
    BY <1>1 DEF BootStarts, Answered, NotAnswered, Uploaded, UploadFails, Tell,
                FwTypeOK
  <2>. QED  BY <2>1, <2>2 DEF FwTypeOK, Pointers, Written, BlocksIntact
<1>2. CASE PollGet
  BY <1>0, <1>2 DEF PollGet, FwTypeOK, Pointers, Written, BlocksIntact
<1>3. CASE WriteBlock
  <2>1. /\ bootPc = "upload" /\ offs < Blocks /\ HasRoom
        /\ fifo' = [fifo EXCEPT ![offs % Fifo] = offs] /\ bootPc' = "put"
        /\ UNCHANGED <<offs, bytesDone, hostStatus, put, ncpStatus, get, intact>>
    BY <1>3 DEF WriteBlock
  <2>2. offs % Fifo \in 0 .. Fifo - 1
    BY <1>0, RingPlace
  <2>3. fifo' \in [0 .. Fifo - 1 -> -1 .. Blocks - 1] /\ fifo'[offs % Fifo] = offs
    BY <1>0, <2>1, <2>2 DEF FwTypeOK
  <2>4. ASSUME NEW i \in get .. put - 1
        PROVE  fifo'[i % Fifo] = i
    <3>1. i \in Nat /\ i < offs /\ offs - i < Fifo
      BY <1>0, <2>1 DEF Pointers, HasRoom
    <3>2. i % Fifo # offs % Fifo /\ i % Fifo \in 0 .. Fifo - 1
      BY <1>0, <3>1, RingDiffers, RingPlace
    <3>. QED  BY <2>1, <3>2 DEF BlocksIntact, FwTypeOK
  <2>. QED  BY <2>1, <2>3, <2>4 DEF FwTypeOK, Pointers, Written, HasRoom,
                                    BlocksIntact
<1>4. CASE PutBlock
  <2>1. /\ bootPc = "put" /\ bootPc' = "upload"
        /\ offs' = offs + 1 /\ put' = offs + 1
        /\ UNCHANGED <<bytesDone, hostStatus, ncpStatus, get, intact, fifo>>
    BY <1>4 DEF PutBlock
  <2>2. \A i \in get .. put' - 1 : fifo[i % Fifo] = i
    BY <1>0, <2>1 DEF Pointers, Written, BlocksIntact
  <2>. QED  BY <1>0, <2>1, <2>2 DEF FwTypeOK, Pointers, Written, HasRoom,
                                    BlocksIntact
<1>5. CASE RomAnswers
  <2>1. ncpStatus' \in {"NCP_NOT_READY", "NCP_AUTH_FAIL", "jumped"}
                         \cup {Expects[t] : t \in Turns}
    BY <1>5 DEF RomAnswers, Expects, Turns
  <2>2. UNCHANGED <<bootPc, offs, bytesDone, hostStatus, put, get, intact, fifo>>
    BY <1>5 DEF RomAnswers
  <2>. QED  BY <2>1, <2>2 DEF FwTypeOK, Pointers, Written, HasRoom, BlocksIntact
<1>6. CASE RomReads
  <2>1. /\ get < put /\ intact' = (intact /\ fifo[get % Fifo] = get)
        /\ get' = get + 1
        /\ UNCHANGED <<bootPc, offs, bytesDone, hostStatus, put, ncpStatus, fifo>>
    BY <1>6 DEF RomReads
  <2>2. fifo[get % Fifo] = get /\ intact
    BY <1>0, <2>1 DEF BlocksIntact
  <2>3. intact' /\ intact' \in BOOLEAN
    BY <2>1, <2>2
  <2>4. get' \in 0 .. Blocks /\ get' <= put /\ bytesDone <= get'
    BY <1>0, <2>1 DEF FwTypeOK, Pointers
  <2>5. \A i \in get' .. put - 1 : fifo[i % Fifo] = i
    BY <1>0, <2>1 DEF BlocksIntact
  <2>. QED  BY <2>1, <2>3, <2>4, <2>5 DEF FwTypeOK, Pointers, Written, HasRoom,
                                          BlocksIntact
<1>. QED
  BY <1>1, <1>2, <1>3, <1>4, <1>5, <1>6 DEF FwNext, HostBoots, Rom

\* The rest of the probe leaves the download alone.
LEMMA UploadNext ==
  ASSUME UploadInv, [Next]_vars
  PROVE  UploadInv'
<1>1. CASE FwNext
  BY <1>1, FwNextKeeps
<1>2. CASE Boot \/ LinkNext \/ UNCHANGED vars
  <2>1. UNCHANGED <<hostVars, hostStatus, put, romVars, fifo>>
    BY <1>2 DEF Boot, Started, NotStarted, LinkStarts, LinkDone, Configure,
                ProbeFails, BootTo, LinkNext, vars, fwVars
  <2>2. bootPc' = "put" => bootPc = "put"
    BY <1>2 DEF Boot, Started, NotStarted, LinkStarts, LinkDone, Configure,
                ProbeFails, BootTo, LinkNext, vars, fwVars
  <2>. QED  BY <2>1, <2>2 DEF UploadInv, FwTypeOK, Pointers, Written, HasRoom,
                              BlocksIntact, hostVars, romVars
<1>. QED  BY <1>1, <1>2 DEF Next

\* However the blocks and the two pointers interleave, the boot loader reads
\* every block of the image in its place.
THEOREM UploadIntact == Spec => []BlocksIntact
<1>1. Init => UploadInv
  BY FwAssumption
     DEF Init, FwInit, UploadInv, FwTypeOK, Pointers, Written, BlocksIntact
<1>2. UploadInv /\ [Next]_vars => UploadInv'
  BY UploadNext
<1>3. UploadInv => BlocksIntact
  BY DEF UploadInv
<1>. QED  BY <1>1, <1>2, <1>3, PTL DEF Spec

-----------------------------------------------------------------------------
(* Numbers and queues *)

LEMMA ModSmall ==
  ASSUME NEW n \in Nat, NEW x \in Nat, x < n
  PROVE  x % n = x
<1>. DEFINE q == x \div n
<1>1. n \in Nat \ {0}
  OBVIOUS
<1>2. x = n * q + (x % n) /\ q \in Nat /\ x % n \in Nat
  BY <1>1, RingTurn, RingPlace
<1>. HIDE DEF q
<1>3. CASE q >= 1
  <2>1. n * q >= n * 1
    BY <1>2, <1>3
  <2>. QED  BY <1>2, <2>1
<1>4. CASE q = 0
  BY <1>2, <1>4
<1>. QED  BY <1>2, <1>3, <1>4

\* The next number is one more, or 0 after the last.
LEMMA ModNext ==
  ASSUME NEW n \in Nat \ {0}, NEW x \in 0 .. n - 1
  PROVE  (x + 1) % n = IF x = n - 1 THEN 0 ELSE x + 1
<1>1. CASE x = n - 1
  BY <1>1
<1>2. CASE x < n - 1
  BY <1>2, ModSmall
<1>. QED  BY <1>1, <1>2

LEMMA TailFacts ==
  ASSUME NEW S, NEW s \in Seq(S), s # <<>>
  PROVE  /\ Tail(s) \in Seq(S) /\ Len(s) \in Nat \ {0}
         /\ Len(Tail(s)) = Len(s) - 1
         /\ \A i \in 1 .. Len(s) - 1 : Tail(s)[i] = s[i + 1]
         /\ Head(s) = s[1] /\ Head(s) \in S
OBVIOUS

LEMMA AppendFacts ==
  ASSUME NEW S, NEW s \in Seq(S), NEW m \in S
  PROVE  /\ Append(s, m) \in Seq(S) /\ Len(s) \in Nat
         /\ Len(Append(s, m)) = Len(s) + 1
         /\ \A i \in 1 .. Len(s) : Append(s, m)[i] = s[i]
         /\ Append(s, m)[Len(s) + 1] = m
OBVIOUS

LEMMA EmptyFacts ==
  ASSUME NEW S, NEW s \in Seq(S)
  PROVE  Len(s) \in Nat /\ (s = <<>> <=> Len(s) = 0) /\ DOMAIN s = 1 .. Len(s)
OBVIOUS

-----------------------------------------------------------------------------
(* What the chip sends *)

\* The number after that of a message.
After(m) == IF m.kind \in Encoded THEN (m.seq + 1) % HdrMod ELSE m.seq

\* A queue s of the chip, whose key is k and whose next number is x: between two
\* public keys the messages have one key and their numbers run; the chip is at
\* most as many numbers past a message as there are messages from it on.
QueueOK(s, k, x) ==
    /\ \A i \in 1 .. Len(s) - 1 :
          s[i + 1].kind # "pub" =>
             s[i + 1].key = s[i].key /\ s[i + 1].seq = After(s[i])
    /\ Len(s) > 0 => k = s[Len(s)].key /\ x = After(s[Len(s)])
    /\ \A i \in 1 .. Len(s) : s[i].kind = "pub" => s[i].seq = 0
    /\ \A i \in 1 .. Len(s) : x <= s[i].seq + (Len(s) + 1 - i)
    /\ \A i \in 1 .. Len(s) :
          (\A j \in i + 1 .. Len(s) : s[j].kind # "pub") => k = s[i].key

LEMMA QueueTail ==
  ASSUME NEW s \in Seq(Messages), s # <<>>, NEW k \in Nat, NEW x \in Nat,
         QueueOK(s, k, x)
  PROVE  QueueOK(Tail(s), k, x)
<1>. DEFINE t == Tail(s)
            n == Len(s)
<1>1. /\ n \in Nat \ {0} /\ Len(t) = n - 1
      /\ \A i \in 1 .. n - 1 : t[i] = s[i + 1]
  BY TailFacts
<1>. HIDE DEF t
<1>2. ASSUME NEW i \in 1 .. Len(t) - 1, t[i + 1].kind # "pub"
      PROVE  t[i + 1].key = t[i].key /\ t[i + 1].seq = After(t[i])
  <2>1. /\ t[i] = s[i + 1] /\ t[i + 1] = s[(i + 1) + 1]
        /\ i + 1 \in 1 .. n - 1
    BY <1>1
  <2>. QED  BY <1>2, <2>1 DEF QueueOK
<1>3. Len(t) > 0 => k = t[Len(t)].key /\ x = After(t[Len(t)])
  <2>1. Len(t) > 0 => t[Len(t)] = s[n]
    BY <1>1
  <2>. QED  BY <1>1, <2>1 DEF QueueOK
<1>4. \A i \in 1 .. Len(t) : i + 1 \in 1 .. n /\ t[i] = s[i + 1]
  BY <1>1
<1>5. ASSUME NEW i \in 1 .. Len(t)
      PROVE  x <= t[i].seq + (Len(t) + 1 - i)
  <2>1. x <= s[i + 1].seq + (n + 1 - (i + 1))
    BY <1>4 DEF QueueOK
  <2>. QED  BY <1>1, <1>4, <2>1
<1>6. ASSUME NEW i \in 1 .. Len(t), \A j \in i + 1 .. Len(t) : t[j].kind # "pub"
      PROVE  k = t[i].key
  <2>1. ASSUME NEW j \in (i + 1) + 1 .. n
        PROVE  s[j].kind # "pub"
    <3>1. j - 1 \in i + 1 .. Len(t) /\ t[j - 1] = s[(j - 1) + 1] /\ (j - 1) + 1 = j
      BY <1>1
    <3>. QED  BY <1>6, <3>1
  <2>2. k = s[i + 1].key
    BY <1>4, <2>1 DEF QueueOK
  <2>. QED  BY <1>4, <2>2
<1>7. \A i \in 1 .. Len(t) : t[i].kind = "pub" => t[i].seq = 0
  BY <1>4 DEF QueueOK
<1>8. QueueOK(t, k, x)
  BY <1>2, <1>3, <1>5, <1>6, <1>7 DEF QueueOK
<1>. QED  BY <1>8 DEF t

LEMMA QueueSaid ==
  ASSUME NEW s \in Seq(Messages), NEW k \in Nat, NEW x \in 0 .. HdrMod - 1,
         QueueOK(s, k, x),
         NEW m \in Messages, m.kind # "pub", m.key = k, m.seq = x
  PROVE  QueueOK(Append(s, m), k, After(m)) /\ After(m) \in 0 .. HdrMod - 1
<1>. DEFINE t == Append(s, m)
            n == Len(s)
            y == After(m)
<1>1. /\ n \in Nat /\ Len(t) = n + 1 /\ t[n + 1] = m
      /\ \A i \in 1 .. n : t[i] = s[i]
  BY AppendFacts
<1>2. y \in 0 .. HdrMod - 1 /\ y <= x + 1 /\ x \in Nat
  <2>1. HdrMod \in Nat \ {0}
    BY SlAssumption
  <2>2. (x + 1) % HdrMod = IF x = HdrMod - 1 THEN 0 ELSE x + 1
    BY <2>1, ModNext
  <2>. QED  BY <2>1, <2>2 DEF After
<1>. HIDE DEF t, y
<1>3. ASSUME NEW i \in 1 .. Len(t) - 1, t[i + 1].kind # "pub"
      PROVE  t[i + 1].key = t[i].key /\ t[i + 1].seq = After(t[i])
  <2>1. CASE i = n
    BY <1>1, <2>1 DEF QueueOK
  <2>2. CASE i < n
    <3>1. i \in 1 .. n - 1 /\ t[i] = s[i] /\ t[i + 1] = s[i + 1]
      BY <1>1, <2>2
    <3>. QED  BY <1>3, <3>1 DEF QueueOK
  <2>. QED  BY <1>1, <2>1, <2>2
<1>4. Len(t) > 0 => k = t[Len(t)].key /\ y = After(t[Len(t)])
  BY <1>1 DEF y
<1>5. \A i \in 1 .. Len(t) : t[i].kind = "pub" => i \in 1 .. n /\ t[i] = s[i]
  BY <1>1
<1>6. ASSUME NEW i \in 1 .. Len(t)
      PROVE  y <= t[i].seq + (Len(t) + 1 - i)
  <2>1. CASE i = n + 1
    BY <1>1, <1>2, <2>1
  <2>2. CASE i \in 1 .. n
    <3>1. x <= s[i].seq + (n + 1 - i) /\ t[i] = s[i]
      BY <1>1, <2>2 DEF QueueOK
    <3>2. s[i] \in Messages
      BY <2>2
    <3>3. s[i].seq \in Nat
      BY <3>2 DEF Messages
    <3>. QED  BY <1>1, <1>2, <2>2, <3>1, <3>3
  <2>. QED  BY <1>1, <2>1, <2>2
<1>7. ASSUME NEW i \in 1 .. Len(t), \A j \in i + 1 .. Len(t) : t[j].kind # "pub"
      PROVE  k = t[i].key
  <2>1. CASE i = n + 1
    BY <1>1, <2>1
  <2>2. CASE i \in 1 .. n
    <3>1. \A j \in i + 1 .. n : s[j].kind # "pub"
      BY <1>1, <1>7, <2>2
    <3>. QED  BY <1>1, <2>2, <3>1 DEF QueueOK
  <2>. QED  BY <1>1, <2>1, <2>2
<1>8. \A i \in 1 .. Len(t) : t[i].kind = "pub" => t[i].seq = 0
  BY <1>5 DEF QueueOK
<1>9. QueueOK(t, k, y)
  BY <1>3, <1>4, <1>6, <1>7, <1>8 DEF QueueOK
<1>. QED  BY <1>2, <1>9 DEF t, y

LEMMA QueuePub ==
  ASSUME NEW s \in Seq(Messages), NEW k \in Nat, NEW x \in Nat,
         QueueOK(s, k, x), NEW m \in Messages, m.kind = "pub", m.seq = 0
  PROVE  QueueOK(Append(s, m), m.key, 0)
<1>. DEFINE t == Append(s, m)
            n == Len(s)
<1>1. /\ n \in Nat /\ Len(t) = n + 1 /\ t[n + 1] = m
      /\ \A i \in 1 .. n : t[i] = s[i]
      /\ \A i \in 1 .. n : s[i].seq \in Nat
  <2>1. \A i \in 1 .. n : s[i] \in Messages
    OBVIOUS
  <2>. QED  BY <2>1, AppendFacts DEF Messages
<1>. HIDE DEF t
<1>3. ASSUME NEW i \in 1 .. Len(t) - 1, t[i + 1].kind # "pub"
      PROVE  t[i + 1].key = t[i].key /\ t[i + 1].seq = After(t[i])
  <2>1. i \in 1 .. n - 1 /\ t[i] = s[i] /\ t[i + 1] = s[i + 1]
    BY <1>1, <1>3
  <2>. QED  BY <1>3, <2>1 DEF QueueOK
<1>4. Len(t) > 0 => m.key = t[Len(t)].key /\ 0 = After(t[Len(t)])
  BY <1>1 DEF After, Encoded
<1>5. ASSUME NEW i \in 1 .. Len(t), t[i].kind = "pub"
      PROVE  t[i].seq = 0
  <2>1. CASE i = n + 1
    BY <1>1, <2>1
  <2>2. CASE i \in 1 .. n
    <3>1. t[i] = s[i]
      BY <1>1, <2>2
    <3>. QED  BY <1>5, <2>2, <3>1 DEF QueueOK
  <2>. QED  BY <1>1, <2>1, <2>2
<1>6. \A i \in 1 .. Len(t) : 0 <= t[i].seq + (Len(t) + 1 - i)
  <2>. TAKE i \in 1 .. Len(t)
  <2>1. t[i].seq \in Nat
    BY <1>1
  <2>. QED  BY <1>1, <2>1
<1>7. ASSUME NEW i \in 1 .. Len(t), \A j \in i + 1 .. Len(t) : t[j].kind # "pub"
      PROVE  m.key = t[i].key
  <2>1. i = n + 1
    BY <1>1, <1>7
  <2>. QED  BY <1>1, <2>1
<1>8. QueueOK(t, m.key, 0)
  BY <1>3, <1>4, <1>5, <1>6, <1>7 DEF QueueOK
<1>. QED  BY <1>8 DEF t

-----------------------------------------------------------------------------
(* The inductive invariant of the link *)

\* One exchange at a time, under the number of its key.
ExchangeOwned ==
    /\ ecdh = IF xPc = "idle" THEN 0 ELSE exchanges
    /\ xPc # "idle" => ~command /\ exchanges > 0
    /\ hostKey \in -exchanges .. exchanges
    /\ chipKey <= exchanges
    /\ apart => missed

\* The answers to the commands, hif_sl_send_pub_keys included.
Answers == {"cnf", "asked", "refused"}
NoAnswer(s) == \A i \in 1 .. Len(s) : s[i].kind \notin Answers
OneAnswer(s, c, pc) ==
    \A i \in 1 .. Len(s) : s[i].kind \in Answers =>
       /\ IF s[i].kind = "cnf" THEN c ELSE pc = "ask"
       /\ \A j \in 1 .. Len(s) : s[j].kind \in Answers => j = i

\* One command or one public key on its way to the chip, and one answer back, as
\* long as the chip is in time.
OneToChip ==
    /\ Len(toChip) <= 1
    /\ toChip # <<>> =>
          \/ /\ Head(toChip).kind = "cmd" /\ Head(toChip).key = hostKey
             /\ xPc = "idle" /\ (command \/ frozen)
          \/ /\ Head(toChip).kind = "pub" /\ Head(toChip).key = exchanges
             /\ chipKey < exchanges /\ (xPc = "ask" \/ frozen)
    /\ ~frozen =>
          /\ OneAnswer(toHost, command, xPc)
          /\ toChip # <<>> => NoAnswer(toHost)

\* What the host reads next, unless a public key comes first.
Expected ==
    IF toHost = <<>>
    THEN chipKey = hostKey /\ chipTx = rxSeq % HdrMod
    ELSE Head(toHost).kind # "pub" =>
            Head(toHost).key = hostKey /\ Head(toHost).seq = rxSeq % HdrMod

QueueInv ==
    /\ QueueOK(toHost, chipKey, chipTx)
    /\ Len(toHost) <= MaxQueue
    /\ ~apart => Expected

\* No number from the present one on has been used with the present key.
HostFresh == \A n \in Nat : <<"host", hostKey, n>> \in sent => n < txSeq
ChipFresh == \A n \in Nat : <<"chip", chipKey, n>> \in sent => n < chipTx

PubComes == \E i \in 1 .. Len(toHost) : toHost[i].kind = "pub"

\* The numbers used with the present key are those below the present number, or
\* all of them; and those below, if no renewal is overdue.
HostNonces ==
    /\ \A k \in Int, n \in Nat : <<"host", k, n>> \in sent =>
          IF xPc = "idle" THEN k \in -exchanges .. exchanges
                          ELSE k \in -(exchanges - 1) .. exchanges - 1
    /\ \A n \in Nat : n < txSeq => <<"host", hostKey, n>> \in sent
    /\ HostFresh \/ HostExhausted
    /\ ~Overdue => txSeq < Period /\ HostFresh

ChipNonces ==
    /\ \A k \in Int, n \in Nat : <<"chip", k, n>> \in sent => k <= chipKey
    /\ \A n \in Nat : n < chipTx => <<"chip", chipKey, n>> \in sent
    /\ ChipFresh \/ ChipExhausted
    /\ ~Overdue \/ PubComes => ChipFresh
    /\ ~Overdue => rxSeq < Period

LinkInv == SlTypeOK /\ ExchangeOwned /\ OneToChip /\ QueueInv
             /\ HostNonces /\ ChipNonces

LEMMA MessageFacts ==
  ASSUME NEW kind \in Encoded \cup {"cmd", "pub", "bad", "asked", "refused"},
         NEW key \in Int, NEW seq \in Nat
  PROVE  /\ Message(kind, key, seq) \in Messages
         /\ Message(kind, key, seq).kind = kind
         /\ Message(kind, key, seq).key = key
         /\ Message(kind, key, seq).seq = seq
BY DEF Message, Messages

LEMMA MessageParts ==
  ASSUME NEW m \in Messages
  PROVE  /\ m.kind \in Encoded \cup {"cmd", "pub", "bad", "asked", "refused"}
         /\ m.key \in Int /\ m.seq \in Nat
BY DEF Messages

LEMMA Numbers ==
  /\ Period \in Nat \ {0} /\ MaxQueue \in Nat \ {0, 1}
  /\ HdrMod \in Nat \ {0} /\ CtrMod \in Nat \ {0}
  /\ Period + MaxQueue <= HdrMod /\ HdrMod <= CtrMod
BY SlAssumption

-----------------------------------------------------------------------------
(* Answers *)

LEMMA AnswerTail ==
  ASSUME NEW s \in Seq(Messages), s # <<>>, NEW c, NEW pc
  PROVE  /\ NoAnswer(s) => NoAnswer(Tail(s)) /\ Head(s).kind \notin Answers
         /\ OneAnswer(s, c, pc) => OneAnswer(Tail(s), c, pc)
         /\ OneAnswer(s, c, pc) /\ Head(s).kind \in Answers => NoAnswer(Tail(s))
<1>. DEFINE t == Tail(s)
            n == Len(s)
<1>1. /\ n \in Nat \ {0} /\ Len(t) = n - 1 /\ Head(s) = s[1]
      /\ \A i \in 1 .. n - 1 : t[i] = s[i + 1]
  BY TailFacts
<1>. HIDE DEF t
<1>2. \A i \in 1 .. Len(t) : i + 1 \in 1 .. n /\ t[i] = s[i + 1] /\ i + 1 # 1
  BY <1>1
<1>3. 1 \in 1 .. n
  BY <1>1
<1>4. NoAnswer(s) => NoAnswer(t) /\ Head(s).kind \notin Answers
  BY <1>1, <1>2, <1>3 DEF NoAnswer
<1>5. ASSUME OneAnswer(s, c, pc) PROVE OneAnswer(t, c, pc)
  <2>. SUFFICES ASSUME NEW i \in 1 .. Len(t), t[i].kind \in Answers
                PROVE  /\ IF t[i].kind = "cnf" THEN c ELSE pc = "ask"
                       /\ \A j \in 1 .. Len(t) : t[j].kind \in Answers => j = i
    BY DEF OneAnswer
  <2>1. /\ IF s[i + 1].kind = "cnf" THEN c ELSE pc = "ask"
        /\ \A j \in 1 .. n : s[j].kind \in Answers => j = i + 1
    BY <1>2, <1>5 DEF OneAnswer
  <2>2. ASSUME NEW j \in 1 .. Len(t), t[j].kind \in Answers PROVE j = i
    <3>1. j + 1 = i + 1
      BY <1>2, <2>1, <2>2
    <3>. QED  BY <3>1
  <2>. QED  BY <1>2, <2>1, <2>2
<1>6. ASSUME OneAnswer(s, c, pc), Head(s).kind \in Answers PROVE NoAnswer(t)
  <2>1. \A j \in 1 .. n : s[j].kind \in Answers => j = 1
    BY <1>1, <1>3, <1>6 DEF OneAnswer
  <2>. QED  BY <1>2, <2>1 DEF NoAnswer
<1>. QED  BY <1>4, <1>5, <1>6 DEF t

LEMMA AnswerAppend ==
  ASSUME NEW s \in Seq(Messages), NEW m \in Messages, NEW c, NEW pc
  PROVE  /\ NoAnswer(s) /\ m.kind \notin Answers => NoAnswer(Append(s, m))
         /\ OneAnswer(s, c, pc) /\ m.kind \notin Answers
              => OneAnswer(Append(s, m), c, pc)
         /\ /\ NoAnswer(s)
            /\ IF m.kind = "cnf" THEN c ELSE pc = "ask"
            => OneAnswer(Append(s, m), c, pc)
<1>. DEFINE t == Append(s, m)
            n == Len(s)
<1>1. /\ n \in Nat /\ Len(t) = n + 1 /\ t[n + 1] = m
      /\ \A i \in 1 .. n : t[i] = s[i]
  BY AppendFacts
<1>. HIDE DEF t
<1>2. \A i \in 1 .. Len(t) : i = n + 1 \/ (i \in 1 .. n /\ t[i] = s[i])
  BY <1>1
<1>3. NoAnswer(s) /\ m.kind \notin Answers => NoAnswer(t)
  BY <1>1, <1>2 DEF NoAnswer
<1>4. ASSUME OneAnswer(s, c, pc), m.kind \notin Answers
      PROVE  OneAnswer(t, c, pc)
  BY <1>1, <1>2, <1>4 DEF OneAnswer
<1>5. ASSUME NoAnswer(s), IF m.kind = "cnf" THEN c ELSE pc = "ask"
      PROVE  OneAnswer(t, c, pc)
  <2>1. \A i \in 1 .. Len(t) : t[i].kind \in Answers => i = n + 1
    BY <1>2, <1>5 DEF NoAnswer
  <2>. QED  BY <1>1, <1>5, <2>1 DEF OneAnswer
<1>. QED  BY <1>3, <1>4, <1>5 DEF t

LEMMA NoneIsOne ==
  ASSUME NEW s, NEW c, NEW pc, NoAnswer(s)
  PROVE  OneAnswer(s, c, pc)
BY DEF NoAnswer, OneAnswer

-----------------------------------------------------------------------------
(* The types *)

\* What changes the state of the link, in the probe and later.
LinkStep == SlNext \/ ((Exchange \/ ExchangeFails) /\ UNCHANGED renewWork)

LEMMA LinkTypes ==
  ASSUME SlTypeOK, OneToChip, LinkStep
  PROVE  SlTypeOK'
<1>. USE DEF hostKeyVars, renewVars, cmdVars, chipKeyVars, slCounts
<1>0. \A x \in Nat : /\ (x + 1) % CtrMod \in 0 .. CtrMod - 1
                    /\ (x + 1) % HdrMod \in 0 .. HdrMod - 1
  <2>. TAKE x \in Nat
  <2>1. x + 1 \in Nat
    OBVIOUS
  <2>. QED  BY <2>1, Numbers, RingPlace
<1>c. /\ MaxKeys \in Nat /\ MaxCmds \in Nat /\ MaxInds \in Nat
      /\ exchanges \in 0 .. MaxKeys /\ cmds \in 0 .. MaxCmds /\ inds \in 0 .. MaxInds
      /\ txSeq \in Nat /\ rxSeq \in Nat /\ chipTx \in Nat
      /\ chipKey \in Nat /\ hostKey \in Int /\ ecdh \in Nat
  BY SlAssumption DEF SlTypeOK
<1>n. 0 \in 0 .. CtrMod - 1 /\ 0 \in 0 .. HdrMod - 1 /\ 0 \in 0 .. MaxKeys
  BY Numbers, SlAssumption
<1>h. /\ toHost # <<>> => Head(toHost) \in Messages /\ Tail(toHost) \in Seq(Messages)
      /\ toChip # <<>> => Head(toChip) \in Messages /\ Tail(toChip) \in Seq(Messages)
  BY TailFacts DEF SlTypeOK
<1>1. CASE SendCmd
  <2>1. Message("cmd", hostKey, txSeq % HdrMod) \in Messages
    <3>1. txSeq % HdrMod \in Nat
      BY <1>c, Numbers, RingPlace
    <3>. QED  BY <1>c, <3>1, MessageFacts
  <2>2. toChip' \in Seq(Messages)
    BY <1>1, <2>1 DEF SendCmd, Encode, SlTypeOK
  <2>3. txSeq' \in 0 .. CtrMod - 1 /\ cmds' \in 0 .. MaxCmds
    BY <1>1, <1>0, <1>c DEF SendCmd, Encode
  <2>4. renewWork' \in BOOLEAN
    BY <1>1 DEF SendCmd, Encode, SlTypeOK
  <2>5. sent' \in SUBSET ({"host", "chip"} \X Int \X Nat)
    BY <1>1, <1>c DEF SendCmd, Encode, SlTypeOK
  <2>. QED  BY <1>1, <2>2, <2>3, <2>4, <2>5 DEF SendCmd, Encode, SlTypeOK
<1>2. CASE RenewKey \/ ((Exchange \/ ExchangeFails) /\ UNCHANGED renewWork)
  <2>1. renewWork' \in BOOLEAN /\ (Exchange \/ ExchangeFails)
    BY <1>2 DEF RenewKey, SlTypeOK
  <2>2. CASE Exchange
    <3>1. Message("pub", exchanges + 1, 0) \in Messages
      BY <1>c, MessageFacts
    <3>2. exchanges' \in 0 .. MaxKeys /\ ecdh' \in 0 .. MaxKeys
      BY <1>c, <2>2 DEF Exchange
    <3>3. toChip' \in Seq(Messages)
      BY <2>2, <3>1 DEF Exchange, SlTypeOK
    <3>. QED  BY <2>1, <2>2, <3>2, <3>3 DEF Exchange, SlTypeOK
  <2>3. CASE ExchangeFails
    BY <2>1, <2>3 DEF ExchangeFails, SlTypeOK
  <2>. QED  BY <2>1, <2>2, <2>3
<1>3. CASE Receive
  <2>1. Head(toHost).seq \in Nat /\ Tail(toHost) \in Seq(Messages)
    BY <1>3, <1>h, MessageParts DEF Receive
  <2>2. rxSeq' \in 0 .. CtrMod - 1
    BY <1>3, <1>0, <2>1 DEF Receive, Decode
  <2>3. renewWork' \in BOOLEAN /\ command' \in BOOLEAN
    BY <1>3 DEF Receive, Decode, SlTypeOK
  <2>. QED  BY <1>3, <2>1, <2>2, <2>3 DEF Receive, Decode, SlTypeOK
<1>4. CASE PubKeyConfirmed
  BY <1>4, <1>h, <1>n DEF PubKeyConfirmed, GivesUp, SlTypeOK
<1>5. CASE CheckPubkey
  <2>1. /\ hostKey' \in Int /\ apart' \in BOOLEAN /\ missed' \in BOOLEAN
        /\ txSeq' \in 0 .. CtrMod - 1 /\ rxSeq' \in 0 .. CtrMod - 1
    <3>1. CASE Discards
      BY <3>1 DEF Discards, SlTypeOK
    <3>2. CASE Takes
      <4>1. apart' \in BOOLEAN /\ missed' \in BOOLEAN /\ txSeq' = 0 /\ rxSeq' = 0
        BY <3>2 DEF Takes
      <4>2. hostKey' = ecdh \/ hostKey' = -ecdh
        BY <3>2 DEF Takes
      <4>. QED  BY <1>c, <1>n, <4>1, <4>2
    <3>. QED  BY <1>5, <3>1, <3>2 DEF CheckPubkey
  <2>2. renewDone' \in Nat
    BY <1>5 DEF CheckPubkey, SlTypeOK
  <2>. QED  BY <1>5, <1>h, <2>1, <2>2 DEF CheckPubkey, SlTypeOK
<1>6. CASE CommandTimesOut \/ PubKeyTimesOut \/ ExchangeTimesOut
  BY <1>6, <1>n DEF CommandTimesOut, PubKeyTimesOut, ExchangeTimesOut, GivesUp, SlTypeOK
<1>7. CASE Exchanged
  <2>1. renewDone' \in Nat
    BY <1>7 DEF Exchanged, SlTypeOK
  <2>2. missed' \in BOOLEAN
    BY <1>7 DEF Exchanged, SlTypeOK
  <2>. QED  BY <1>7, <1>n, <2>1, <2>2 DEF Exchanged, SlTypeOK
<1>8. ASSUME NEW kind \in Encoded, ChipEncodes(kind)
      PROVE  /\ toHost' \in Seq(Messages) /\ chipTx' \in 0 .. HdrMod - 1
             /\ sent' \in SUBSET ({"host", "chip"} \X Int \X Nat)
  <2>1. Message(kind, chipKey, chipTx) \in Messages
    BY <1>c, MessageFacts
  <2>2. toHost' \in Seq(Messages)
    BY <1>8, <2>1 DEF ChipEncodes, SlTypeOK
  <2>3. chipTx' \in 0 .. HdrMod - 1
    BY <1>8, <1>0, <1>c DEF ChipEncodes
  <2>4. sent' \in SUBSET ({"host", "chip"} \X Int \X Nat)
    BY <1>8, <1>c DEF ChipEncodes, SlTypeOK
  <2>. QED  BY <2>2, <2>3, <2>4
<1>9. CASE ChipConfirms
  <2>1. ChipEncodes("cnf") /\ "cnf" \in Encoded
    BY <1>9 DEF ChipConfirms, Encoded
  <2>. QED  BY <1>9, <1>h, <1>8, <2>1 DEF ChipConfirms, SlTypeOK
<1>10. CASE ChipReports
  <2>1. ChipEncodes("ind") /\ "ind" \in Encoded /\ inds' \in 0 .. MaxInds
    BY <1>10, <1>c DEF ChipReports, Encoded
  <2>. QED  BY <1>10, <1>8, <2>1 DEF ChipReports, SlTypeOK
<1>11. CASE ChipExchanges
  <2>. DEFINE Say(kind) == Message(kind, chipKey, chipTx)
              asked == Append(toHost, Say("asked"))
              k == Head(toChip).key
  <2>1. k \in Int /\ Tail(toChip) \in Seq(Messages)
    BY <1>11, <1>h, MessageParts DEF ChipExchanges
  <2>2. /\ Say("asked") \in Messages /\ Say("bad") \in Messages
        /\ Say("refused") \in Messages
    BY <1>c DEF Message, Messages
  <2>5. Message("pub", k, 0) \in Messages
    BY <2>1, MessageFacts
  <2>3. CASE /\ toHost' = Append(asked, Message("pub", k, 0))
             /\ chipKey' = k /\ chipTx' = 0
    <3>1. k \in Nat
      BY <1>11, <1>c DEF ChipExchanges, OneToChip
    <3>2. toHost' \in Seq(Messages)
      <4>1. asked \in Seq(Messages)
        BY <2>2 DEF SlTypeOK
      <4>. QED  BY <2>3, <2>5, <4>1
    <3>. QED  BY <1>11, <1>n, <2>1, <2>3, <3>1, <3>2 DEF ChipExchanges, SlTypeOK
  <2>4. CASE /\ toHost' \in {Append(asked, Say("bad")), asked,
                            Append(toHost, Say("refused"))}
             /\ UNCHANGED chipKeyVars
    <3>1. toHost' \in Seq(Messages)
      <4>1. asked \in Seq(Messages) /\ Append(toHost, Say("refused")) \in Seq(Messages)
        BY <2>2 DEF SlTypeOK
      <4>. HIDE DEF asked, Say
      <4>2. Append(asked, Say("bad")) \in Seq(Messages)
        BY <2>2, <4>1
      <4>. QED  BY <2>4, <4>1, <4>2
    <3>. QED  BY <1>11, <2>1, <2>4, <3>1 DEF ChipExchanges, SlTypeOK
  <2>. QED  BY <1>11, <2>3, <2>4 DEF ChipExchanges
<1>. QED
  BY <1>1, <1>2, <1>3, <1>4, <1>5, <1>6, <1>7, <1>9, <1>10, <1>11
     DEF LinkStep, SlNext, Bh, Waits, ChipLink

-----------------------------------------------------------------------------
(* What is common to all steps *)

LEMMA LinkParts ==
  ASSUME SlTypeOK
  PROVE  /\ exchanges \in Nat /\ txSeq \in Nat /\ rxSeq \in Nat /\ chipTx \in Nat
         /\ chipKey \in Nat /\ hostKey \in Int /\ ecdh \in Nat
         /\ txSeq < CtrMod /\ rxSeq < CtrMod /\ chipTx < HdrMod
         /\ toHost \in Seq(Messages) /\ toChip \in Seq(Messages)
         /\ Len(toHost) \in Nat /\ Len(toChip) \in Nat
BY Numbers, SlAssumption DEF SlTypeOK

\* The first message to the chip leaves.
LEMMA OneMessage ==
  ASSUME NEW s \in Seq(Messages), Len(s) <= 1, s # <<>>
  PROVE  Tail(s) = <<>> /\ Len(Tail(s)) = 0
<1>1. Tail(s) \in Seq(Messages) /\ Len(s) \in Nat \ {0} /\ Len(Tail(s)) = Len(s) - 1
  BY TailFacts
<1>. QED  BY <1>1, EmptyFacts

LEMMA OnlyMessage ==
  ASSUME NEW s \in Seq(Messages), Len(s) <= 1, NEW i \in 1 .. Len(s)
  PROVE  s # <<>> /\ s[i] = Head(s)
<1>1. Len(s) \in Nat /\ i = 1 /\ s # <<>>
  OBVIOUS
<1>. QED  BY <1>1, TailFacts

LEMMA FirstMessage ==
  ASSUME NEW s \in Seq(Messages), NEW m \in Messages, s = <<>>
  PROVE  Append(s, m) # <<>> /\ Head(Append(s, m)) = m /\ Len(Append(s, m)) = 1
OBVIOUS

LEMMA LaterMessage ==
  ASSUME NEW s \in Seq(Messages), NEW m \in Messages, s # <<>>
  PROVE  Append(s, m) # <<>> /\ Head(Append(s, m)) = Head(s)
OBVIOUS

\* A host that counts to 2^32 and a header of 30 bits agree on the next number.
LEMMA NextNumber ==
  ASSUME NEW h \in 0 .. HdrMod - 1
  PROVE  ((h + 1) % CtrMod) % HdrMod = (h + 1) % HdrMod
<1>. USE Numbers
<1>1. CASE h + 1 < CtrMod
  <2>1. h + 1 \in Nat
    OBVIOUS
  <2>2. (h + 1) % CtrMod = h + 1
    BY <1>1, <2>1, ModSmall
  <2>. QED  BY <2>2
<1>2. CASE h + 1 = CtrMod
  <2>1. h = CtrMod - 1 /\ h = HdrMod - 1 /\ h \in 0 .. CtrMod - 1
    BY <1>2
  <2>2. (h + 1) % CtrMod = 0 /\ (h + 1) % HdrMod = 0
    BY <2>1, ModNext
  <2>3. 0 % HdrMod = 0
    BY ModSmall
  <2>. QED  BY <2>2, <2>3
<1>. QED  BY <1>1, <1>2

\* Nothing is under way to the chip when no command and no exchange is.
LEMMA LinkIdle ==
  ASSUME OneToChip, SlTypeOK, ~command, xPc = "idle", ~frozen
  PROVE  toChip = <<>> /\ NoAnswer(toHost)
BY DEF OneToChip, OneAnswer, NoAnswer

\* The messages that the host has not read, if it has taken all keys of the
\* chip, run from the number that it expects.
LEMMA ChipAhead ==
  ASSUME SlTypeOK, QueueInv, ~apart, ~PubComes
  PROVE  chipTx <= (rxSeq % HdrMod) + Len(toHost)
<1>. USE LinkParts
<1>1. CASE toHost = <<>>
  <2>1. chipTx = rxSeq % HdrMod /\ Len(toHost) = 0
    BY <1>1, EmptyFacts DEF QueueInv, Expected
  <2>. QED  BY <2>1
<1>2. CASE toHost # <<>>
  <2>1. /\ Len(toHost) \in Nat \ {0} /\ Head(toHost) = toHost[1]
        /\ Head(toHost) \in Messages
    BY <1>2, TailFacts
  <2>2. 1 \in 1 .. Len(toHost)
    BY <2>1
  <2>3. toHost[1].kind # "pub"
    BY <2>2 DEF PubComes
  <2>4. toHost[1].seq = rxSeq % HdrMod
    BY <1>2, <2>1, <2>3 DEF QueueInv, Expected
  <2>5. chipTx <= toHost[1].seq + (Len(toHost) + 1 - 1)
    BY <2>2 DEF QueueInv, QueueOK
  <2>. QED  BY <2>4, <2>5
<1>. QED  BY <1>1, <1>2

\* A new key of the chip is followed by as many numbers as there are messages.
LEMMA ChipAfterPub ==
  ASSUME SlTypeOK, QueueInv, PubComes
  PROVE  chipTx <= Len(toHost)
<1>. USE LinkParts
<1>1. PICK i \in 1 .. Len(toHost) : toHost[i].kind = "pub"
  BY DEF PubComes
<1>2. toHost[i].seq = 0 /\ chipTx <= toHost[i].seq + (Len(toHost) + 1 - i)
  BY <1>1 DEF QueueInv, QueueOK
<1>. QED  BY <1>2

\* With room for one more message and a renewal in time, no number comes again.
LEMMA ChipFarFromEnd ==
  ASSUME LinkInv, ~Overdue \/ PubComes, Len(toHost) + 1 <= MaxQueue
  PROVE  chipTx + 1 < HdrMod
<1>. USE Numbers, LinkParts DEF LinkInv
<1>1. CASE PubComes
  <2>1. chipTx <= Len(toHost)
    BY <1>1, ChipAfterPub
  <2>. QED  BY <2>1
<1>2. CASE ~PubComes
  <2>1. rxSeq < Period /\ ~apart
    BY <1>2 DEF ChipNonces, Overdue, ExchangeOwned
  <2>2. chipTx <= (rxSeq % HdrMod) + Len(toHost)
    BY <1>2, <2>1, ChipAhead
  <2>4. rxSeq < HdrMod
    BY <2>1
  <2>3. rxSeq % HdrMod = rxSeq
    BY <2>4, ModSmall
  <2>. QED  BY <2>1, <2>2, <2>3
<1>. QED  BY <1>1, <1>2

\* No key comes from the queue that was not in it.
LEMMA PubTail ==
  ASSUME SlTypeOK, toHost # <<>>, toHost' = Tail(toHost)
  PROVE  PubComes' => PubComes
<1>1. /\ Len(toHost) \in Nat \ {0} /\ Len(toHost') = Len(toHost) - 1
      /\ \A i \in 1 .. Len(toHost) - 1 : toHost'[i] = toHost[i + 1]
  BY TailFacts, LinkParts
<1>2. ASSUME NEW i \in 1 .. Len(toHost'), toHost'[i].kind = "pub"
      PROVE  PubComes
  <2>1. i + 1 \in 1 .. Len(toHost) /\ toHost[i + 1].kind = "pub"
    BY <1>1, <1>2
  <2>. QED  BY <2>1 DEF PubComes
<1>. QED  BY <1>2 DEF PubComes

LEMMA PubAppend ==
  ASSUME SlTypeOK, NEW m \in Messages, m.kind # "pub", toHost' = Append(toHost, m)
  PROVE  PubComes' => PubComes
<1>1. /\ Len(toHost) \in Nat /\ Len(toHost') = Len(toHost) + 1
      /\ toHost'[Len(toHost) + 1] = m
      /\ \A i \in 1 .. Len(toHost) : toHost'[i] = toHost[i]
  BY AppendFacts, LinkParts
<1>2. ASSUME NEW i \in 1 .. Len(toHost'), toHost'[i].kind = "pub"
      PROVE  PubComes
  <2>1. i \in 1 .. Len(toHost) /\ toHost[i].kind = "pub"
    BY <1>1, <1>2
  <2>. QED  BY <2>1 DEF PubComes
<1>. QED  BY <1>2 DEF PubComes

\* What the host expects after a message that it reads.
LEMMA ExpectedTail ==
  ASSUME SlTypeOK, QueueInv, toHost # <<>>, NEW hk, NEW hs,
         hk = Head(toHost).key, hs = After(Head(toHost))
  PROVE  IF Tail(toHost) = <<>>
         THEN chipKey = hk /\ chipTx = hs
         ELSE Head(Tail(toHost)).kind # "pub" =>
                 Head(Tail(toHost)).key = hk /\ Head(Tail(toHost)).seq = hs
<1>. DEFINE t == Tail(toHost)
            n == Len(toHost)
<1>1. /\ t \in Seq(Messages) /\ n \in Nat \ {0} /\ Len(t) = n - 1
      /\ \A i \in 1 .. n - 1 : t[i] = toHost[i + 1]
      /\ Head(toHost) = toHost[1]
  BY TailFacts, LinkParts
<1>. HIDE DEF t
<1>2. CASE t = <<>>
  <2>2. Len(t) = 0
    BY <1>1, <1>2, EmptyFacts
  <2>1. n = 1
    BY <1>1, <2>2
  <2>3. chipKey = Head(toHost).key /\ chipTx = After(Head(toHost))
    BY <1>1, <2>1 DEF QueueInv, QueueOK
  <2>. QED  BY <1>2, <2>3 DEF t
<1>3. CASE t # <<>>
  <2>1. n - 1 >= 1 /\ Head(t) = t[1]
    BY <1>1, <1>3, TailFacts
  <2>2. 1 \in 1 .. n - 1 /\ Head(t) = toHost[1 + 1]
    BY <1>1, <2>1
  <2>3. toHost[1 + 1].kind # "pub" =>
           toHost[1 + 1].key = toHost[1].key /\ toHost[1 + 1].seq = After(toHost[1])
    BY <2>2 DEF QueueInv, QueueOK
  <2>. QED  BY <1>1, <1>3, <2>2, <2>3
<1>. QED  BY <1>2, <1>3 DEF t

\* What the host reads next stays when the chip adds a message of its key.
LEMMA ExpectedAppend ==
  ASSUME SlTypeOK, QueueInv, NEW m \in Messages, m.kind # "pub",
         m.key = chipKey, m.seq = chipTx, ~apart
  PROVE  LET t == Append(toHost, m) IN
         /\ t # <<>>
         /\ Head(t).kind # "pub" =>
               Head(t).key = hostKey /\ Head(t).seq = rxSeq % HdrMod
<1>1. CASE toHost = <<>>
  BY <1>1, FirstMessage, LinkParts DEF QueueInv, Expected
<1>2. CASE toHost # <<>>
  BY <1>2, LaterMessage, LinkParts DEF QueueInv, Expected
<1>. QED  BY <1>1, <1>2

-----------------------------------------------------------------------------
(* The steps *)

\* A step that leaves the keys, the numbers and the queues alone.
LEMMA QuietKeeps ==
  ASSUME LinkInv, UNCHANGED <<hostKeyVars, toHost, chipKeyVars, apart, sent,
                              exchanges, toChip>>,
         Overdue' \/ (~Overdue /\ ~Overdue'),
         xPc' # "idle" => xPc # "idle"
  PROVE  QueueInv' /\ HostNonces' /\ ChipNonces'
<1>. USE DEF LinkInv, hostKeyVars, chipKeyVars
<1>1. QueueInv'
  BY DEF QueueInv, Expected
<1>2. PubComes' => PubComes
  BY DEF PubComes
<1>3. ChipNonces'
  <2>1. (ChipFresh => ChipFresh') /\ (ChipExhausted => ChipExhausted')
    BY DEF ChipFresh, ChipExhausted
  <2>. QED  BY <1>2, <2>1 DEF ChipNonces
<1>4. HostNonces'
  <2>1. (HostFresh => HostFresh') /\ (HostExhausted => HostExhausted')
    BY DEF HostFresh, HostExhausted
  <2>2. ASSUME NEW k \in Int, NEW n \in Nat, <<"host", k, n>> \in sent
        PROVE  IF xPc' = "idle" THEN k \in -exchanges .. exchanges
                                ELSE k \in -(exchanges - 1) .. exchanges - 1
    <3>1. exchanges \in Nat
      BY LinkParts
    <3>2. IF xPc = "idle" THEN k \in -exchanges .. exchanges
                          ELSE k \in -(exchanges - 1) .. exchanges - 1
      BY <2>2 DEF HostNonces
    <3>. QED  BY <3>1, <3>2
  <2>. QED  BY <2>1, <2>2 DEF HostNonces
<1>. QED  BY <1>1, <1>3, <1>4

LEMMA SendCmdKeeps ==
  ASSUME LinkInv, SlTypeOK', SendCmd
  PROVE  LinkInv'
<1>. DEFINE m == Message("cmd", hostKey, txSeq % HdrMod)
<1>2. m \in Messages /\ m.kind = "cmd" /\ m.key = hostKey
  <2>1. HdrMod \in Nat \ {0} /\ txSeq \in Nat /\ hostKey \in Int
    BY Numbers, LinkParts DEF LinkInv
  <2>2. txSeq % HdrMod \in Nat
    BY <2>1, RingPlace
  <2>. QED  BY <2>1, <2>2, MessageFacts
<1>. USE Numbers, LinkParts
     DEF LinkInv, SendCmd, Encode, hostKeyVars, renewVars, cmdVars, chipKeyVars
<1>1. toChip = <<>> /\ NoAnswer(toHost)
  BY LinkIdle
<1>3. toChip' = Append(toChip, m)
  OBVIOUS
<1>. HIDE DEF m
<1>4. Len(toChip') = 1 /\ toChip' # <<>> /\ Head(toChip') = m
  BY <1>1, <1>2, <1>3, FirstMessage
<1>5. OneToChip'
  <2>1. OneAnswer(toHost', command', xPc')
    BY <1>1, NoneIsOne
  <2>2. /\ toHost' = toHost /\ command' /\ xPc' = "idle" /\ ~frozen'
        /\ hostKey' = hostKey
    OBVIOUS
  <2>. HIDE DEF SendCmd
  <2>. QED  BY <1>1, <1>2, <1>4, <2>1, <2>2 DEF OneToChip
<1>6. ExchangeOwned'
  BY DEF ExchangeOwned
<1>7. QueueInv'
  BY DEF QueueInv, Expected
<1>8. ~Overdue' => ~Overdue /\ txSeq' # Period
  BY DEF Overdue
<1>9. ChipNonces'
  <2>1. \A k, n : <<"chip", k, n>> \in sent' <=> <<"chip", k, n>> \in sent
    OBVIOUS
  <2>2. (ChipFresh => ChipFresh') /\ (ChipExhausted => ChipExhausted')
    BY <2>1 DEF ChipFresh, ChipExhausted
  <2>3. PubComes' => PubComes
    BY DEF PubComes
  <2>4. chipKey' = chipKey /\ chipTx' = chipTx /\ rxSeq' = rxSeq
    OBVIOUS
  <2>. HIDE DEF SendCmd, Encode
  <2>. QED  BY <1>8, <2>1, <2>2, <2>3, <2>4 DEF ChipNonces
<1>10. /\ \A k, n : <<"host", k, n>> \in sent'
                      <=> <<"host", k, n>> \in sent \/ (k = hostKey /\ n = txSeq)
       /\ hostKey' = hostKey /\ exchanges' = exchanges /\ xPc = "idle" /\ xPc' = "idle"
  OBVIOUS
<1>11. txSeq' = IF txSeq = CtrMod - 1 THEN 0 ELSE txSeq + 1
  <2>1. txSeq \in 0 .. CtrMod - 1
    OBVIOUS
  <2>. QED  BY <2>1, ModNext
<1>12. hostKey \in -exchanges .. exchanges
  BY DEF ExchangeOwned
<1>. HIDE DEF SendCmd, Encode
<1>13. \A n \in Nat : n < txSeq' => <<"host", hostKey', n>> \in sent'
  BY <1>10, <1>11 DEF HostNonces
<1>14. HostExhausted => HostExhausted'
  BY <1>10 DEF HostExhausted
<1>15. HostFresh /\ txSeq # CtrMod - 1 => HostFresh'
  BY <1>10, <1>11 DEF HostFresh
<1>16. txSeq = CtrMod - 1 => HostExhausted'
  BY <1>10 DEF HostExhausted, HostNonces
<1>17. ~Overdue' => txSeq' < Period /\ HostFresh'
  <2>. SUFFICES ASSUME ~Overdue' PROVE txSeq' < Period /\ HostFresh'
    OBVIOUS
  <2>1. txSeq < Period /\ HostFresh
    BY <1>8 DEF HostNonces
  <2>2. txSeq # CtrMod - 1 /\ txSeq' = txSeq + 1
    BY <1>11, <2>1
  <2>. QED  BY <1>8, <1>15, <2>1, <2>2
<1>18. HostNonces'
  <2>1. \A k \in Int, n \in Nat : <<"host", k, n>> \in sent'
            => k \in -exchanges' .. exchanges'
    BY <1>10, <1>12 DEF HostNonces
  <2>2. HostFresh' \/ HostExhausted'
    BY <1>14, <1>15, <1>16 DEF HostNonces
  <2>. QED  BY <1>10, <1>13, <1>17, <2>1, <2>2 DEF HostNonces
<1>. QED  BY <1>5, <1>6, <1>7, <1>9, <1>18

LEMMA TimeoutsKeep ==
  ASSUME LinkInv, SlTypeOK', CommandTimesOut \/ PubKeyTimesOut \/ ExchangeTimesOut
  PROVE  LinkInv'
<1>. USE LinkParts
     DEF LinkInv, CommandTimesOut, PubKeyTimesOut, ExchangeTimesOut, GivesUp,
         hostKeyVars, renewVars, cmdVars, chipKeyVars, slCounts
<1>1. ExchangeOwned'
  BY DEF ExchangeOwned
<1>2. OneToChip'
  <2>1. CASE CommandTimesOut \/ PubKeyTimesOut
    BY <2>1 DEF OneToChip, ExchangeOwned
  <2>2. CASE ExchangeTimesOut
    <3>1. UNCHANGED <<toChip, toHost, hostKey, command, frozen, exchanges, chipKey>>
      BY <2>2
    <3>2. xPc = "wait" /\ xPc' = "idle"
      BY <2>2
    <3>3. ~frozen => OneAnswer(toHost, command, xPc')
      BY <3>2 DEF OneToChip, OneAnswer
    <3>. QED  BY <3>1, <3>2, <3>3 DEF OneToChip
  <2>. QED  BY <2>1, <2>2
<1>3. QueueInv' /\ HostNonces' /\ ChipNonces'
  <2>1. Overdue' \/ (~Overdue /\ ~Overdue')
    BY DEF Overdue
  <2>2. xPc' # "idle" => xPc # "idle"
    OBVIOUS
  <2>3. UNCHANGED <<hostKeyVars, toHost, chipKeyVars, apart, sent, exchanges, toChip>>
    OBVIOUS
  <2>. QED  BY <2>1, <2>2, <2>3, QuietKeeps
<1>. QED  BY <1>1, <1>2, <1>3

LEMMA ExchangedKeeps ==
  ASSUME LinkInv, SlTypeOK', Exchanged
  PROVE  LinkInv'
<1>. USE LinkParts
     DEF LinkInv, Exchanged, hostKeyVars, renewVars, cmdVars, chipKeyVars, slCounts
<1>1. ExchangeOwned'
  <2>1. apart' => missed'
    BY DEF ExchangeOwned
  <2>2. ecdh' = 0 /\ xPc' = "idle"
    OBVIOUS
  <2>. QED  BY <2>1, <2>2 DEF ExchangeOwned
<1>2. OneToChip'
  <2>1. UNCHANGED <<toChip, toHost, hostKey, command, frozen, exchanges, chipKey>>
    OBVIOUS
  <2>2. xPc = "wait" /\ xPc' = "idle"
    OBVIOUS
  <2>3. ~frozen => OneAnswer(toHost, command, xPc')
    BY <2>2 DEF OneToChip, OneAnswer
  <2>. QED  BY <2>1, <2>2, <2>3 DEF OneToChip
<1>3. QueueInv' /\ HostNonces' /\ ChipNonces'
  <2>1. Overdue' \/ (~Overdue /\ ~Overdue')
    <3>1. missed' <=> missed \/ hostKey # ecdh
      OBVIOUS
    <3>2. UNCHANGED <<renewWork, hostKey>> /\ xPc' = "idle"
      OBVIOUS
    <3>. QED  BY <3>1, <3>2 DEF Overdue
  <2>2. xPc' # "idle" => xPc # "idle"
    OBVIOUS
  <2>3. UNCHANGED <<hostKeyVars, toHost, chipKeyVars, apart, sent, exchanges, toChip>>
    OBVIOUS
  <2>. QED  BY <2>1, <2>2, <2>3, QuietKeeps
<1>. QED  BY <1>1, <1>2, <1>3

LEMMA ExchangeFailsKeeps ==
  ASSUME LinkInv, SlTypeOK', ExchangeFails
  PROVE  LinkInv'
<1>. USE LinkParts
     DEF LinkInv, ExchangeFails, hostKeyVars, renewVars, cmdVars, chipKeyVars, slCounts
<1>1. ExchangeOwned' /\ OneToChip'
  BY DEF ExchangeOwned, OneToChip
<1>2. QueueInv' /\ HostNonces' /\ ChipNonces'
  <2>1. Overdue'
    BY DEF Overdue
  <2>2. xPc' # "idle" => xPc # "idle"
    OBVIOUS
  <2>3. UNCHANGED <<hostKeyVars, toHost, chipKeyVars, apart, sent, exchanges, toChip>>
    OBVIOUS
  <2>. QED  BY <2>1, <2>2, <2>3, QuietKeeps
<1>. QED  BY <1>1, <1>2

LEMMA ExchangeKeeps ==
  ASSUME LinkInv, SlTypeOK', Exchange
  PROVE  LinkInv'
<1>. DEFINE m == Message("pub", exchanges + 1, 0)
<1>2. m \in Messages /\ m.kind = "pub" /\ m.key = exchanges + 1
  <2>1. exchanges + 1 \in Int
    BY LinkParts DEF LinkInv
  <2>. QED  BY <2>1 DEF Message, Messages
<1>. USE LinkParts
     DEF LinkInv, Exchange, hostKeyVars, renewVars, cmdVars, chipKeyVars
<1>1. toChip = <<>> /\ NoAnswer(toHost)
  BY LinkIdle
<1>3. toChip' = Append(toChip, m)
  OBVIOUS
<1>. HIDE DEF m
<1>4. Len(toChip') = 1 /\ toChip' # <<>> /\ Head(toChip') = m
  BY <1>1, <1>2, <1>3, FirstMessage
<1>5. /\ exchanges' = exchanges + 1 /\ ecdh' = exchanges + 1 /\ xPc' = "ask"
      /\ xPc = "idle" /\ ~command /\ ~frozen /\ ecdh = 0
      /\ UNCHANGED <<hostKey, txSeq, rxSeq, command, frozen, toHost, chipKey, chipTx,
                     apart, missed, sent>>
  BY DEF ExchangeOwned
<1>. HIDE DEF Exchange
<1>6. ExchangeOwned'
  BY <1>5 DEF ExchangeOwned
<1>7. OneToChip'
  <2>1. OneAnswer(toHost', command', xPc') /\ NoAnswer(toHost')
    BY <1>1, <1>5, NoneIsOne
  <2>2. chipKey' < exchanges'
    BY <1>5 DEF ExchangeOwned
  <2>. QED  BY <1>2, <1>4, <1>5, <2>1, <2>2 DEF OneToChip
<1>8. QueueInv'
  BY <1>5 DEF QueueInv, Expected
<1>9. Overdue'
  BY <1>5 DEF Overdue, ExchangeOwned
<1>10. ChipNonces'
  <2>1. (ChipFresh => ChipFresh') /\ (ChipExhausted => ChipExhausted')
    BY <1>5 DEF ChipFresh, ChipExhausted
  <2>2. PubComes' => PubComes
    BY <1>5 DEF PubComes
  <2>. QED  BY <1>5, <1>9, <2>1, <2>2 DEF ChipNonces
<1>11. HostNonces'
  <2>1. (HostFresh => HostFresh') /\ (HostExhausted => HostExhausted')
    BY <1>5 DEF HostFresh, HostExhausted
  <2>2. \A k \in Int, n \in Nat : <<"host", k, n>> \in sent'
           => k \in -(exchanges' - 1) .. exchanges' - 1
    BY <1>5 DEF HostNonces
  <2>. QED  BY <1>5, <1>9, <2>1, <2>2 DEF HostNonces
<1>. QED  BY <1>6, <1>7, <1>8, <1>10, <1>11

LEMMA ReceiveKeeps ==
  ASSUME LinkInv, SlTypeOK', Receive
  PROVE  LinkInv'
<1>. DEFINE h == Head(toHost)
<1>1. /\ toHost # <<>> /\ h.kind \in Encoded /\ toHost' = Tail(toHost)
      /\ rxSeq' = (h.seq + 1) % CtrMod /\ (renewWork' <=> renewWork \/ rxSeq' = Period)
      /\ (command' <=> command /\ ~(h.kind = "cnf" /\ h.key = hostKey))
      /\ UNCHANGED <<hostKey, txSeq, ecdh, xPc, frozen, toChip, chipKey, chipTx,
                     exchanges, apart, missed, sent>>
  BY DEF Receive, Decode, chipKeyVars, slCounts
<1>. USE Numbers, LinkParts DEF LinkInv
<1>2. h \in Messages /\ h.seq \in Nat /\ Tail(toHost) \in Seq(Messages)
      /\ Len(toHost) \in Nat \ {0} /\ Len(Tail(toHost)) = Len(toHost) - 1
  BY <1>1, TailFacts, MessageParts
<1>3. h.kind # "pub" /\ After(h) = (h.seq + 1) % HdrMod
  BY <1>1 DEF Encoded, After
<1>. HIDE DEF h
<1>4. ~apart => h.key = hostKey /\ h.seq = rxSeq % HdrMod
  BY <1>1, <1>3 DEF QueueInv, Expected, h
<1>5. ~apart => After(h) = rxSeq' % HdrMod
  <2>. SUFFICES ASSUME ~apart PROVE After(h) = rxSeq' % HdrMod
    OBVIOUS
  <2>1. h.seq \in 0 .. HdrMod - 1
    BY <1>4, RingPlace
  <2>. QED  BY <1>1, <1>3, <2>1, NextNumber
<1>6. QueueInv'
  <2>1. QueueOK(toHost', chipKey', chipTx')
    BY <1>1, QueueTail DEF QueueInv
  <2>2. Len(toHost') <= MaxQueue
    BY <1>1, <1>2 DEF QueueInv
  <2>3. IF Tail(toHost) = <<>>
        THEN chipKey = h.key /\ chipTx = After(h)
        ELSE Head(Tail(toHost)).kind # "pub" =>
                /\ Head(Tail(toHost)).key = h.key
                /\ Head(Tail(toHost)).seq = After(h)
    BY <1>1, ExpectedTail DEF h
  <2>4. ~apart' => Expected'
    BY <1>1, <1>4, <1>5, <2>3 DEF Expected
  <2>. QED  BY <2>1, <2>2, <2>4 DEF QueueInv
<1>7. ExchangeOwned'
  BY <1>1 DEF ExchangeOwned
<1>8. OneToChip'
  <2>1. ~frozen => /\ OneAnswer(toHost', command', xPc')
                   /\ toChip' # <<>> => NoAnswer(toHost')
    <3>. SUFFICES ASSUME ~frozen
                  PROVE  /\ OneAnswer(toHost', command', xPc')
                         /\ toChip' # <<>> => NoAnswer(toHost')
      OBVIOUS
    <3>1. /\ OneAnswer(toHost, command, xPc)
          /\ toChip # <<>> => NoAnswer(toHost)
      BY DEF OneToChip
    <3>2. OneAnswer(toHost', command, xPc) /\ (toChip # <<>> => NoAnswer(toHost'))
      BY <1>1, <3>1, AnswerTail
    <3>3. CASE h.kind = "cnf"
      <4>1. NoAnswer(toHost')
        BY <1>1, <3>1, <3>3, AnswerTail DEF h, Answers
      <4>. QED  BY <4>1, NoneIsOne
    <3>4. CASE h.kind # "cnf"
      <4>1. command' <=> command
        BY <1>1, <3>4
      <4>2. OneAnswer(toHost', command', xPc')
        BY <1>1, <3>2, <4>1 DEF OneAnswer
      <4>. QED  BY <1>1, <3>2, <4>2
    <3>. QED  BY <3>3, <3>4
  <2>2. toChip # <<>> /\ ~frozen => (command' <=> command)
    <3>1. toChip # <<>> /\ ~frozen => NoAnswer(toHost)
      BY DEF OneToChip
    <3>2. toChip # <<>> /\ ~frozen => h.kind \notin Answers
      BY <1>1, <3>1, AnswerTail DEF h
    <3>. QED  BY <1>1, <3>2 DEF Answers
  <2>. QED  BY <1>1, <2>1, <2>2 DEF OneToChip
<1>9. ~Overdue' => ~Overdue /\ rxSeq' # Period
  BY <1>1 DEF Overdue
<1>10. ~Overdue' => rxSeq' < Period
  <2>. SUFFICES ASSUME ~Overdue' PROVE rxSeq' < Period
    OBVIOUS
  <2>1. rxSeq < Period /\ ~apart /\ rxSeq' # Period
    BY <1>9 DEF ChipNonces, ExchangeOwned, Overdue
  <2>2. rxSeq % HdrMod = rxSeq
    <3>1. rxSeq < HdrMod
      BY <2>1
    <3>. QED  BY <3>1, ModSmall
  <2>3. rxSeq' = (rxSeq + 1) % CtrMod
    BY <1>1, <1>4, <2>1, <2>2
  <2>4. (rxSeq + 1) % CtrMod = rxSeq + 1
    <3>1. rxSeq + 1 < CtrMod /\ rxSeq + 1 \in Nat
      BY <2>1
    <3>. QED  BY <3>1, ModSmall
  <2>. QED  BY <2>1, <2>3, <2>4
<1>11. ChipNonces'
  <2>1. (ChipFresh => ChipFresh') /\ (ChipExhausted => ChipExhausted')
    BY <1>1 DEF ChipFresh, ChipExhausted
  <2>2. PubComes' => PubComes
    BY <1>1, PubTail
  <2>. QED  BY <1>1, <1>9, <1>10, <2>1, <2>2 DEF ChipNonces
<1>12. HostNonces'
  <2>1. (HostFresh => HostFresh') /\ (HostExhausted => HostExhausted')
    BY <1>1 DEF HostFresh, HostExhausted
  <2>. QED  BY <1>1, <1>9, <2>1 DEF HostNonces
<1>. QED  BY <1>6, <1>7, <1>8, <1>11, <1>12

LEMMA PubKeyConfirmedKeeps ==
  ASSUME LinkInv, SlTypeOK', PubKeyConfirmed
  PROVE  LinkInv'
<1>. DEFINE h == Head(toHost)
<1>1. /\ toHost # <<>> /\ h.kind \in {"asked", "refused"} /\ toHost' = Tail(toHost)
      /\ \/ xPc # "ask" /\ UNCHANGED <<xPc, ecdh, missed>>
         \/ xPc = "ask" /\ xPc' = "wait" /\ UNCHANGED <<ecdh, missed>>
         \/ xPc = "ask" /\ xPc' = "idle" /\ ecdh' = 0 /\ missed'
      /\ UNCHANGED <<hostKey, txSeq, rxSeq, renewWork, command, frozen, toChip, chipKey,
                     chipTx, exchanges, apart, sent>>
  BY DEF PubKeyConfirmed, GivesUp, hostKeyVars, cmdVars, chipKeyVars, slCounts
<1>. USE Numbers, LinkParts DEF LinkInv
<1>2. h \in Messages /\ Tail(toHost) \in Seq(Messages)
      /\ Len(toHost) \in Nat \ {0} /\ Len(Tail(toHost)) = Len(toHost) - 1
  BY <1>1, TailFacts
<1>3. h.kind # "pub" /\ After(h) = h.seq /\ h.kind \in Answers
  BY <1>1 DEF Encoded, After, Answers
<1>. HIDE DEF h
<1>4. ~apart => h.key = hostKey /\ h.seq = rxSeq % HdrMod
  BY <1>1, <1>3 DEF QueueInv, Expected, h
<1>6. QueueInv'
  <2>1. QueueOK(toHost', chipKey', chipTx')
    BY <1>1, QueueTail DEF QueueInv
  <2>2. Len(toHost') <= MaxQueue
    BY <1>1, <1>2 DEF QueueInv
  <2>3. IF Tail(toHost) = <<>>
        THEN chipKey = h.key /\ chipTx = After(h)
        ELSE Head(Tail(toHost)).kind # "pub" =>
                /\ Head(Tail(toHost)).key = h.key
                /\ Head(Tail(toHost)).seq = After(h)
    BY <1>1, ExpectedTail DEF h
  <2>4. ~apart' => Expected'
    BY <1>1, <1>3, <1>4, <2>3 DEF Expected
  <2>. QED  BY <2>1, <2>2, <2>4 DEF QueueInv
<1>7. ExchangeOwned'
  BY <1>1 DEF ExchangeOwned
<1>8. OneToChip'
  <2>1. ~frozen => NoAnswer(toHost') /\ toChip = <<>>
    <3>1. ~frozen => OneAnswer(toHost, command, xPc)
      BY DEF OneToChip
    <3>2. ~frozen => ~NoAnswer(toHost)
      BY <1>1, <1>3, AnswerTail DEF h
    <3>. QED  BY <1>1, <1>3, <3>1, <3>2, AnswerTail DEF OneToChip, h
  <2>2. ~frozen => OneAnswer(toHost', command', xPc')
    BY <2>1, NoneIsOne
  <2>3. toChip # <<>> /\ frozen /\ xPc = "idle" => xPc' = "idle"
    BY <1>1
  <2>. QED  BY <1>1, <2>1, <2>2, <2>3 DEF OneToChip
<1>9. ~Overdue' => ~Overdue
  BY <1>1 DEF Overdue
<1>11. ChipNonces'
  <2>1. (ChipFresh => ChipFresh') /\ (ChipExhausted => ChipExhausted')
    BY <1>1 DEF ChipFresh, ChipExhausted
  <2>2. PubComes' => PubComes
    BY <1>1, PubTail
  <2>. QED  BY <1>1, <1>9, <2>1, <2>2 DEF ChipNonces
<1>12. HostNonces'
  <2>1. (HostFresh => HostFresh') /\ (HostExhausted => HostExhausted')
    BY <1>1 DEF HostFresh, HostExhausted
  <2>2. \A k \in Int, n \in Nat : <<"host", k, n>> \in sent' =>
           IF xPc' = "idle" THEN k \in -exchanges' .. exchanges'
                            ELSE k \in -(exchanges' - 1) .. exchanges' - 1
    BY <1>1 DEF HostNonces
  <2>. QED  BY <1>1, <1>9, <2>1, <2>2 DEF HostNonces
<1>. QED  BY <1>6, <1>7, <1>8, <1>11, <1>12

\* The host handles the chip's public key.
LEMMA CheckPubkeyKeeps ==
  ASSUME LinkInv, SlTypeOK', CheckPubkey
  PROVE  LinkInv'
<1>. DEFINE h == Head(toHost)
<1>1. /\ toHost # <<>> /\ h.kind \in {"pub", "bad"} /\ toHost' = Tail(toHost)
      /\ Discards \/ Takes
      /\ UNCHANGED <<ecdh, renewWork, xPc, command, frozen, toChip, chipKey, chipTx,
                     exchanges, sent>>
  BY DEF CheckPubkey, cmdVars, chipKeyVars, slCounts
<1>. USE Numbers, LinkParts DEF LinkInv
<1>2. h \in Messages /\ Tail(toHost) \in Seq(Messages)
      /\ Len(toHost) \in Nat \ {0} /\ Len(Tail(toHost)) = Len(toHost) - 1
  BY <1>1, TailFacts
<1>3. After(h) = h.seq /\ h.kind \notin Answers
  BY <1>1 DEF Encoded, After, Answers
<1>4. h.kind = "pub" => h.seq = 0 /\ PubComes
  <2>1. 1 \in 1 .. Len(toHost) /\ h = toHost[1]
    BY <1>1, <1>2, TailFacts
  <2>. QED  BY <2>1 DEF QueueInv, QueueOK, PubComes
<1>5. /\ QueueOK(toHost', chipKey', chipTx') /\ Len(toHost') <= MaxQueue
      /\ IF toHost' = <<>>
         THEN chipKey = h.key /\ chipTx = After(h)
         ELSE Head(toHost').kind # "pub" =>
                 Head(toHost').key = h.key /\ Head(toHost').seq = After(h)
  <2>1. QueueOK(toHost', chipKey', chipTx')
    BY <1>1, QueueTail DEF QueueInv
  <2>2. Len(toHost') <= MaxQueue
    BY <1>1, <1>2 DEF QueueInv
  <2>. QED  BY <1>1, <2>1, <2>2, ExpectedTail
<1>6. /\ ~frozen => OneAnswer(toHost', command, xPc)
      /\ ~frozen /\ toChip # <<>> => NoAnswer(toHost')
  BY <1>1, AnswerTail DEF OneToChip
<1>7. PubComes' => PubComes
  BY <1>1, PubTail
<1>8. (ChipFresh => ChipFresh') /\ (ChipExhausted => ChipExhausted')
  BY <1>1 DEF ChipFresh, ChipExhausted
<1>9. CASE Discards
  <2>1. /\ UNCHANGED <<hostKey, txSeq, rxSeq>> /\ missed'
        /\ (apart' <=> apart \/ h.kind = "pub")
    BY <1>9 DEF Discards, hostKeyVars
  <2>. HIDE DEF h
  <2>2. ExchangeOwned' /\ Overdue'
    BY <1>1, <2>1 DEF ExchangeOwned, Overdue
  <2>3. OneToChip'
    BY <1>1, <1>6, <2>1 DEF OneToChip
  <2>4. QueueInv'
    <3>1. ~apart' => h.key = hostKey /\ h.seq = rxSeq % HdrMod
      BY <1>1, <2>1 DEF QueueInv, Expected, h
    <3>. QED  BY <1>3, <1>5, <2>1, <3>1, <1>1 DEF QueueInv, Expected
  <2>5. ChipNonces'
    BY <1>1, <1>7, <1>8, <2>2 DEF ChipNonces
  <2>6. HostNonces'
    <3>1. (HostFresh => HostFresh') /\ (HostExhausted => HostExhausted')
      BY <1>1, <2>1 DEF HostFresh, HostExhausted
    <3>. QED  BY <1>1, <2>1, <2>2, <3>1 DEF HostNonces
  <2>. QED  BY <2>2, <2>3, <2>4, <2>5, <2>6
<1>10. CASE Takes
  <2>1. /\ h.kind = "pub" /\ ecdh # 0 /\ txSeq' = 0 /\ rxSeq' = 0
        /\ \/ h.key = ecdh /\ hostKey' = ecdh /\ ~missed' /\ ~apart'
           \/ hostKey' = -ecdh /\ missed' /\ apart'
    BY <1>10 DEF Takes
  <2>. HIDE DEF h
  <2>2. ecdh = exchanges /\ xPc # "idle" /\ exchanges > 0 /\ ~command
    BY <2>1 DEF ExchangeOwned
  <2>3. ExchangeOwned'
    BY <1>1, <2>1, <2>2 DEF ExchangeOwned
  <2>4. OneToChip'
    BY <1>1, <1>6, <2>1, <2>2 DEF OneToChip
  <2>5. QueueInv'
    <3>1. 0 % HdrMod = 0
      BY ModSmall
    <3>2. ~apart' => h.key = hostKey' /\ After(h) = rxSeq' % HdrMod
      BY <1>3, <1>4, <2>1, <3>1
    <3>. QED  BY <1>1, <1>5, <3>2 DEF QueueInv, Expected
  <2>6. ChipNonces'
    <3>1. ChipFresh'
      BY <1>4, <1>8, <2>1 DEF ChipNonces
    <3>. QED  BY <1>1, <2>1, <3>1 DEF ChipNonces
  <2>7. HostNonces'
    <3>1. \A n \in Nat : <<"host", hostKey', n>> \notin sent
      <4>1. hostKey' \in Int /\ hostKey' \notin -(exchanges - 1) .. exchanges - 1
        BY <2>1, <2>2
      <4>. QED  BY <2>2, <4>1 DEF HostNonces
    <3>2. HostFresh'
      BY <1>1, <3>1 DEF HostFresh
    <3>3. \A k \in Int, n \in Nat : <<"host", k, n>> \in sent' =>
             IF xPc' = "idle" THEN k \in -exchanges' .. exchanges'
                              ELSE k \in -(exchanges' - 1) .. exchanges' - 1
      BY <1>1 DEF HostNonces
    <3>. QED  BY <2>1, <3>2, <3>3 DEF HostNonces
  <2>. QED  BY <2>3, <2>4, <2>5, <2>6, <2>7
<1>. QED  BY <1>1, <1>9, <1>10

\* The chip encodes a message, a confirmation or an indication.
LEMMA ChipEncodesKeeps ==
  ASSUME LinkInv, SlTypeOK', NEW kind \in Encoded, ChipEncodes(kind),
         UNCHANGED <<hostKeyVars, renewVars, cmdVars, chipKey, exchanges, apart,
                     missed>>
  PROVE  /\ ExchangeOwned' /\ QueueInv' /\ HostNonces' /\ ChipNonces'
         /\ \E m \in Messages : m.kind = kind /\ toHost' = Append(toHost, m)
<1>. DEFINE m == Message(kind, chipKey, chipTx)
<1>1. m \in Messages /\ m.kind = kind /\ m.key = chipKey /\ m.seq = chipTx
  BY LinkParts, MessageFacts DEF LinkInv
<1>2. /\ toHost' = Append(toHost, m) /\ Len(toHost) + 1 <= MaxQueue
      /\ \A k, n : <<"chip", k, n>> \in sent'
                     <=> <<"chip", k, n>> \in sent \/ (k = chipKey /\ n = chipTx)
      /\ \A k, n : <<"host", k, n>> \in sent' <=> <<"host", k, n>> \in sent
      /\ UNCHANGED <<hostKey, txSeq, rxSeq, ecdh, renewWork, xPc, command, frozen,
                     chipKey, exchanges, apart, missed>>
  BY DEF ChipEncodes, HasRoomForHost, hostKeyVars, renewVars, cmdVars
<1>10. chipTx' = (chipTx + 1) % HdrMod
  BY DEF ChipEncodes
<1>. HIDE DEF m
<1>. USE Numbers, LinkParts DEF LinkInv
<1>3. After(m) = chipTx' /\ m.kind # "pub"
  BY <1>1, <1>10 DEF After, Encoded
<1>4. chipTx' = IF chipTx = HdrMod - 1 THEN 0 ELSE chipTx + 1
  <2>1. chipTx \in 0 .. HdrMod - 1
    OBVIOUS
  <2>. QED  BY <1>10, <2>1, ModNext
<1>5. ExchangeOwned'
  BY <1>2 DEF ExchangeOwned
<1>6. QueueInv'
  <2>1. chipTx \in 0 .. HdrMod - 1
    OBVIOUS
  <2>2. QueueOK(toHost', chipKey', chipTx')
    BY <1>1, <1>2, <1>3, <2>1, QueueSaid DEF QueueInv
  <2>3. Len(toHost') <= MaxQueue
    BY <1>1, <1>2, AppendFacts
  <2>4. ~apart' => Expected'
    <3>1. ~apart => /\ Append(toHost, m) # <<>>
                    /\ Head(Append(toHost, m)).kind # "pub" =>
                          /\ Head(Append(toHost, m)).key = hostKey
                          /\ Head(Append(toHost, m)).seq = rxSeq % HdrMod
      BY <1>1, <1>3, ExpectedAppend
    <3>. QED  BY <1>2, <3>1 DEF Expected
  <2>. QED  BY <2>2, <2>3, <2>4 DEF QueueInv
<1>7. Overdue' <=> Overdue
  BY <1>2 DEF Overdue
<1>8. HostNonces'
  <2>1. (HostFresh => HostFresh') /\ (HostExhausted => HostExhausted')
    BY <1>2 DEF HostFresh, HostExhausted
  <2>. QED  BY <1>2, <1>7, <2>1 DEF HostNonces
<1>9. ChipNonces'
  <2>1. ChipExhausted => ChipExhausted'
    BY <1>2 DEF ChipExhausted
  <2>2. chipTx = HdrMod - 1 => ChipExhausted'
    <3>. SUFFICES ASSUME chipTx = HdrMod - 1, NEW n \in 0 .. HdrMod - 1
                  PROVE  <<"chip", chipKey', n>> \in sent'
      BY DEF ChipExhausted
    <3>1. n \in Nat /\ (n < chipTx \/ n = chipTx)
      OBVIOUS
    <3>2. n < chipTx => <<"chip", chipKey, n>> \in sent
      BY <3>1 DEF ChipNonces
    <3>. QED  BY <1>2, <3>1, <3>2
  <2>3. ChipFresh /\ chipTx # HdrMod - 1 => ChipFresh'
    BY <1>2, <1>4 DEF ChipFresh
  <2>4. PubComes' => PubComes
    BY <1>1, <1>2, <1>3, PubAppend
  <2>5. ~Overdue' \/ PubComes' => ChipFresh'
    <3>. SUFFICES ASSUME ~Overdue' \/ PubComes' PROVE ChipFresh'
      OBVIOUS
    <3>1. ChipFresh /\ chipTx + 1 < HdrMod
      BY <1>2, <1>7, <2>4, ChipFarFromEnd DEF ChipNonces
    <3>. QED  BY <2>3, <3>1
  <2>6. \A n \in Nat : n < chipTx' => <<"chip", chipKey', n>> \in sent'
    BY <1>2, <1>4 DEF ChipNonces
  <2>7. \A k \in Int, n \in Nat : <<"chip", k, n>> \in sent' => k <= chipKey'
    BY <1>2 DEF ChipNonces
  <2>8. ChipFresh' \/ ChipExhausted'
    BY <2>1, <2>2, <2>3 DEF ChipNonces
  <2>. QED  BY <1>2, <1>7, <2>5, <2>6, <2>7, <2>8 DEF ChipNonces
<1>. QED  BY <1>1, <1>2, <1>5, <1>6, <1>8, <1>9

LEMMA ChipConfirmsKeeps ==
  ASSUME LinkInv, SlTypeOK', ChipConfirms
  PROVE  LinkInv'
<1>1. /\ ChipEncodes("cnf") /\ "cnf" \in Encoded
      /\ UNCHANGED <<hostKeyVars, renewVars, cmdVars, chipKey, exchanges, apart,
                     missed>>
  BY DEF ChipConfirms, Encoded, slCounts
<1>2. /\ toChip # <<>> /\ Head(toChip).kind = "cmd" /\ toChip' = Tail(toChip)
  BY DEF ChipConfirms
<1>3. /\ ExchangeOwned' /\ QueueInv' /\ HostNonces' /\ ChipNonces'
      /\ \E m \in Messages : m.kind = "cnf" /\ toHost' = Append(toHost, m)
  BY <1>1, ChipEncodesKeeps
<1>4. PICK m \in Messages : m.kind = "cnf" /\ toHost' = Append(toHost, m)
  BY <1>3
<1>. USE LinkParts DEF LinkInv
<1>5. toChip' = <<>> /\ Len(toChip') = 0
  BY <1>2, OneMessage DEF OneToChip
<1>6. ~frozen' => OneAnswer(toHost', command', xPc')
  <2>. SUFFICES ASSUME ~frozen' PROVE OneAnswer(toHost', command', xPc')
    OBVIOUS
  <2>1. ~frozen /\ command' = command /\ xPc' = xPc
    BY <1>1 DEF cmdVars, renewVars
  <2>2. command /\ NoAnswer(toHost)
    BY <1>2, <2>1 DEF OneToChip
  <2>. QED  BY <1>4, <2>1, <2>2, AnswerAppend
<1>7. OneToChip'
  BY <1>5, <1>6 DEF OneToChip
<1>. QED  BY <1>3, <1>7

LEMMA ChipReportsKeeps ==
  ASSUME LinkInv, SlTypeOK', ChipReports
  PROVE  LinkInv'
<1>1. /\ ChipEncodes("ind") /\ "ind" \in Encoded
      /\ UNCHANGED <<hostKeyVars, renewVars, cmdVars, chipKey, exchanges, apart,
                     missed>>
  BY DEF ChipReports, Encoded
<1>2. toChip' = toChip
  BY DEF ChipReports
<1>3. /\ ExchangeOwned' /\ QueueInv' /\ HostNonces' /\ ChipNonces'
      /\ \E m \in Messages : m.kind = "ind" /\ toHost' = Append(toHost, m)
  BY <1>1, ChipEncodesKeeps
<1>4. PICK m \in Messages : m.kind = "ind" /\ toHost' = Append(toHost, m)
  BY <1>3
<1>. USE LinkParts DEF LinkInv
<1>5. /\ NoAnswer(toHost) => NoAnswer(toHost')
      /\ OneAnswer(toHost, command, xPc) => OneAnswer(toHost', command, xPc)
  BY <1>4, AnswerAppend DEF Answers
<1>6. UNCHANGED <<command, frozen, xPc, hostKey, exchanges, chipKey>>
  BY <1>1 DEF cmdVars, renewVars, hostKeyVars
<1>7. OneToChip'
  BY <1>2, <1>5, <1>6 DEF OneToChip
<1>. QED  BY <1>3, <1>7

\* The chip handles the public key of the host.
LEMMA ChipExchangesKeeps ==
  ASSUME LinkInv, SlTypeOK', ChipExchanges
  PROVE  LinkInv'
<1>. DEFINE a == Message("asked", chipKey, chipTx)
            b == Message("bad", chipKey, chipTx)
            r == Message("refused", chipKey, chipTx)
            k == Head(toChip).key
            p == Message("pub", k, 0)
            asked == Append(toHost, a)
<1>1. /\ toChip # <<>> /\ Head(toChip).kind = "pub" /\ toChip' = Tail(toChip)
      /\ Len(toHost) + 2 <= MaxQueue
      /\ \/ toHost' = Append(asked, p) /\ chipKey' = k /\ chipTx' = 0
         \/ /\ toHost' \in {Append(asked, b), asked, Append(toHost, r)}
            /\ chipKey' = chipKey /\ chipTx' = chipTx
      /\ UNCHANGED <<hostKey, txSeq, rxSeq, ecdh, renewWork, xPc, command, frozen,
                     exchanges, apart, missed, sent>>
  BY DEF ChipExchanges, HasRoomForHost, hostKeyVars, renewVars, cmdVars, slCounts,
         chipKeyVars
<1>2. /\ a \in Messages /\ a.kind = "asked" /\ a.key = chipKey /\ a.seq = chipTx
      /\ b \in Messages /\ b.kind = "bad" /\ b.key = chipKey /\ b.seq = chipTx
      /\ r \in Messages /\ r.kind = "refused" /\ r.key = chipKey /\ r.seq = chipTx
  BY LinkParts DEF LinkInv, Message, Messages
<1>3. k = exchanges /\ k \in Nat /\ chipKey < k /\ (xPc = "ask" \/ frozen)
  BY <1>1, LinkParts DEF LinkInv, OneToChip
<1>4. p \in Messages /\ p.kind = "pub" /\ p.key = k /\ p.seq = 0
  BY <1>3 DEF Message, Messages
<1>. HIDE DEF a, b, r, p, k
<1>. USE Numbers, LinkParts DEF LinkInv
<1>5. /\ After(a) = chipTx /\ After(b) = chipTx /\ After(r) = chipTx
      /\ chipTx \in 0 .. HdrMod - 1
  BY <1>2 DEF After, Encoded
<1>6. /\ asked \in Seq(Messages) /\ asked # <<>> /\ Len(asked) = Len(toHost) + 1
      /\ QueueOK(asked, chipKey, chipTx)
      /\ ~apart => (Head(asked).kind # "pub" =>
            Head(asked).key = hostKey /\ Head(asked).seq = rxSeq % HdrMod)
  <2>1. QueueOK(asked, chipKey, chipTx)
    BY <1>2, <1>5, QueueSaid DEF QueueInv
  <2>2. /\ asked \in Seq(Messages) /\ asked # <<>> /\ Len(asked) = Len(toHost) + 1
    <3>1. asked \in Seq(Messages) /\ Len(asked) = Len(toHost) + 1
      BY <1>2, AppendFacts
    <3>. HIDE DEF asked
    <3>. QED  BY <3>1, EmptyFacts
  <2>3. ~apart => (Head(asked).kind # "pub" =>
           Head(asked).key = hostKey /\ Head(asked).seq = rxSeq % HdrMod)
    BY <1>2, ExpectedAppend
  <2>. QED  BY <2>1, <2>2, <2>3
<1>7. ASSUME NEW m \in Messages, toHost' = Append(asked, m)
      PROVE  /\ Head(toHost') = Head(asked) /\ toHost' # <<>>
             /\ Len(toHost') = Len(toHost) + 2
  <2>. HIDE DEF asked
  <2>1. Head(toHost') = Head(asked) /\ toHost' # <<>>
    BY <1>6, <1>7, LaterMessage
  <2>2. Len(toHost') = Len(asked) + 1
    BY <1>6, <1>7, AppendFacts
  <2>. QED  BY <1>6, <2>1, <2>2
<1>8. /\ QueueOK(toHost', chipKey', chipTx') /\ toHost' # <<>>
      /\ Len(toHost') <= MaxQueue
      /\ ~apart => (Head(toHost').kind # "pub" =>
            Head(toHost').key = hostKey /\ Head(toHost').seq = rxSeq % HdrMod)
  <2>. HIDE DEF asked
  <2>1. CASE toHost' = Append(asked, p) /\ chipKey' = k /\ chipTx' = 0
    <3>1. QueueOK(toHost', chipKey', chipTx')
      BY <1>4, <1>6, <2>1, QueuePub
    <3>. QED  BY <1>1, <1>4, <1>6, <1>7, <2>1, <3>1
  <2>2. CASE toHost' = Append(asked, b) /\ chipKey' = chipKey /\ chipTx' = chipTx
    <3>1. QueueOK(toHost', chipKey', chipTx')
      BY <1>2, <1>5, <1>6, <2>2, QueueSaid
    <3>. QED  BY <1>1, <1>2, <1>6, <1>7, <2>2, <3>1
  <2>3. CASE toHost' = asked /\ chipKey' = chipKey /\ chipTx' = chipTx
    BY <1>1, <1>6, <2>3
  <2>4. CASE toHost' = Append(toHost, r) /\ chipKey' = chipKey /\ chipTx' = chipTx
    <3>1. QueueOK(toHost', chipKey', chipTx')
      BY <1>2, <1>5, <2>4, QueueSaid DEF QueueInv
    <3>2. toHost' # <<>> /\ Len(toHost') <= MaxQueue
      BY <1>1, <1>2, <2>4, AppendFacts
    <3>3. ~apart => (Head(toHost').kind # "pub" =>
             Head(toHost').key = hostKey /\ Head(toHost').seq = rxSeq % HdrMod)
      BY <1>2, <2>4, ExpectedAppend
    <3>. QED  BY <3>1, <3>2, <3>3
  <2>. QED  BY <1>1, <2>1, <2>2, <2>3, <2>4
<1>9. QueueInv'
  BY <1>1, <1>8 DEF QueueInv, Expected
<1>10. ExchangeOwned'
  BY <1>1, <1>3 DEF ExchangeOwned
<1>11. OneToChip'
  <2>1. toChip' = <<>> /\ Len(toChip') = 0
    BY <1>1, OneMessage DEF OneToChip
  <2>2. ~frozen => OneAnswer(toHost', command', xPc')
    <3>. SUFFICES ASSUME ~frozen PROVE OneAnswer(toHost', command', xPc')
      OBVIOUS
    <3>1. NoAnswer(toHost) /\ xPc = "ask"
      BY <1>1, <1>3 DEF OneToChip
    <3>2. OneAnswer(asked, command, xPc)
      BY <1>2, <3>1, AnswerAppend
    <3>. HIDE DEF asked
    <3>3. OneAnswer(Append(asked, p), command, xPc)
      BY <1>4, <1>6, <3>2, AnswerAppend DEF Answers
    <3>4. OneAnswer(Append(asked, b), command, xPc)
      BY <1>2, <1>6, <3>2, AnswerAppend DEF Answers
    <3>5. OneAnswer(Append(toHost, r), command, xPc)
      BY <1>2, <3>1, AnswerAppend
    <3>. QED  BY <1>1, <3>2, <3>3, <3>4, <3>5
  <2>. QED  BY <1>1, <2>1, <2>2 DEF OneToChip
<1>12. Overdue' <=> Overdue
  BY <1>1 DEF Overdue
<1>13. HostNonces'
  <2>1. (HostFresh => HostFresh') /\ (HostExhausted => HostExhausted')
    BY <1>1 DEF HostFresh, HostExhausted
  <2>. QED  BY <1>1, <1>12, <2>1 DEF HostNonces
<1>14. ChipNonces'
  <2>1. CASE chipKey' = k /\ chipTx' = 0
    <3>1. ChipFresh'
      BY <1>1, <1>3, <2>1 DEF ChipNonces, ChipFresh
    <3>. QED  BY <1>1, <1>3, <1>12, <2>1, <3>1 DEF ChipNonces
  <2>2. CASE /\ toHost' \in {Append(asked, b), asked, Append(toHost, r)}
             /\ chipKey' = chipKey /\ chipTx' = chipTx
    <3>1. (ChipFresh => ChipFresh') /\ (ChipExhausted => ChipExhausted')
      BY <1>1, <2>2 DEF ChipFresh, ChipExhausted
    <3>2. PubComes' => PubComes
      <4>1. ASSUME NEW i \in 1 .. Len(toHost'), toHost'[i].kind = "pub"
            PROVE  i \in 1 .. Len(toHost) /\ toHost[i].kind = "pub"
        <5>1. \A j \in 1 .. Len(asked) : asked[j].kind = "pub" =>
                 j \in 1 .. Len(toHost) /\ toHost[j].kind = "pub"
          BY <1>2, AppendFacts
        <5>. HIDE DEF asked
        <5>2. CASE toHost' = Append(asked, b)
          <6>1. i \in 1 .. Len(asked) /\ asked[i].kind = "pub"
            BY <1>2, <1>6, <4>1, <5>2, AppendFacts
          <6>. QED  BY <5>1, <6>1
        <5>3. CASE toHost' = asked
          BY <4>1, <5>1, <5>3
        <5>4. CASE toHost' = Append(toHost, r)
          BY <1>2, <4>1, <5>4, AppendFacts
        <5>. QED  BY <2>2, <5>2, <5>3, <5>4
      <4>. QED  BY <4>1 DEF PubComes
    <3>. QED  BY <1>1, <1>12, <2>2, <3>1, <3>2 DEF ChipNonces
  <2>. QED  BY <1>1, <2>1, <2>2
<1>. QED  BY <1>9, <1>10, <1>11, <1>13, <1>14

-----------------------------------------------------------------------------
(* The theorems *)

LEMMA LinkInit == Init => LinkInv
<1>. SUFFICES ASSUME Init PROVE LinkInv
  OBVIOUS
<1>1. /\ hostKey = 0 /\ txSeq = 0 /\ rxSeq = 0 /\ ecdh = 0 /\ ~renewWork
      /\ renewDone = 0 /\ xPc = "idle" /\ ~command /\ ~frozen /\ renewWork \in BOOLEAN
      /\ command \in BOOLEAN /\ frozen \in BOOLEAN /\ apart \in BOOLEAN
      /\ missed \in BOOLEAN /\ toChip = <<>> /\ toHost = <<>> /\ chipKey = 0
      /\ chipTx = 0 /\ exchanges = 0 /\ cmds = 0 /\ inds = 0 /\ ~apart /\ ~missed
      /\ sent = {}
  BY DEF Init, SlInit
<1>2. 0 % HdrMod = 0
  BY Numbers, ModSmall
<1>3. SlTypeOK
  BY <1>1, Numbers, SlAssumption DEF SlTypeOK
<1>4. Len(toHost) = 0 /\ Len(toChip) = 0
  BY <1>1
<1>5. ExchangeOwned /\ OneToChip
  BY <1>1, <1>4 DEF ExchangeOwned, OneToChip, OneAnswer
<1>6. QueueInv
  BY <1>1, <1>2, <1>4, Numbers DEF QueueInv, QueueOK, Expected
<1>7. HostNonces
  <2>1. HostFresh
    BY <1>1 DEF HostFresh
  <2>2. \A n \in Nat : ~(n < txSeq)
    BY <1>1
  <2>3. txSeq < Period
    BY <1>1, Numbers
  <2>4. \A k \in Int, n \in Nat : <<"host", k, n>> \notin sent
    BY <1>1
  <2>. QED  BY <2>1, <2>2, <2>3, <2>4 DEF HostNonces
<1>8. ChipNonces
  BY <1>1, <1>4, Numbers DEF ChipNonces, ChipFresh
<1>. QED  BY <1>3, <1>5, <1>6, <1>7, <1>8 DEF LinkInv

\* What a step of the device does to the link.
LEMMA LinkSteps ==
  ASSUME [Next]_vars
  PROVE  LinkStep \/ UNCHANGED slVars
<1>1. CASE FwNext /\ UNCHANGED <<slVars, linkMode>>
  BY <1>1
<1>2. CASE Boot
  BY <1>2 DEF Boot, Started, NotStarted, LinkStarts, LinkDone, Configure, ProbeFails,
              LinkStep
<1>3. CASE LinkNext
  BY <1>3 DEF LinkNext, LinkStep, SlNext
<1>4. CASE UNCHANGED vars
  BY <1>4 DEF vars
<1>. QED  BY <1>1, <1>2, <1>3, <1>4 DEF Next

LEMMA LinkStepKeeps ==
  ASSUME LinkInv, LinkStep
  PROVE  LinkInv'
<1>1. SlTypeOK'
  BY LinkTypes DEF LinkInv
<1>2. CASE SendCmd
  BY <1>1, <1>2, SendCmdKeeps
<1>3. CASE Exchange \/ ExchangeFails
  BY <1>1, <1>3, ExchangeKeeps, ExchangeFailsKeeps
<1>4. CASE Bh
  BY <1>1, <1>4, ReceiveKeeps, PubKeyConfirmedKeeps, CheckPubkeyKeeps DEF Bh
<1>5. CASE Waits
  BY <1>1, <1>5, TimeoutsKeep, ExchangedKeeps DEF Waits
<1>6. CASE ChipLink
  BY <1>1, <1>6, ChipConfirmsKeeps, ChipReportsKeeps, ChipExchangesKeeps DEF ChipLink
<1>. QED  BY <1>2, <1>3, <1>4, <1>5, <1>6 DEF LinkStep, SlNext, RenewKey

LEMMA LinkInductive == LinkInv /\ [Next]_vars => LinkInv'
<1>. SUFFICES ASSUME LinkInv, [Next]_vars PROVE LinkInv'
  OBVIOUS
<1>1. CASE UNCHANGED slVars
  <2>1. UNCHANGED <<hostKey, txSeq, rxSeq, ecdh, renewWork, renewDone, xPc, command,
                    frozen, toChip, toHost, chipKey, chipTx, exchanges, cmds, inds,
                    apart, missed, sent>>
    BY <1>1 DEF slVars, hostKeyVars, renewVars, cmdVars, chipKeyVars, slCounts
  <2>2. SlTypeOK' /\ ExchangeOwned' /\ OneToChip' /\ QueueInv'
    BY <2>1 DEF LinkInv, SlTypeOK, ExchangeOwned, OneToChip, QueueInv, Expected
  <2>3. HostNonces' /\ ChipNonces'
    BY <2>1 DEF LinkInv, HostNonces, HostFresh, HostExhausted, ChipNonces, ChipFresh,
                ChipExhausted, PubComes, Overdue
  <2>. QED  BY <2>2, <2>3 DEF LinkInv
<1>. QED  BY <1>1, LinkSteps, LinkStepKeeps

\* Every message that is decoded has the key that the host has, and the number
\* that it expects, however the changes of key on the two sides, timeouts and
\* late keys interleave, unless the host has not taken a key of the chip.
THEOREM KeysAgree == Spec => []SameKey
<1>1. Init => LinkInv
  BY LinkInit
<1>2. LinkInv /\ [Next]_vars => LinkInv'
  BY LinkInductive
<1>3. LinkInv => SameKey
  <2>. SUFFICES ASSUME LinkInv, ~apart PROVE SameKey
    BY DEF SameKey
  <2>. USE LinkParts DEF LinkInv
  <2>1. toHost # <<>> /\ Head(toHost).kind \in Encoded =>
           Head(toHost).key = hostKey /\ Head(toHost).seq = rxSeq % HdrMod
    BY DEF QueueInv, Expected, Encoded
  <2>2. ASSUME \A m \in ToSet(toHost) : m.kind # "pub",
               NEW m \in ToSet(toChip), m.kind = "cmd"
        PROVE  m.key = chipKey
    <3>1. \A i \in 1 .. Len(toHost) : toHost[i].kind # "pub"
      BY <2>2 DEF ToSet
    <3>2. chipKey = hostKey
      <4>1. CASE toHost = <<>>
        BY <4>1 DEF QueueInv, Expected
      <4>2. CASE toHost # <<>>
        <5>1. 1 \in 1 .. Len(toHost) /\ Head(toHost) = toHost[1]
          BY <4>2, TailFacts
        <5>2. chipKey = toHost[1].key
          BY <3>1, <5>1 DEF QueueInv, QueueOK
        <5>3. Head(toHost).key = hostKey
          BY <3>1, <4>2, <5>1 DEF QueueInv, Expected
        <5>. QED  BY <5>1, <5>2, <5>3
      <4>. QED  BY <4>1, <4>2
    <3>3. m = Head(toChip) /\ toChip # <<>>
      <4>1. PICK i \in DOMAIN toChip : m = toChip[i]
        BY <2>2 DEF ToSet
      <4>2. toChip \in Seq(Messages) /\ Len(toChip) <= 1 /\ i \in 1 .. Len(toChip)
        BY <4>1 DEF OneToChip
      <4>. QED  BY <4>1, <4>2, OnlyMessage
    <3>. QED  BY <2>2, <3>2, <3>3 DEF OneToChip
  <2>. QED  BY <2>1, <2>2 DEF SameKey
<1>. QED  BY <1>1, <1>2, <1>3, PTL DEF Spec

\* No nonce is used twice with a key before all have been used, and all are used
\* only when the renewal of the key is overdue: not while the exchanges succeed.
THEOREM NoncesFresh == Spec => NonceFresh
<1>1. Init => LinkInv
  BY LinkInit
<1>2. LinkInv /\ [Next]_vars => LinkInv'
  BY LinkInductive
<1>3. ASSUME LinkInv, [Next]_vars
      PROVE  [/\ /\ Len(toChip') > Len(toChip) /\ Last(toChip').kind = "cmd"
                 /\ <<"host", hostKey, txSeq>> \in sent
                 => Overdue /\ HostExhausted
              /\ /\ Len(toHost') > Len(toHost) /\ Last(toHost').kind \in Encoded
                 /\ <<"chip", chipKey, chipTx>> \in sent
                 => Overdue /\ ChipExhausted]_slVars
  <2>. USE LinkParts, <1>3 DEF LinkInv
  <2>1. <<"host", hostKey, txSeq>> \in sent => Overdue /\ HostExhausted
    <3>1. HostFresh => <<"host", hostKey, txSeq>> \notin sent
      BY DEF HostFresh
    <3>. QED  BY <3>1 DEF HostNonces
  <2>2. <<"chip", chipKey, chipTx>> \in sent => Overdue /\ ChipExhausted
    <3>1. ChipFresh => <<"chip", chipKey, chipTx>> \notin sent
      BY DEF ChipFresh
    <3>. QED  BY <3>1 DEF ChipNonces
  <2>. QED  BY <2>1, <2>2
<1>. QED  BY <1>1, <1>2, <1>3, PTL DEF Spec, NonceFresh

\* Every variable of the device keeps its type, whatever the chip does and
\* however late its key comes.
THEOREM DeviceTypeCorrect == Spec => []TypeOK
<1>1. Init => UploadInv /\ LinkInv /\ TypeOK
  <2>1. Init => UploadInv
    BY FwAssumption
       DEF Init, FwInit, UploadInv, FwTypeOK, Pointers, Written, BlocksIntact
  <2>2. Init => LinkInv /\ SlTypeOK
    BY LinkInit DEF LinkInv
  <2>. QED  BY <2>1, <2>2 DEF Init, FwInit, TypeOK, UploadInv
<1>2. UploadInv /\ LinkInv /\ TypeOK /\ [Next]_vars
        => UploadInv' /\ LinkInv' /\ TypeOK'
  <2>. SUFFICES ASSUME UploadInv, LinkInv, TypeOK, [Next]_vars
                PROVE  UploadInv' /\ LinkInv' /\ TypeOK'
    OBVIOUS
  <2>1. UploadInv' /\ FwTypeOK'
    BY UploadNext DEF UploadInv
  <2>2. LinkInv' /\ SlTypeOK'
    BY LinkInductive DEF LinkInv
  <2>3. /\ bootPc' \in {"start", "upload", "put", "jumped", "slink", "exchange", "pds",
                        "subscribe", "register", "up", "failed"} \cup Turns
        /\ linkMode' \in {"unknown", "SEC_LINK_UNAVAILABLE", "SEC_LINK_EVAL",
                          "SEC_LINK_ENFORCED"}
    <3>1. CASE FwNext /\ UNCHANGED <<slVars, linkMode>>
      BY <3>1 DEF TypeOK, FwNext, HostBoots, BootStarts, Answered, NotAnswered,
                  PollGet, WriteBlock, PutBlock, Uploaded, UploadFails, Rom,
                  RomAnswers, RomReads, romVars, Then, Turns, Expects
    <3>2. CASE Boot
      BY <3>2 DEF TypeOK, Boot, Started, NotStarted, LinkStarts, LinkDone,
                  Configure, ProbeFails, BootTo
    <3>3. CASE LinkNext \/ UNCHANGED vars
      BY <3>3 DEF TypeOK, LinkNext, vars, fwVars
    <3>. QED  BY <3>1, <3>2, <3>3 DEF Next
  <2>. QED  BY <2>1, <2>2, <2>3 DEF TypeOK
<1>. QED  BY <1>1, <1>2, PTL DEF Spec
=============================================================================
