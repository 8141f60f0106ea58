------------------------------- MODULE MemacTx -------------------------------
(***************************************************************************)
(* The transmit path: memac_tx_fe.vhd, which turns packets in the transmit *)
(* buffer into the byte stream to the PHY, between its two descriptor      *)
(* queues, and the firmware above it.  The firmware answers ARP requests   *)
(* and pings (memac_raw_arp.c, memac_raw_icmp.c): each of the two services *)
(* owns one reply, with a buffer of its own, that is FREE, PEND (built) or *)
(* RSVD (given to the transmitter), and memac_raw_poll runs for ever.      *)
(*                                                                         *)
(* Fe is one octet time: a cycle of umi_clk with umi_clken up, in which    *)
(* P_MAIN, U_CRC and the buffer work, and the cycles with umi_clken down   *)
(* that follow at 10 and 100 Mbit/s, in which only the byte select of      *)
(* memac_buf.vhd is clocked.  The queues appear as module MemacPdq proves  *)
(* them to be: a ready may be down at any time, and is up only while there *)
(* is room, or a descriptor.                                               *)
(*                                                                         *)
(* A byte of a reply is <<service, build, position, length>>; the CRC is   *)
(* the sequence of the bytes it covers and how far it has been shifted.    *)
(*                                                                         *)
(* Each service has room in the buffer for its longest proper reply, but a *)
(* ping is answered at whatever length its IP header claims: a reply can   *)
(* be longer than the room, than the queues' len field and than the buffer.*)
(***************************************************************************)
EXTENDS Integers, Sequences

CONSTANTS
  N,          \* the services, in the order memac_raw_poll serves them
  idx, room,  \* where each one's reply begins in the buffer, and the bytes that
              \* memac_raw_tx_alloc gave it: 0 and 42 for ARP, 42 and 1514 for ICMP
  Lens,       \* lengths its replies may have, as requests ask for them
  BUF_SIZE,   \* bytes in the buffer, four to a word; 8192
  QUEUE_LEN,  \* values of len in the queues, 2048 (eleven bits)
  DESC_LEN,   \* values of len in the firmware's descriptors, 65536 (uint16_t)
  PRE_LEN,    \* preamble and SFD, from the packet's options; 8 in the firmware,
              \* which also sets PRE_AUTO (memac_raw_bsp.c:100)
  FCS_AUTO,   \* whether the front end appends the FCS, likewise; 1
  CYCLES,     \* cycles of umi_clk per octet: 1, 10 or 100
  PRQ_SIZE, PFQ_SIZE  \* effective depths of the two queues

Services == 1 .. N

ASSUME TxAssumption ==
  /\ N \in Nat \ {0}
  /\ idx \in [Services -> Nat] /\ room \in [Services -> Nat \ {0}]
  /\ Lens \in [Services -> SUBSET (Nat \ {0})]
  /\ \A s \in Services :
       /\ idx[s] + room[s] <= BUF_SIZE /\ room[s] < QUEUE_LEN
       /\ \A t \in Services : s # t => idx[t] \notin idx[s] .. idx[s] + room[s] - 1
  /\ QUEUE_LEN \in Nat /\ DESC_LEN \in Nat /\ QUEUE_LEN <= DESC_LEN
  /\ BUF_SIZE \in Nat /\ BUF_SIZE % 4 = 0 /\ CYCLES \in {1, 10, 100}
  /\ PRE_LEN \in 2 .. 15 /\ FCS_AUTO \in {0, 1}
  /\ {PRQ_SIZE, PFQ_SIZE} \subseteq Nat \ {0}

VARIABLES
  pc,         \* where memac_raw_poll is
  st, len,    \* per service: state and length of the reply (its descriptor)
  build,      \* per service: which reply this is, 0 or 1 in turn (a history)
  unhandled,  \* a free descriptor nobody claimed came back (memacCountTxUnhandled)
  spilt,      \* a reply longer than its room has been built (a history)
  buf,        \* the transmit buffer
  prq, pfq,   \* descriptors in the two queues
  fe_state, count, prq_stb, pfq_stb, desc, buf_re, buf_len, buf_idx,
  sel,        \* umi_sel at stages 1, 2, 3
  word, bsel, \* the buffer's output: the word read, and the byte selected
  buf_d,      \* stage 3: the byte
  crc, crc_q, \* the registers of U_CRC
  umi,        \* the output: a byte, or Idle
  frame, gap  \* the bytes of the last frame and the idle cycles since (a history)

fw    == <<pc, st, len, build, unhandled, spilt, buf>>
fe    == <<fe_state, count, prq_stb, pfq_stb, desc, buf_re, buf_len, buf_idx,
           sel, word, bsel, buf_d, crc, crc_q, umi, frame, gap>>
vars  == <<fw, prq, pfq, fe>>

Idle  == <<>>
Blank == <<"XX">>     \* a byte nobody has written
NoDesc == [idx |-> 0, len |-> 0]

\* Definitions named Without..., For..., Only..., As... are slips the code could
\* have made; PROJECT.json names the property that catches each.

-----------------------------------------------------------------------------
\* Where memac_raw_poll is: the TX free queue, the RX queue, a service's turn.
Free == <<"free">>
Rx == <<"rx">>
Turn(s) == <<"send", s>>

Clean == [of |-> <<>>, shifted |-> 4]

Init ==
  /\ pc = Free /\ unhandled = FALSE /\ spilt = FALSE
  /\ st = [s \in Services |-> "FREE"]
  /\ len = room
  /\ build = [s \in Services |-> 0]
  /\ buf = [i \in 0 .. BUF_SIZE-1 |-> Blank]
  /\ prq = <<>> /\ pfq = <<>>
  /\ fe_state = "IDLE" /\ count = 0 /\ prq_stb = 0 /\ pfq_stb = 0
  /\ desc = NoDesc /\ buf_re = 0 /\ buf_len = 0 /\ buf_idx = 0
  /\ sel = <<"IPG", "IPG", "IPG">> /\ word = [i \in 0 .. 3 |-> Blank]
  /\ bsel = 0 /\ buf_d = Blank
  /\ crc = Clean /\ crc_q = <<<<>>, 0>>
  /\ umi = Idle /\ frame = <<>> /\ gap = 12

-----------------------------------------------------------------------------
\* The case statement of P_MAIN.  Go(s, n, u): next state, count, umi_sel.
Go(s, n, u) == fe_state' = s /\ count' = n /\ sel' = <<u, sel[1], sel[2]>>

\* buf_re, with buf_len and buf_idx, which count while it is up; both wrap round.
ReadAsInteger(re, n, i) ==
  /\ buf_re' = re
  /\ buf_len' = IF buf_re = 1 THEN buf_len - 1 ELSE n
  /\ buf_idx' = IF buf_re = 1 THEN (buf_idx + 1) % BUF_SIZE ELSE i

Read(re, n, i) ==
  /\ buf_re' = re
  /\ buf_len' = IF buf_re = 1 THEN (buf_len - 1) % QUEUE_LEN ELSE n
  /\ buf_idx' = IF buf_re = 1 THEN (buf_idx + 1) % BUF_SIZE ELSE i

Keep(re) == Read(re, buf_len, buf_idx)

\* A descriptor is taken and its strobe given.
FeIdle ==
  /\ fe_state = "IDLE" /\ prq # <<>>  \* prq_rdy = '1'
  /\ Go("PRE", 0, "PRE") /\ Read(0, prq[1].len, prq[1].idx)
  /\ desc' = prq[1] /\ prq_stb' = 1 /\ pfq_stb' = 0

FeStay ==
  /\ fe_state \in {"IDLE", "FIN"}     \* prq_rdy, pfq_rdy = '0'
  /\ Go(fe_state, count, sel[1]) /\ Keep(buf_re)
  /\ desc' = desc /\ prq_stb' = 0 /\ pfq_stb' = 0

FePre ==
  /\ fe_state = "PRE"
  /\ IF count = PRE_LEN - 2 THEN Go("PRE", count + 1, "SFD") /\ Keep(buf_re)
     ELSE IF count = PRE_LEN - 1 THEN Go("PKT", 0, "DATA") /\ Keep(1)
     ELSE Go("PRE", count + 1, sel[1]) /\ Keep(buf_re)
  /\ desc' = desc /\ prq_stb' = 0 /\ pfq_stb' = 0

FePktForZero ==
  /\ fe_state = "PKT"
  /\ IF buf_len = 0 THEN Go("FCS", 0, "FCS1") /\ Keep(0)
     ELSE Go("PKT", count, sel[1]) /\ Keep(buf_re)
  /\ pfq_stb' = (IF buf_len = 0 THEN 1 ELSE 0) /\ desc' = desc /\ prq_stb' = 0

FePkt ==
  /\ fe_state = "PKT"
  /\ IF buf_len = 1
     THEN /\ pfq_stb' = 1 /\ Keep(0)
          /\ IF FCS_AUTO = 1 THEN Go("FCS", 0, "FCS1") ELSE Go("IPG", 0, "IPG")
     ELSE /\ pfq_stb' = 0 /\ Keep(buf_re)
          /\ Go("PKT", count, sel[1])
  /\ desc' = desc /\ prq_stb' = 0

FeFcs ==
  /\ fe_state = "FCS"
  /\ IF count = 3 THEN Go("IPG", 0, "IPG")
     ELSE Go("FCS", count + 1, <<"FCS2", "FCS3", "FCS4">>[count + 1])
  /\ Keep(buf_re) /\ desc' = desc /\ prq_stb' = 0 /\ pfq_stb' = 0

FeIpgOnlyEight ==
  /\ fe_state = "IPG"
  /\ IF count = 8 THEN Go("FIN", 0, sel[1]) ELSE Go("IPG", count + 1, sel[1])
  /\ Keep(buf_re) /\ desc' = desc /\ prq_stb' = 0 /\ pfq_stb' = 0

FeIpg ==
  /\ fe_state = "IPG"
  /\ IF count = 9 THEN Go("FIN", 0, sel[1]) ELSE Go("IPG", count + 1, sel[1])
  /\ Keep(buf_re) /\ desc' = desc /\ prq_stb' = 0 /\ pfq_stb' = 0

FeFinWithoutRoom ==
  /\ fe_state = "FIN" /\ Go("IDLE", count, sel[1])
  /\ Keep(buf_re) /\ desc' = desc /\ prq_stb' = 0 /\ pfq_stb' = 0

FeFin ==
  /\ fe_state = "FIN" /\ Len(pfq) < PFQ_SIZE  \* pfq_rdy = '1'
  /\ Go("IDLE", count, sel[1])
  /\ Keep(buf_re) /\ desc' = desc /\ prq_stb' = 0 /\ pfq_stb' = 0

\* memac_buf: the RAMs are read in an enabled cycle when buf_re is up; umi_bsel
\* is clocked in every cycle of umi_clk, by then with the next address.
Buffer ==
  /\ word' = IF buf_re = 1 THEN [i \in 0 .. 3 |-> buf[4 * (buf_idx \div 4) + i]] ELSE word
  /\ bsel' = (IF CYCLES = 1 THEN buf_idx ELSE buf_idx') % 4

\* Stages 3 and 4: the byte from the buffer, the CRC, and the output.
Data ==
  /\ buf_d' = word[bsel]
  /\ IF sel[3] = "DATA"
     THEN crc' = [of |-> IF crc.shifted \in {0, 4} THEN Append(crc.of, buf_d)
                         ELSE <<Blank>>, shifted |-> 0]
          /\ crc_q' = <<crc'.of, 1>>
     ELSE crc' = (IF crc.shifted >= 3 THEN Clean ELSE [crc EXCEPT !.shifted = @ + 1])
          /\ crc_q' = <<crc.of, crc.shifted + 2>>
  /\ umi' = CASE sel[3] = "IPG"  -> Idle
              [] sel[3] = "PRE"  -> <<"55">>
              [] sel[3] = "SFD"  -> <<"D5">>
              [] sel[3] = "DATA" -> buf_d
              [] OTHER           -> crc_q
  /\ frame' = IF umi' = Idle THEN frame ELSE IF umi = Idle THEN <<umi'>> ELSE Append(frame, umi')
  /\ gap' = IF umi' # Idle THEN 0 ELSE IF gap < 12 THEN gap + 1 ELSE gap

Queues ==
  /\ prq' = IF prq_stb = 1 THEN Tail(prq) ELSE prq
  /\ pfq' = IF pfq_stb = 1 /\ Len(pfq) < PFQ_SIZE THEN Append(pfq, desc) ELSE pfq

Pipeline == Buffer /\ Data /\ Queues /\ UNCHANGED fw

Fe == (FeIdle \/ FeStay \/ FePre \/ FePkt \/ FeFcs \/ FeIpg \/ FeFin) /\ Pipeline

-----------------------------------------------------------------------------
\* memac_raw_poll.  First memac_raw_tx_free, if the PFQ is ready, and the
\* service that knows the descriptor.
OwnerOnlyFirst(d) ==
  {s \in {1} : d = [idx |-> idx[s], len |-> len[s]] /\ st[s] = "RSVD"}

Owner(d) == {s \in Services : d = [idx |-> idx[s], len |-> len[s]] /\ st[s] = "RSVD"}

TxFree ==
  /\ pc = Free /\ pfq # <<>>
  /\ pc' = Rx /\ pfq' = Tail(pfq)
  /\ st' = [s \in Services |-> IF s \in Owner(pfq[1]) THEN "FREE" ELSE st[s]]
  /\ unhandled' = (unhandled \/ Owner(pfq[1]) = {})
  /\ UNCHANGED <<len, build, spilt, buf, prq, fe>>

TxFreeNone ==
  /\ pc = Free /\ pc' = Rx
  /\ UNCHANGED <<st, len, build, unhandled, spilt, buf, prq, pfq, fe>>

\* The reply to a request of n bytes is written byte by byte, from idx on and
\* round the end of the buffer; the last byte written to a place stays.  Nobody
\* sees it half written while replies keep to their rooms (ReadsOnlyReserved).
Written(s, n, i) == {k \in 1 .. n : (idx[s] + k - 1) % BUF_SIZE = i}

Build(s, n) ==
  /\ st' = [st EXCEPT ![s] = "PEND"]
  /\ len' = [len EXCEPT ![s] = n % DESC_LEN]
  /\ build' = [build EXCEPT ![s] = 1 - @]
  /\ buf' = [i \in DOMAIN buf |-> IF Written(s, n, i) = {} THEN buf[i]
                ELSE <<s, build'[s], CHOOSE k \in Written(s, n, i) :
                                       \A j \in Written(s, n, i) : j <= k, n>>]
  /\ spilt' = (spilt \/ n > room[s])
  /\ UNCHANGED <<unhandled, prq, pfq, fe>>

RxRequestForAny(s, n) == pc = Rx /\ pc' = Turn(1) /\ Build(s, n)

\* A request for service s is answered if its reply is free, else dropped.  The
\* length comes from the request and is compared with nothing.
RxRequest(s, n) == pc = Rx /\ pc' = Turn(1) /\ st[s] = "FREE" /\ Build(s, n)

RxNone ==
  /\ pc = Rx /\ pc' = Turn(1)
  /\ UNCHANGED <<st, len, build, unhandled, spilt, buf, prq, pfq, fe>>

\* memac_raw_arp_tx_send, memac_raw_icmp_tx_send
AfterSend(s) == IF s + 1 \in Services THEN Turn(s + 1) ELSE Free

\* The descriptor of a reply as the bridge puts it into the queue, which is how
\* it comes back: the low bits of len.
D(s) == [idx |-> idx[s], len |-> len[s] % QUEUE_LEN]

TxSendWithoutRsvd(s) ==
  /\ pc = Turn(s) /\ pc' = AfterSend(s)
  /\ st[s] = "PEND" /\ Len(prq) < PRQ_SIZE
  /\ st' = [st EXCEPT ![s] = "FREE"]
  /\ prq' = Append(prq, D(s))
  /\ UNCHANGED <<len, build, unhandled, spilt, buf, pfq, fe>>

TxSend(s) ==
  /\ pc = Turn(s) /\ pc' = AfterSend(s)
  /\ st[s] = "PEND" /\ Len(prq) < PRQ_SIZE
  /\ st' = [st EXCEPT ![s] = "RSVD"]
  /\ prq' = Append(prq, D(s))
  /\ UNCHANGED <<len, build, unhandled, spilt, buf, pfq, fe>>

TxSendNone(s) ==
  /\ pc = Turn(s) /\ pc' = AfterSend(s)
  /\ UNCHANGED <<st, len, build, unhandled, spilt, buf, prq, pfq, fe>>

Firmware ==
  \/ TxFree \/ TxFreeNone \/ RxNone
  \/ \E s \in Services : TxSend(s) \/ TxSendNone(s) \/ \E n \in Lens[s] : RxRequest(s, n)

Next == Fe \/ Firmware

Spec == Init /\ [][Next]_vars

\* umi_clk and the processor run.  MemacPdq's OfferedToReader and
\* OfferedToWriter: a ready comes and is then there whenever it is looked at.
FairSpec ==
  /\ Spec
  /\ WF_vars(Fe) /\ WF_vars(Firmware)
  /\ WF_vars(FeIdle /\ Pipeline) /\ WF_vars(FeFin /\ Pipeline)
  /\ SF_vars(TxFree) /\ \A s \in Services : SF_vars(TxSend(s))
-----------------------------------------------------------------------------
\* Every variable keeps to the range its declaration or its use gives it; the
\* queues hold no more than they have room for.
TypeOK ==
  /\ st \in [Services -> {"FREE", "PEND", "RSVD"}]
  /\ len \in [Services -> 0 .. DESC_LEN-1]
  /\ build \in [Services -> 0 .. 1] /\ unhandled \in BOOLEAN /\ spilt \in BOOLEAN
  /\ Len(prq) <= PRQ_SIZE /\ Len(pfq) <= PFQ_SIZE
  /\ desc.idx \in 0 .. BUF_SIZE-1 /\ {desc.len, buf_len} \subseteq 0 .. QUEUE_LEN-1
  /\ fe_state \in {"IDLE", "PRE", "PKT", "FCS", "IPG", "FIN"} /\ count \in 0 .. 15
  /\ {prq_stb, pfq_stb, buf_re} \subseteq 0 .. 1
  /\ buf_idx \in 0 .. BUF_SIZE-1 /\ gap \in 0 .. 12

\* What the wire should carry for one build of a reply.
Contents(s, b, n) == [i \in 1 .. n |-> <<s, b, i, n>>]
Trailer(of) == IF FCS_AUTO = 1 THEN [i \in 1 .. 4 |-> <<of, i>>] ELSE <<>>
Frame(of) == [i \in 1 .. PRE_LEN - 1 |-> <<"55">>] \o <<<<"D5">>>> \o of \o Trailer(of)

\* Lengths of a reply that keep to its room.
Fitting(s) == {n \in Lens[s] : n <= room[s]}

\* A frame that has been sent is a preamble, all the bytes of one reply in
\* their order, none of them from an earlier or a later reply, and the FCS over
\* exactly those bytes.  This holds until a reply is longer than its room: such
\* a one may run into another reply while that is being sent, or over itself.
FrameIsWellFormed ==
  umi = Idle /\ frame # <<>> /\ ~spilt =>
    \E s \in Services, b \in 0 .. 1 : \E n \in Fitting(s) : frame = Frame(Contents(s, b, n))

\* Between two frames there are at least 12 idle octets, although the states
\* that make the gap are three stages ahead of the wire.
GapIsEnough == [][umi = Idle /\ umi' # Idle => gap = 12]_vars

\* The front end reads for a reply that is reserved for it; and if this reply
\* keeps to its room, whatever the others do, it reads only bytes of it, so the
\* firmware may write the others at any time.
ReadsOnlyReserved ==
  buf_re = 1 => \E s \in Services :
    /\ st[s] = "RSVD" /\ desc = D(s)
    /\ len[s] \in 1 .. room[s] => buf_idx \in idx[s] .. idx[s] + len[s] - 1

\* A descriptor comes back that belongs to no service only when a reply too long
\* for the queues' len was sent, and its service is then reserved for ever.  And
\* the front end gives a descriptor only to a queue with room, though it looked
\* at pfq_rdy before it took the packet, if it ever did.
FreesAreKnown ==
  /\ unhandled => \E s \in Services : st[s] = "RSVD" /\ len[s] >= QUEUE_LEN
  /\ pfq_stb = 1 => Len(pfq) < PFQ_SIZE

\* The transmit path implements the service promised to each protocol.
Holding == fe_state \in {"PRE", "PKT"} \/ pfq_stb = 1

Pending(s) == (\E i \in 1 .. Len(prq) : prq[i] = D(s)) \/ (Holding /\ desc = D(s))

Phase(s) == CASE st[s] = "FREE" -> "idle"
              [] st[s] = "PEND" -> "accepted"
              [] st[s] = "RSVD" -> IF Pending(s) THEN "queued" ELSE "sent"

Service == INSTANCE ReplyService WITH phase <- [s \in Services |-> Phase(s)]

ImplementsReplyService == Service!Spec

\* Every request that was accepted is answered and its reply is free again,
\* unless the reply is too long for the queues' len: that one is never matched
\* when it comes back.  It stops no other service.
RequestIsAnswered ==
  \A s \in Services : st[s] = "PEND" ~> st[s] = "FREE" \/ len[s] >= QUEUE_LEN
=============================================================================
