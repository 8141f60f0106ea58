------------------------------ MODULE MemacRxFe ------------------------------
(***************************************************************************)
(* memac_rx_fe.vhd: the receive front end of the Ethernet MAC.  It turns   *)
(* the byte stream of the PHY interface into packets in a ring buffer,     *)
(* announces each packet in the packet reservation queue (PRQ), and takes  *)
(* space back through the packet free queue (PFQ).                         *)
(*                                                                         *)
(* Rx is one enabled cycle of umi_clk: the whole process P_MAIN.  The two  *)
(* queues appear as module MemacPdq proves them to be: a ready may be down *)
(* at any time, and is up only while there is room, or a descriptor.  The  *)
(* firmware's receive loop (memac_raw_poll) pops a descriptor, uses the    *)
(* packet, and frees it.                                                   *)
(*                                                                         *)
(* A byte is the pair of the frame it belongs to and its position in it.   *)
(* A frame says how many bytes it has, how many 0x55 bytes it begins with  *)
(* and what follows them, which of its last four bytes differ from the CRC *)
(* of the bytes counted before them, and on which bytes umi_er is up.      *)
(***************************************************************************)
EXTENDS Integers, Sequences, FiniteSets, SequencesExt

CONSTANTS
  BUF_SIZE,    \* bytes in the ring
  LEN_MOD,     \* 2^width of prq_len
  COUNT_MAX,   \* the limit of count; 15 in the code
  IPG_MIN,     \* ipg_min, from the firmware's rx_ctrl
  pre_inc, fcs_inc,  \* likewise, 0 or 1
  PRQ_SIZE, PFQ_SIZE,  \* effective depths of the two queues
  Frames,      \* names of the frames the PHY may deliver, and what they are:
  Frame,       \* name -> [len, pre, sfd, wrong, er]
  HOLD,        \* bits of pfq_stb_r; 4 in the code
  GAP,         \* least number of idle cycles between two frames
  LOST_MAX     \* bound on the bytes lost, for TLC

ASSUME RxAssumption ==
  /\ {BUF_SIZE, LEN_MOD, COUNT_MAX, PRQ_SIZE, PFQ_SIZE, HOLD, GAP} \subseteq Nat \ {0}
  /\ COUNT_MAX >= 3      \* it counts the bytes of the FCS
  /\ IPG_MIN \in Nat /\ IPG_MIN - 2 <= COUNT_MAX
  /\ LOST_MAX \in Nat /\ {pre_inc, fcs_inc} \subseteq {0, 1}
  /\ Frame \in [Frames -> [len : Nat \ {0}, pre : Nat, sfd : {"D5", "other"},
                           wrong : SUBSET (1 .. 4), er : SUBSET Nat]]
  /\ LEN_MOD <= BUF_SIZE

\* Definitions named Without..., For..., Only..., Before... are slips the code could
\* have made; PROJECT.json names the property that catches each.

VARIABLES
  line,        \* the wire: next byte of the frame, idle cycles still due
  pipe,        \* umi_dv_r, umi_er_r and umi_data_r, (1 to 5)
  state, count,
  prq_len, prq_idx, prq_flag, prq_stb,
  buf_wr, buf_wptr, buf_rptr, buf_ff,
  pfq_rdy_r, pfq_len_r, pfq_stb, pfq_stb_r,
  ram,         \* the ring buffer
  prq, pfq,    \* descriptors in the two queues
  held,        \* descriptor the firmware is working on: <<>> or <<d>>
  lost         \* bytes whose free descriptor the PFQ did not take (a history)

fe   == <<state, count, prq_len, prq_idx, prq_flag, prq_stb, buf_wr, buf_wptr,
          buf_rptr, buf_ff, pfq_rdy_r, pfq_len_r, pfq_stb, pfq_stb_r>>
vars == <<line, pipe, fe, ram, prq, pfq, held, lost>>

-----------------------------------------------------------------------------
\* Bytes on the wire.  Idle is umi_dv = '0'.
Idle == <<>>
Byte(f, i) == <<f, i>>
dv(b) == b # Idle
FrameTable == Frame
len(f) == FrameTable[f].len
pre(f) == FrameTable[f].pre
er(b) == dv(b) /\ b[2] \in FrameTable[b[1]].er
wrong(b) == FrameTable[b[1]].wrong
kind(b) == IF b[2] <= pre(b[1]) THEN "55"
           ELSE IF b[2] = pre(b[1]) + 1 THEN FrameTable[b[1]].sfd ELSE "other"

\* What of a frame belongs in the buffer: from the byte after the SFD (or the
\* first, with the preamble) to the last, or to the one before the FCS.
FirstByte(f) == IF pre_inc = 1 THEN 1 ELSE pre(f) + 2
LastCovered(f) == IF len(f) - 4 >= FirstByte(f) THEN len(f) - 4 ELSE len(f)
LastByte(f) == IF fcs_inc = 0 THEN LastCovered(f) ELSE len(f)

\* No packet is as long as the ring: the front end has no check of its own.
ASSUME FramesFit == \A f \in Frames : LastByte(f) - FirstByte(f) + 1 < LEN_MOD

\* The PHY sends a frame byte after byte and then at least GAP idle cycles.
After(b) == [next |-> IF b[2] < len(b[1]) THEN Byte(b[1], b[2] + 1) ELSE Idle, gap |-> GAP]

Wire(b) ==
  \/ /\ line.next # Idle /\ b = line.next
     /\ line' = After(b)
  \/ /\ line.next = Idle /\ b = Idle
     /\ line' = [line EXCEPT !.gap = IF @ = 0 THEN 0 ELSE @ - 1]
  \/ /\ line = [next |-> Idle, gap |-> 0]
     /\ b \in {Byte(f, 1) : f \in Frames}
     /\ line' = After(b)

Init ==
  /\ line = [next |-> Idle, gap |-> 0]
  /\ pipe = [i \in 1 .. 5 |-> Idle]
  /\ state = "STARTUP" /\ count = 0
  /\ prq_len = 0 /\ prq_idx = 0 /\ prq_flag = {} /\ prq_stb = 0
  /\ buf_wr = 0 /\ buf_wptr = 0 /\ buf_rptr = 0 /\ buf_ff = 0
  /\ pfq_rdy_r = 0 /\ pfq_len_r = 0 /\ pfq_stb = 0 /\ pfq_stb_r = [i \in 1 .. HOLD |-> 0]
  /\ ram = [i \in 0 .. BUF_SIZE-1 |-> Idle]
  /\ prq = <<>> /\ pfq = <<>>
  /\ held = <<>> /\ lost = 0

-----------------------------------------------------------------------------
\* The statements after the case: the full flag, the write pointer, and what
\* they do to the descriptor, given the values the case left in it.
DescriptorWithoutTruncate(flag, n) ==
  /\ prq_flag' = IF prq_stb = 1 THEN {}
                 ELSE IF buf_wr = 1 /\ buf_ff = 1 THEN flag ELSE flag
  /\ prq_len' = IF buf_wr = 1 /\ buf_ff = 0 THEN (prq_len + 1) % LEN_MOD ELSE n
  /\ prq_idx' = IF prq_stb = 1 THEN buf_wptr ELSE prq_idx
Descriptor(flag, n) ==
  /\ prq_flag' = IF prq_stb = 1 THEN {}
                 ELSE IF buf_wr = 1 /\ buf_ff = 1 THEN flag \cup {"TRUNCATE"} ELSE flag
  /\ prq_len' = IF buf_wr = 1 /\ buf_ff = 0 THEN (prq_len + 1) % LEN_MOD ELSE n
  /\ prq_idx' = IF prq_stb = 1 THEN buf_wptr ELSE prq_idx

Next1(ptr) == (ptr + 1) % BUF_SIZE

buf_weAlways == buf_wr = 1
buf_we == buf_wr = 1 /\ buf_ff = 0

RingForEqual ==
  /\ buf_ff' = IF buf_ff = 0
               THEN IF buf_wr = 1 /\ buf_wptr = buf_rptr THEN 1 ELSE 0
               ELSE IF buf_rptr # buf_wptr THEN 0 ELSE 1
  /\ buf_wptr' = IF buf_we THEN Next1(buf_wptr) ELSE buf_wptr
  /\ ram' = IF buf_we THEN [ram EXCEPT ![buf_wptr] = pipe[5]] ELSE ram
Ring ==
  /\ buf_ff' = IF buf_ff = 0
               THEN IF buf_wr = 1 /\ Next1(buf_wptr) = buf_rptr THEN 1 ELSE 0
               ELSE IF buf_rptr # buf_wptr THEN 0 ELSE 1
  /\ buf_wptr' = IF buf_we THEN Next1(buf_wptr) ELSE buf_wptr
  /\ ram' = IF buf_we THEN [ram EXCEPT ![buf_wptr] = pipe[5]] ELSE ram

\* Space comes back: a free descriptor is fetched, and one strobe pops it and
\* moves the read pointer.
ReclaimWithoutHoldoff ==
  /\ pfq_rdy_r' \in {0, IF pfq = <<>> THEN 0 ELSE 1}
  /\ pfq_len_r' = IF pfq = <<>> THEN 0 ELSE pfq[1]
  /\ pfq_stb_r' = [i \in 1 .. HOLD |-> IF i = 1 THEN pfq_stb ELSE pfq_stb_r[i-1]]
  /\ pfq_stb' = IF pfq_rdy_r = 1
                THEN 1 ELSE 0
  /\ buf_rptr' = IF pfq_stb = 1 THEN (buf_rptr + pfq_len_r) % BUF_SIZE ELSE buf_rptr
Reclaim ==
  /\ pfq_rdy_r' \in {0, IF pfq = <<>> THEN 0 ELSE 1}
  /\ pfq_len_r' = IF pfq = <<>> THEN 0 ELSE pfq[1]
  /\ pfq_stb_r' = [i \in 1 .. HOLD |-> IF i = 1 THEN pfq_stb ELSE pfq_stb_r[i-1]]
  /\ pfq_stb' = IF pfq_rdy_r = 1 /\ pfq_stb = 0 /\ \A i \in 1 .. HOLD : pfq_stb_r[i] = 0
                THEN 1 ELSE 0
  /\ buf_rptr' = IF pfq_stb = 1 THEN (buf_rptr + pfq_len_r) % BUF_SIZE ELSE buf_rptr

\* Strobes push and pop.  A push without room, which PostsOnlyToRoom excludes,
\* is not stored.
Queues ==
  /\ prq' = IF prq_stb = 1 /\ Len(prq) < PRQ_SIZE
            THEN Append(prq, [len |-> prq_len, idx |-> prq_idx, flag |-> prq_flag])
            ELSE prq
  /\ pfq' = IF pfq_stb = 1 /\ pfq # <<>> THEN Tail(pfq) ELSE pfq

-----------------------------------------------------------------------------
\* The case statement of P_MAIN.
Case(s, n, wr, stb) == state' = s /\ count' = n /\ buf_wr' = wr /\ prq_stb' = stb

Startup(b) ==
  /\ state = "STARTUP"
  /\ Descriptor(prq_flag, prq_len)
  /\ IF ~dv(b) /\ \A i \in 1 .. 5 : ~dv(pipe[i])
     THEN Case("IDLE", count, buf_wr, 0)
     ELSE Case(state, count, buf_wr, 0)

Wait(b) ==
  /\ state = "IDLE" /\ ~dv(pipe[4])
  /\ Descriptor(prq_flag, prq_len)
  /\ Case(state, count, buf_wr, 0)

\* prq_flag(PRE_INC) is assigned, the other bits but FCS_BAD are kept.
AcceptWithoutRoom(b) ==
  /\ state = "IDLE" /\ dv(pipe[4])
  /\ Descriptor((prq_flag \ {"PRE_INC"}) \cup {"FCS_BAD"}
                  \cup (IF pre_inc = 1 THEN {"PRE_INC"} ELSE {}), 0)
  /\ Case(IF pre_inc = 1 THEN "PKT" ELSE "PRE", 0, pre_inc, 0)
Accept(b) ==
  /\ state = "IDLE" /\ dv(pipe[4]) /\ Len(prq) < PRQ_SIZE  \* prq_rdy = '1'
  /\ Descriptor((prq_flag \ {"PRE_INC"}) \cup {"FCS_BAD"}
                  \cup (IF pre_inc = 1 THEN {"PRE_INC"} ELSE {}), 0)
  /\ Case(IF pre_inc = 1 THEN "PKT" ELSE "PRE", 0, pre_inc, 0)

\* drops, a counter nothing else reads, is left out.
Refuse(b) ==
  /\ state = "IDLE" /\ dv(pipe[4])                         \* prq_rdy = '0'
  /\ Descriptor(prq_flag, prq_len)
  /\ Case("DROP", 0, buf_wr, 0)

Drop(b) ==
  /\ state = "DROP"
  /\ Descriptor(prq_flag, prq_len)
  /\ IF dv(pipe[4]) THEN Case(state, count, buf_wr, 0) ELSE Case("IPG", 0, buf_wr, 0)

PreambleForEight(b) ==
  /\ state = "PRE"
  /\ Descriptor(prq_flag \cup
        (CASE kind(pipe[5]) = "D5" -> IF count < 8 THEN {"PRE_SHORT"}
                                    ELSE IF count > 7 THEN {"PRE_LONG"} ELSE {}
         [] kind(pipe[5]) = "55" -> IF count > 6 THEN {"PRE_LONG"} ELSE {}
         [] OTHER -> {"PRE_BAD"})
         \cup (IF er(pipe[5]) THEN {"PRE_BAD"} ELSE {}), prq_len)
  /\ IF ~dv(pipe[4]) THEN Case("IPG", 0, 0, 0)
     ELSE IF kind(pipe[5]) = "55"
     THEN Case("PRE", (count + 1) % (COUNT_MAX + 1), buf_wr, 0)
     ELSE Case("PKT", 0, 1, 0)
Preamble(b) ==
  /\ state = "PRE"
  /\ Descriptor(prq_flag \cup
        (CASE kind(pipe[5]) = "D5" -> IF count < 7 THEN {"PRE_SHORT"}
                                    ELSE IF count > 7 THEN {"PRE_LONG"} ELSE {}
         [] kind(pipe[5]) = "55" -> IF count > 6 THEN {"PRE_LONG"} ELSE {}
         [] OTHER -> {"PRE_BAD"})
         \cup (IF er(pipe[5]) THEN {"PRE_BAD"} ELSE {}), prq_len)
  /\ IF ~dv(pipe[4]) THEN Case("IPG", 0, 0, 0)
     ELSE IF kind(pipe[5]) = "55"
     THEN Case("PRE", (count + 1) % (COUNT_MAX + 1), buf_wr, 0)
     ELSE Case("PKT", 0, 1, 0)

\* The end of a packet, in PKT or FCS.  If a frame follows after a single idle
\* cycle, it is already at the door.
EndOfPacket(flag) ==
  IF dv(pipe[3])
  THEN Descriptor({"IPG_SHORT"}, prq_len) /\ Case("IDLE", 0, 0, 1)
  ELSE Descriptor(flag, prq_len) /\ Case("IPG", 0, 0, 1)

PacketBefore(b) ==
  /\ state = "PKT"
  /\ LET flag == IF er(pipe[4]) THEN prq_flag \cup {"DATA_ERR"} ELSE prq_flag IN
     IF ~dv(b) /\ \A i \in 1 .. 5 : dv(pipe[i])
     THEN /\ Descriptor((flag \ {"FCS_INC"})
                          \cup (IF fcs_inc = 1 THEN {"FCS_INC"} ELSE {}), prq_len)
          /\ Case("FCS", 0, fcs_inc, 0)
     ELSE IF ~dv(pipe[4]) THEN EndOfPacket(flag)
     ELSE Descriptor(flag, prq_len) /\ Case(state, count, buf_wr, 0)
Packet(b) ==
  /\ state = "PKT"
  /\ LET flag == IF er(pipe[5]) THEN prq_flag \cup {"DATA_ERR"} ELSE prq_flag IN
     IF ~dv(b) /\ \A i \in 1 .. 5 : dv(pipe[i])
     THEN /\ Descriptor((flag \ {"FCS_INC"})
                          \cup (IF fcs_inc = 1 THEN {"FCS_INC"} ELSE {}), prq_len)
          /\ Case("FCS", 0, fcs_inc, 0)
     ELSE IF ~dv(pipe[4]) THEN EndOfPacket(flag)
     ELSE Descriptor(flag, prq_len) /\ Case(state, count, buf_wr, 0)

FcsOnlyLast(b) ==
  /\ state = "FCS"
  /\ LET first == IF count = 0 THEN prq_flag \ {"FCS_BAD"} ELSE prq_flag
         flag  == IF count + 1 \in wrong(pipe[5]) THEN first \cup {"FCS_BAD"} ELSE first \ {"FCS_BAD"}
     IN IF count = 3 THEN EndOfPacket(flag)
        ELSE Descriptor(flag, prq_len) /\ Case(state, count + 1, buf_wr, 0)
Fcs(b) ==
  /\ state = "FCS"
  /\ LET first == IF count = 0 THEN prq_flag \ {"FCS_BAD"} ELSE prq_flag
         flag  == IF count + 1 \in wrong(pipe[5]) THEN first \cup {"FCS_BAD"} ELSE first
     IN IF count = 3 THEN EndOfPacket(flag)
        ELSE Descriptor(flag, prq_len) /\ Case(state, count + 1, buf_wr, 0)

IpgWithoutLimit(b) ==
  /\ state = "IPG"
  /\ IF dv(pipe[3])
     THEN /\ Descriptor(IF count < IPG_MIN - 2 THEN {"IPG_SHORT"} ELSE {}, prq_len)
          /\ Case("IDLE", 0, buf_wr, 0)
     ELSE /\ Descriptor(prq_flag, prq_len)
          /\ Case(state, count + 1, buf_wr, 0)
Ipg(b) ==
  /\ state = "IPG"
  /\ IF dv(pipe[3])
     THEN /\ Descriptor(IF count < IPG_MIN - 2 THEN {"IPG_SHORT"} ELSE {}, prq_len)
          /\ Case("IDLE", 0, buf_wr, 0)
     ELSE /\ Descriptor(prq_flag, prq_len)
          /\ Case(state, IF count < COUNT_MAX THEN count + 1 ELSE count, buf_wr, 0)

\* One enabled cycle of umi_clk.
Rx ==
  \E b \in {Idle, line.next} \cup {Byte(f, 1) : f \in Frames} :
    /\ Wire(b)
    /\ pipe' = [i \in 1 .. 5 |-> IF i = 1 THEN b ELSE pipe[i-1]]
    /\ \/ Startup(b) \/ Wait(b) \/ Accept(b) \/ Refuse(b) \/ Drop(b)
       \/ Preamble(b) \/ Packet(b) \/ Fcs(b) \/ Ipg(b)
    /\ Ring /\ Reclaim /\ Queues
    /\ UNCHANGED <<held, lost>>

-----------------------------------------------------------------------------
\* memac_raw_poll: memac_raw_rx_get takes a descriptor; the packet is used;
\* memac_raw_rx_free gives its bytes back, or finds the PFQ not ready, which it
\* can be with room as well, fails, and nobody looks at its return code.  Bytes the firmware is done with are
\* forgotten: a packet that claimed one of them again would show it.
Cells(d) == {(d.idx + i) % BUF_SIZE : i \in 0 .. d.len-1}

RxGet ==
  /\ held = <<>> /\ prq # <<>>
  /\ held' = <<prq[1]>> /\ prq' = Tail(prq)
  /\ UNCHANGED <<line, pipe, fe, ram, pfq, lost>>

RxFree ==
  /\ held # <<>> /\ held' = <<>>
  /\ \/ Len(pfq) < PFQ_SIZE /\ pfq' = Append(pfq, held[1].len) /\ lost' = lost
     \/ lost + held[1].len <= LOST_MAX /\ pfq' = pfq /\ lost' = lost + held[1].len
  /\ ram' = [i \in 0 .. BUF_SIZE-1 |-> IF i \in Cells(held[1]) THEN Idle ELSE ram[i]]
  /\ UNCHANGED <<line, pipe, fe, prq>>

Next == Rx \/ RxGet \/ RxFree

Spec == Init /\ [][Next]_vars

-----------------------------------------------------------------------------
FlagBits == {"IPG_SHORT", "PRE_INC", "PRE_SHORT", "PRE_LONG", "PRE_BAD",
             "DATA_ERR", "FCS_INC", "FCS_BAD", "TRUNCATE"}
Descriptors == [len : 0 .. LEN_MOD-1, idx : 0 .. BUF_SIZE-1,
                flag : SUBSET FlagBits]

\* Every signal keeps its type.
TypeOK ==
  /\ state \in {"STARTUP", "IDLE", "DROP", "PRE", "PKT", "FCS", "IPG"}
  /\ count \in 0 .. COUNT_MAX
  /\ prq_len \in 0 .. LEN_MOD-1 /\ prq_flag \in SUBSET FlagBits
  /\ {prq_stb, buf_wr, buf_ff, pfq_rdy_r, pfq_stb} \subseteq {0, 1}
  /\ {prq_idx, buf_wptr, buf_rptr} \subseteq 0 .. BUF_SIZE-1
  /\ \A i \in 1 .. Len(prq) : prq[i] \in Descriptors
  /\ Len(prq) <= PRQ_SIZE /\ Len(pfq) <= PFQ_SIZE /\ Len(held) <= 1

\* The packets the firmware may still look at: announced and not yet freed.
Announced == prq \o held

\* The packet begins in the ring with a byte of frame f.
From(d, f) == d.len > 0 /\ ram[d.idx] # Idle /\ ram[d.idx][1] = f

\* A packet announced without the TRUNCATE flag is the whole of one frame, in
\* order and unharmed, wherever the ring pointers wrap.
IntactUnlessTruncated ==
  \A n \in 1 .. Len(Announced) :
    LET d == Announced[n] IN
    "TRUNCATE" \notin d.flag =>
      \E f \in Frames : /\ d.len = LastByte(f) - FirstByte(f) + 1
                       /\ \A i \in 0 .. d.len-1 :
                            ram[(d.idx + i) % BUF_SIZE] = Byte(f, FirstByte(f) + i)

\* The claim of the test bench (tb_memac_rx_fe.vhd, "length mismatch"): a packet
\* that starts where its frame does and lacks bytes of it carries TRUNCATE,
\* whatever the gap to the next frame.
TruncationIsFlagged ==
  \A n \in 1 .. Len(Announced), f \in Frames :
    LET d == Announced[n] IN
    d.len > 0 /\ ram[d.idx] = Byte(f, FirstByte(f))
      /\ d.len < LastByte(f) - FirstByte(f) + 1 => "TRUNCATE" \in d.flag

\* The front end never writes a byte of a packet the firmware has not freed.
NeverOverwritesAPacket ==
  [][ buf_we => \A n \in 1 .. Len(Announced) : buf_wptr \notin Cells(Announced[n]) ]_ram

\* A descriptor is only posted to a PRQ that has room for it, although room
\* was checked when the packet began.
PostsOnlyToRoom == prq_stb = 1 => Len(prq) < PRQ_SIZE

\* A packet announced without FCS_BAD has had its whole FCS compared, and it
\* matched: a frame too short to hold one never passes as good.
GoodMeansChecked ==
  \A n \in 1 .. Len(Announced), f \in Frames :
    From(Announced[n], f) /\ "FCS_BAD" \notin Announced[n].flag =>
      FrameTable[f].wrong = {} /\ len(f) >= FirstByte(f) + 4

\* An error that the PHY reported while a byte of the packet passed, before its
\* FCS, is reported with that packet and with no other.
ErrorGoesWithItsPacket ==
  \A n \in 1 .. Len(Announced), f \in Frames :
    From(Announced[n], f) =>
      ("DATA_ERR" \in Announced[n].flag
         <=> \E i \in FirstByte(f) .. LastCovered(f) : er(Byte(f, i)))

\* Without the preamble in the buffer, the flags tell what it looked like: not
\* seven bytes 0x55 and a 0xD5.
FlagsTellThePreamble ==
  \A n \in 1 .. Len(Announced), f \in Frames :
    LET flag == Announced[n].flag
        sfd == kind(Byte(f, pre(f) + 1)) IN
    From(Announced[n], f) /\ pre_inc = 0 =>
      /\ "PRE_BAD" \in flag <=> sfd # "D5" \/ \E i \in 1 .. pre(f) + 1 : er(Byte(f, i))
      /\ sfd = "D5" => /\ "PRE_SHORT" \in flag <=> pre(f) < 7
                       /\ "PRE_LONG" \in flag <=> pre(f) > 7

\* Bytes between the ring pointers: announced, freed and still on the way
\* back, lost, or part of the packet being received.
SumOf(q) == FoldLeft(LAMBDA sum, n : sum + n, 0, q)
LengthsOf(q) == [i \in DOMAIN q |-> q[i].len]
Outstanding ==
  SumOf(LengthsOf(Announced)) + SumOf(pfq)
    + lost + (IF state \in {"PKT", "FCS"} \/ prq_stb = 1 THEN prq_len ELSE 0)

\* The ring never forgets or invents space: its pointers differ by exactly the
\* bytes somebody holds, and where they are equal the full flag says which of
\* full and empty is meant.
SpaceIsAccounted ==
  /\ Outstanding <= BUF_SIZE
  /\ (buf_wptr - buf_rptr - Outstanding) % BUF_SIZE = 0
  /\ buf_wptr = buf_rptr => (buf_ff = 1 <=> Outstanding = BUF_SIZE)
=============================================================================
