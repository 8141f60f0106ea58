-------------------------- MODULE MemacRxFe_proofs --------------------------
(***************************************************************************)
(* The receive front end, proved for any size of the ring and of the       *)
(* queues, any frames and any settings of rx_ctrl, in layers, each an      *)
(* invariant that rests on those before it:                                *)
(*                                                                         *)
(*   TypeInv     the types                                                 *)
(*   WireInv     what stands in the five stages of the pipe                *)
(*   FsmInv      where the state machine stands in the frame               *)
(*   RoomInv     the room in the PRQ, checked early, is still there        *)
(*   ReclaimInv  what is fetched from the PFQ is what the strobe pops      *)
(*   LenInv      the length of the packet being received                   *)
(*   RingInv     the layout of the ring, in positions that never wrap      *)
(*   ContentInv  the bytes in the ring and the flags of the descriptors    *)
(*   SpaceInv    the sums of the lengths between the ring pointers         *)
(*                                                                         *)
(* All but the types suppose that frames are two idle cycles apart, GAP >= *)
(* 2: after a single one the next packet begins in the cycle in which the  *)
(* descriptor of the last is strobed, which run rx_fe_gap shows to fail.   *)
(***************************************************************************)
EXTENDS MemacRxFe, SequenceTheorems, WellFoundedInduction, TLAPS

(***************************************************************************)
(* Queues and arithmetic.                                                  *)
(***************************************************************************)
\* A queue after a push: the new element is behind the others.
LEMMA Pushed ==
  ASSUME NEW S, NEW q \in Seq(S), NEW x \in S
  PROVE  /\ Append(q, x) \in Seq(S) /\ Len(Append(q, x)) = Len(q) + 1 /\ Len(q) \in Nat
         /\ \A i \in 1 .. Len(q) : Append(q, x)[i] = q[i]
         /\ Append(q, x)[Len(q) + 1] = x
BY AppendProperties, LenProperties

\* A queue after a pop: every other element is one place nearer.
LEMMA Popped ==
  ASSUME NEW S, NEW q \in Seq(S), q # <<>>
  PROVE  /\ Tail(q) \in Seq(S) /\ Len(Tail(q)) = Len(q) - 1 /\ Len(q) \in Nat \ {0}
         /\ \A i \in 1 .. Len(q) - 1 : Tail(q)[i] = q[i + 1]
         /\ q[1] \in S
BY HeadTailProperties, EmptySeq, LenProperties, ElementOfSeq

LEMMA InSeq ==
  ASSUME NEW S, NEW q \in Seq(S)
  PROVE  Len(q) \in Nat /\ \A i \in 1 .. Len(q) : q[i] \in S
BY LenProperties, ElementOfSeq

LEMMA Sizes ==
  /\ BUF_SIZE \in Nat \ {0} /\ LEN_MOD \in Nat \ {0} /\ COUNT_MAX \in Nat /\ COUNT_MAX >= 3
  /\ PRQ_SIZE \in Nat \ {0} /\ PFQ_SIZE \in Nat \ {0} /\ HOLD \in Nat \ {0} /\ GAP \in Nat \ {0}
  /\ LEN_MOD <= BUF_SIZE /\ pre_inc \in {0, 1} /\ fcs_inc \in {0, 1} /\ IPG_MIN \in Nat
BY RxAssumption

LEMMA ModType ==
  ASSUME NEW B \in Nat \ {0}, NEW x \in Nat
  PROVE  x % B \in 0 .. B - 1
OBVIOUS

LEMMA ModUpTo ==
  ASSUME NEW B \in Nat, NEW x \in Nat
  PROVE  x % (B + 1) \in 0 .. B
OBVIOUS

(***************************************************************************)
(* One cycle of the front end without the case statement.                  *)
(***************************************************************************)
Works(b) ==
  /\ Wire(b) /\ pipe' = [i \in 1 .. 5 |-> IF i = 1 THEN b ELSE pipe[i-1]]
  /\ Ring /\ Reclaim /\ Queues /\ UNCHANGED <<held, lost>>
Cases(b) ==
  \/ Startup(b) \/ Wait(b) \/ Accept(b) \/ Refuse(b) \/ Drop(b)
  \/ Preamble(b) \/ Packet(b) \/ Fcs(b) \/ Ipg(b)

LEMMA RxIs == ASSUME Rx PROVE \E b : Works(b) /\ Cases(b)
BY DEF Rx, Works, Cases

(***************************************************************************)
(* The first invariant: types, with those of the wire, the ring and the    *)
(* queues.                                                                 *)
(***************************************************************************)
IsByte(b) == b = Idle \/ \E f \in Frames : \E k \in 1 .. len(f) : b = Byte(f, k)

WireType ==
  /\ line = [next |-> line.next, gap |-> line.gap] /\ line.gap \in 0 .. GAP /\ IsByte(line.next)
  /\ pipe = [i \in 1 .. 5 |-> pipe[i]] /\ \A i \in 1 .. 5 : IsByte(pipe[i])
RingType ==
  /\ buf_ff \in {0, 1} /\ buf_wptr \in 0 .. BUF_SIZE-1
  /\ ram = [i \in 0 .. BUF_SIZE-1 |-> ram[i]]
ReclaimType ==
  /\ pfq_rdy_r \in {0, 1} /\ pfq_stb \in {0, 1} /\ buf_rptr \in 0 .. BUF_SIZE-1
  /\ pfq_len_r \in 0 .. LEN_MOD-1 /\ pfq_stb_r \in [1 .. HOLD -> {0, 1}]
CaseType ==
  /\ state \in {"STARTUP", "IDLE", "DROP", "PRE", "PKT", "FCS", "IPG"}
  /\ count \in 0 .. COUNT_MAX /\ (state = "FCS" => count \in 0 .. 3)
  /\ buf_wr \in {0, 1} /\ prq_stb \in {0, 1}
  /\ prq_len \in 0 .. LEN_MOD-1 /\ prq_flag \in SUBSET FlagBits /\ prq_idx \in 0 .. BUF_SIZE-1
QueueType ==
  /\ prq \in Seq(Descriptors) /\ Len(prq) <= PRQ_SIZE
  /\ pfq \in Seq(0 .. LEN_MOD-1) /\ Len(pfq) <= PFQ_SIZE
  /\ held \in Seq(Descriptors) /\ Len(held) <= 1
TypeInv == WireType /\ RingType /\ ReclaimType /\ CaseType /\ QueueType

LEMMA FrameType ==
  ASSUME NEW f \in Frames
  PROVE  /\ len(f) \in Nat \ {0} /\ pre(f) \in Nat /\ FrameTable[f].wrong \in SUBSET (1 .. 4)
         /\ FirstByte(f) \in Nat \ {0} /\ LastCovered(f) \in Int /\ LastByte(f) \in Int
         /\ FrameTable[f].sfd \in {"D5", "other"}
         /\ LastByte(f) - FirstByte(f) + 1 < LEN_MOD
<1>1. Frame[f] \in [len : Nat \ {0}, pre : Nat, sfd : {"D5", "other"}, wrong : SUBSET (1 .. 4), er : SUBSET Nat]
  BY RxAssumption
<1>2. len(f) \in Nat \ {0} /\ pre(f) \in Nat /\ FrameTable[f].wrong \in SUBSET (1 .. 4)
      /\ FrameTable[f].sfd \in {"D5", "other"}
  BY <1>1 DEF len, pre, FrameTable
<1> QED
  BY <1>2, FramesFit DEF FirstByte, LastCovered, LastByte

LEMMA IdleIsNone == \A f, k : Byte(f, k) # Idle /\ Byte(f, k)[1] = f /\ Byte(f, k)[2] = k
BY DEF Byte, Idle

LEMMA InitType == Init => TypeInv
<1> SUFFICES ASSUME Init PROVE TypeInv
  OBVIOUS
<1>1. WireType
  BY Sizes DEF Init, WireType, IsByte
<1>2. RingType /\ ReclaimType
  BY Sizes DEF Init, RingType, ReclaimType
<1>3. CaseType
  BY Sizes DEF Init, CaseType, FlagBits
<1>4. QueueType
  BY Sizes, EmptySeq DEF Init, QueueType
<1> QED
  BY <1>1, <1>2, <1>3, <1>4 DEF TypeInv

LEMMA AfterType ==
  ASSUME NEW b, IsByte(b)
  PROVE  IsByte(After(b).next) \/ b = Idle
<1>1. CASE b # Idle
  <2>1. PICK f \in Frames, k \in Nat : k \in 1 .. len(f) /\ b = Byte(f, k)
    BY <1>1, FrameType DEF IsByte
  <2>2. b[1] = f /\ b[2] = k
    BY <2>1 DEF Byte
  <2>3. CASE k < len(f)
    <3>1. After(b).next = Byte(f, k + 1) /\ k + 1 \in 1 .. len(f)
      BY <2>1, <2>2, <2>3, FrameType DEF After
    <3> QED
      BY <3>1 DEF IsByte
  <2>4. CASE ~(k < len(f))
    BY <2>2, <2>4 DEF After, IsByte
  <2> QED
    BY <2>3, <2>4
<1> QED
  BY <1>1

\* What comes from the wire is a byte of a frame or idle, and then pipe has it.
LEMMA WireKeepsType ==
  ASSUME WireType, NEW b, Works(b)
  PROVE  WireType' /\ IsByte(b) /\ pipe'[1] = b /\ \A i \in 2 .. 5 : pipe'[i] = pipe[i-1]
<1>1. Wire(b) /\ pipe' = [i \in 1 .. 5 |-> IF i = 1 THEN b ELSE pipe[i-1]]
  BY DEF Works
<1>2. CASE line.next # Idle /\ b = line.next /\ line' = After(b)
  <2>1. IsByte(b) /\ b # Idle
    BY <1>2 DEF WireType
  <2>2. IsByte(After(b).next)
    BY <2>1, AfterType
  <2> QED
    BY <1>1, <1>2, <2>1, <2>2, Sizes DEF WireType, After
<1>3. CASE b = Idle /\ line' = [line EXCEPT !.gap = IF @ = 0 THEN 0 ELSE @ - 1]
  <2>1. line'.next = line.next /\ line'.gap \in 0 .. GAP /\ line' = [next |-> line'.next, gap |-> line'.gap]
    BY <1>3, Sizes DEF WireType
  <2>2. IsByte(b)
    BY <1>3 DEF IsByte
  <2> QED
    BY <1>1, <2>1, <2>2 DEF WireType
<1>4. CASE b \in {Byte(f, 1) : f \in Frames} /\ line' = After(b)
  <2>1. IsByte(b) /\ b # Idle
    BY <1>4, FrameType, IdleIsNone DEF IsByte
  <2>2. IsByte(After(b).next)
    BY <2>1, AfterType
  <2> QED
    BY <1>1, <1>4, <2>1, <2>2, Sizes DEF WireType, After
<1> QED
  BY <1>1, <1>2, <1>3, <1>4 DEF Wire

LEMMA DescriptorType ==
  ASSUME CaseType, RingType, NEW flag \in SUBSET FlagBits, NEW n \in 0 .. LEN_MOD-1, Descriptor(flag, n)
  PROVE  prq_len' \in 0 .. LEN_MOD-1 /\ prq_flag' \in SUBSET FlagBits /\ prq_idx' \in 0 .. BUF_SIZE-1
<1>1. prq_len' \in 0 .. LEN_MOD-1
  <2>1. (prq_len + 1) % LEN_MOD \in 0 .. LEN_MOD - 1
    <3>1. prq_len + 1 \in Nat
      BY DEF CaseType
    <3> QED
      BY <3>1, Sizes, ModType
  <2> QED
    BY <2>1 DEF Descriptor
<1>2. prq_flag' \in SUBSET FlagBits
  BY DEF Descriptor, FlagBits
<1>3. prq_idx' \in 0 .. BUF_SIZE-1
  BY DEF Descriptor, CaseType, RingType
<1> QED
  BY <1>1, <1>2, <1>3

LEMMA FlagIs ==
  \A x \in {"IPG_SHORT", "PRE_INC", "PRE_SHORT", "PRE_LONG", "PRE_BAD", "DATA_ERR", "FCS_INC", "FCS_BAD", "TRUNCATE"} :
    x \in FlagBits
BY DEF FlagBits

LEMMA EndType ==
  ASSUME CaseType, RingType, NEW flag \in SUBSET FlagBits, EndOfPacket(flag)
  PROVE  /\ state' \in {"IDLE", "IPG"} /\ count' = 0 /\ buf_wr' = 0 /\ prq_stb' = 1
         /\ prq_len' \in 0 .. LEN_MOD-1 /\ prq_flag' \in SUBSET FlagBits /\ prq_idx' \in 0 .. BUF_SIZE-1
<1>1. /\ state' \in {"IDLE", "IPG"} /\ count' = 0 /\ buf_wr' = 0 /\ prq_stb' = 1
      /\ \E fl \in SUBSET FlagBits : Descriptor(fl, prq_len)
  BY FlagIs DEF EndOfPacket, Case
<1>2. prq_len \in 0 .. LEN_MOD-1
  BY DEF CaseType
<1> QED
  BY <1>1, <1>2, DescriptorType

LEMMA CaseKeepsType ==
  ASSUME CaseType, RingType, NEW b, Cases(b)
  PROVE  CaseType'
<1> USE DEF Case
<1>1. /\ prq_len \in 0 .. LEN_MOD-1 /\ prq_flag \in SUBSET FlagBits /\ count \in 0 .. COUNT_MAX
      /\ buf_wr \in {0, 1} /\ prq_stb \in {0, 1} /\ COUNT_MAX \in Nat /\ COUNT_MAX >= 3
      /\ pre_inc \in {0, 1} /\ fcs_inc \in {0, 1} /\ 0 \in 0 .. LEN_MOD - 1
      /\ state \in {"STARTUP", "IDLE", "DROP", "PRE", "PKT", "FCS", "IPG"}
  BY Sizes DEF CaseType
<1>2. ASSUME NEW flag \in SUBSET FlagBits, NEW n \in 0 .. LEN_MOD-1, Descriptor(flag, n),
             state' \in {"STARTUP", "IDLE", "DROP", "PRE", "PKT", "FCS", "IPG"},
             count' \in 0 .. COUNT_MAX, state' = "FCS" => count' \in 0 .. 3,
             buf_wr' \in {0, 1}, prq_stb' \in {0, 1}
      PROVE  CaseType'
  BY <1>2, DescriptorType DEF CaseType
<1>3. CASE Startup(b)
  BY <1>1, <1>2, <1>3 DEF Startup
<1>4. CASE Wait(b)
  BY <1>1, <1>2, <1>4 DEF Wait
<1>5. CASE Accept(b)
  <2> DEFINE flag == (prq_flag \ {"PRE_INC"}) \cup {"FCS_BAD"} \cup (IF pre_inc = 1 THEN {"PRE_INC"} ELSE {})
  <2>1. flag \in SUBSET FlagBits
    BY <1>1, FlagIs
  <2>2. Descriptor(flag, 0) /\ state' \in {"PKT", "PRE"} /\ count' = 0 /\ buf_wr' = pre_inc /\ prq_stb' = 0
    BY <1>5 DEF Accept
  <2> HIDE DEF flag
  <2> QED
    BY <1>1, <1>2, <2>1, <2>2
<1>6. CASE Refuse(b)
  BY <1>1, <1>2, <1>6 DEF Refuse
<1>7. CASE Drop(b)
  BY <1>1, <1>2, <1>7 DEF Drop
<1>8. CASE Preamble(b)
  <2> DEFINE flag == prq_flag \cup
        (CASE kind(pipe[5]) = "D5" -> IF count < 7 THEN {"PRE_SHORT"}
                                    ELSE IF count > 7 THEN {"PRE_LONG"} ELSE {}
         [] kind(pipe[5]) = "55" -> IF count > 6 THEN {"PRE_LONG"} ELSE {}
         [] OTHER -> {"PRE_BAD"})
         \cup (IF er(pipe[5]) THEN {"PRE_BAD"} ELSE {})
  <2>1. flag \in SUBSET FlagBits
    BY <1>1, FlagIs
  <2>2. Descriptor(flag, prq_len)
    BY <1>8 DEF Preamble
  <2>3. (count + 1) % (COUNT_MAX + 1) \in 0 .. COUNT_MAX
    <3>1. count + 1 \in Nat /\ COUNT_MAX \in Nat
      BY <1>1
    <3> QED
      BY <3>1, ModUpTo
  <2>4. state' \in {"IPG", "PRE", "PKT"} /\ count' \in {0, (count + 1) % (COUNT_MAX + 1)} /\ buf_wr' \in {0, 1} /\ prq_stb' = 0
    BY <1>1, <1>8 DEF Preamble
  <2>5. count' \in 0 .. COUNT_MAX
    BY <1>1, <2>3, <2>4
  <2> HIDE DEF flag
  <2> QED
    BY <1>1, <1>2, <2>1, <2>2, <2>4, <2>5
<1>9. CASE Packet(b)
  <2> DEFINE flag == IF er(pipe[5]) THEN prq_flag \cup {"DATA_ERR"} ELSE prq_flag
             fcs == (flag \ {"FCS_INC"}) \cup (IF fcs_inc = 1 THEN {"FCS_INC"} ELSE {})
  <2>1. flag \in SUBSET FlagBits /\ fcs \in SUBSET FlagBits
    BY <1>1, FlagIs
  <2>2. state = "PKT"
    BY <1>9 DEF Packet
  <2>3. \/ Descriptor(fcs, prq_len) /\ Case("FCS", 0, fcs_inc, 0)
        \/ EndOfPacket(flag)
        \/ Descriptor(flag, prq_len) /\ Case(state, count, buf_wr, 0)
    BY <1>9 DEF Packet
  <2> HIDE DEF flag, fcs
  <2>4. CASE Descriptor(fcs, prq_len) /\ Case("FCS", 0, fcs_inc, 0)
    BY <1>1, <1>2, <2>1, <2>4
  <2>5. CASE EndOfPacket(flag)
    BY <1>1, <2>1, <2>5, EndType DEF CaseType
  <2>6. CASE Descriptor(flag, prq_len) /\ Case(state, count, buf_wr, 0)
    BY <1>1, <1>2, <2>1, <2>2, <2>6
  <2> QED
    BY <2>3, <2>4, <2>5, <2>6
<1>10. CASE Fcs(b)
  <2> DEFINE first == IF count = 0 THEN prq_flag \ {"FCS_BAD"} ELSE prq_flag
             flag  == IF count + 1 \in wrong(pipe[5]) THEN first \cup {"FCS_BAD"} ELSE first
  <2>1. flag \in SUBSET FlagBits
    BY <1>1, FlagIs
  <2>2. state = "FCS" /\ count \in 0 .. 3
    BY <1>10 DEF Fcs, CaseType
  <2>3. IF count = 3 THEN EndOfPacket(flag) ELSE Descriptor(flag, prq_len) /\ Case(state, count + 1, buf_wr, 0)
    BY <1>10 DEF Fcs
  <2> HIDE DEF flag
  <2>4. CASE count = 3
    BY <1>1, <2>1, <2>3, <2>4, EndType DEF CaseType
  <2>5. CASE count # 3
    <3>1. Descriptor(flag, prq_len) /\ state' = "FCS" /\ count' = count + 1 /\ buf_wr' = buf_wr /\ prq_stb' = 0
      BY <2>2, <2>3, <2>5
    <3>2. count' \in 0 .. 3 /\ count' \in 0 .. COUNT_MAX
      BY <1>1, <2>2, <2>5, <3>1
    <3> QED
      BY <1>1, <1>2, <2>1, <3>1, <3>2
  <2> QED
    BY <2>4, <2>5
<1>11. CASE Ipg(b)
  <2> DEFINE flag == IF count < IPG_MIN - 2 THEN {"IPG_SHORT"} ELSE {}
  <2>1. flag \in SUBSET FlagBits /\ state = "IPG"
    BY <1>11, FlagIs DEF Ipg
  <2>2. \/ Descriptor(flag, prq_len) /\ Case("IDLE", 0, buf_wr, 0)
        \/ Descriptor(prq_flag, prq_len) /\ Case(state, IF count < COUNT_MAX THEN count + 1 ELSE count, buf_wr, 0)
    BY <1>11 DEF Ipg
  <2> HIDE DEF flag
  <2>3. CASE Descriptor(flag, prq_len) /\ Case("IDLE", 0, buf_wr, 0)
    BY <1>1, <1>2, <2>1, <2>3
  <2>4. CASE Descriptor(prq_flag, prq_len) /\ Case(state, IF count < COUNT_MAX THEN count + 1 ELSE count, buf_wr, 0)
    BY <1>1, <1>2, <2>1, <2>4
  <2> QED
    BY <2>2, <2>3, <2>4
<1> QED
  BY <1>3, <1>4, <1>5, <1>6, <1>7, <1>8, <1>9, <1>10, <1>11 DEF Cases

LEMMA RingKeepsType ==
  ASSUME RingType, ReclaimType, Ring, Reclaim, QueueType
  PROVE  RingType' /\ ReclaimType'
<1>1. RingType'
  <2>1. Next1(buf_wptr) \in 0 .. BUF_SIZE - 1
    BY Sizes, ModType DEF RingType, Next1
  <2>2. buf_wptr' \in 0 .. BUF_SIZE - 1
    BY <2>1 DEF Ring, RingType
  <2>3. ram' = [i \in 0 .. BUF_SIZE-1 |-> ram'[i]]
    BY DEF Ring, RingType
  <2>4. buf_ff' \in {0, 1}
    BY DEF Ring
  <2> QED
    BY <2>2, <2>3, <2>4 DEF RingType
<1>2. pfq # <<>> => pfq[1] \in 0 .. LEN_MOD-1
  BY Popped DEF QueueType
<1>3. pfq_len_r' \in 0 .. LEN_MOD-1 /\ pfq_rdy_r' \in {0, 1} /\ pfq_stb' \in {0, 1}
  BY <1>2, Sizes DEF Reclaim
<1>4. pfq_stb_r' \in [1 .. HOLD -> {0, 1}]
  <2>1. \A i \in 1 .. HOLD : (IF i = 1 THEN pfq_stb ELSE pfq_stb_r[i-1]) \in {0, 1}
    BY Sizes DEF ReclaimType
  <2> QED
    BY <2>1 DEF Reclaim
<1>5. buf_rptr' \in 0 .. BUF_SIZE - 1
  <2>1. buf_rptr + pfq_len_r \in Nat
    BY Sizes DEF ReclaimType
  <2>2. (buf_rptr + pfq_len_r) % BUF_SIZE \in 0 .. BUF_SIZE - 1
    BY <2>1, Sizes, ModType
  <2> QED
    BY <2>2 DEF Reclaim, ReclaimType
<1> QED
  BY <1>1, <1>3, <1>4, <1>5 DEF ReclaimType

LEMMA QueuesKeepType ==
  ASSUME QueueType, CaseType, Queues, UNCHANGED held
  PROVE  QueueType'
<1>1. prq' \in Seq(Descriptors) /\ Len(prq') <= PRQ_SIZE
  <2>1. CASE prq_stb = 1 /\ Len(prq) < PRQ_SIZE
    <3>1. [len |-> prq_len, idx |-> prq_idx, flag |-> prq_flag] \in Descriptors
      BY DEF CaseType, Descriptors
    <3>2. prq' = Append(prq, [len |-> prq_len, idx |-> prq_idx, flag |-> prq_flag])
      BY <2>1 DEF Queues
    <3>3. prq \in Seq(Descriptors)
      BY DEF QueueType
    <3>4. prq' \in Seq(Descriptors) /\ Len(prq') = Len(prq) + 1 /\ Len(prq) \in Nat
      BY <3>1, <3>2, <3>3, Pushed
    <3> QED
      BY <2>1, <3>4, Sizes
  <2>2. CASE ~(prq_stb = 1 /\ Len(prq) < PRQ_SIZE)
    BY <2>2 DEF Queues, QueueType
  <2> QED
    BY <2>1, <2>2
<1>2. pfq' \in Seq(0 .. LEN_MOD-1) /\ Len(pfq') <= PFQ_SIZE
  <2>1. CASE pfq_stb = 1 /\ pfq # <<>>
    <3>1. pfq' = Tail(pfq) /\ pfq \in Seq(0 .. LEN_MOD-1) /\ Len(pfq) <= PFQ_SIZE
      BY <2>1 DEF Queues, QueueType
    <3>2. pfq' \in Seq(0 .. LEN_MOD-1) /\ Len(pfq') = Len(pfq) - 1 /\ Len(pfq) \in Nat
      BY <2>1, <3>1, Popped
    <3> QED
      BY <3>1, <3>2, Sizes
  <2>2. CASE ~(pfq_stb = 1 /\ pfq # <<>>)
    BY <2>2 DEF Queues, QueueType
  <2> QED
    BY <2>1, <2>2
<1> QED
  BY <1>1, <1>2 DEF QueueType

LEMMA RxType == ASSUME TypeInv, Rx PROVE TypeInv'
<1>1. PICK b : Works(b) /\ Cases(b)
  BY RxIs
<1>2. WireType'
  BY <1>1, WireKeepsType DEF TypeInv
<1>3. RingType' /\ ReclaimType'
  BY <1>1, RingKeepsType DEF TypeInv, Works
<1>4. CaseType'
  BY <1>1, CaseKeepsType DEF TypeInv
<1>5. QueueType'
  BY <1>1, QueuesKeepType DEF TypeInv, Works
<1> QED
  BY <1>2, <1>3, <1>4, <1>5 DEF TypeInv

LEMMA FirmwareType == ASSUME TypeInv, RxGet \/ RxFree PROVE TypeInv'
<1>1. UNCHANGED <<line, pipe, state, count, prq_len, prq_idx, prq_flag, prq_stb, buf_wr, buf_wptr,
                  buf_rptr, buf_ff, pfq_rdy_r, pfq_len_r, pfq_stb, pfq_stb_r>>
  BY DEF RxGet, RxFree, fe
<1>2. WireType' /\ ReclaimType' /\ CaseType'
  BY <1>1 DEF TypeInv, WireType, ReclaimType, CaseType
<1>3. CASE RxGet
  <2>1. prq # <<>> /\ held' = <<prq[1]>> /\ prq' = Tail(prq) /\ UNCHANGED <<ram, pfq>>
    BY <1>3 DEF RxGet
  <2>2. prq \in Seq(Descriptors) /\ Len(prq) <= PRQ_SIZE
    BY DEF TypeInv, QueueType
  <2>3. Tail(prq) \in Seq(Descriptors) /\ Len(Tail(prq)) = Len(prq) - 1 /\ Len(prq) \in Nat /\ prq[1] \in Descriptors
    BY <2>1, <2>2, Popped
  <2>4. <<prq[1]>> \in Seq(Descriptors) /\ Len(<<prq[1]>>) = 1
    BY <2>3
  <2>5. Len(Tail(prq)) <= PRQ_SIZE
    BY <2>2, <2>3, Sizes
  <2>6. RingType'
    BY <1>1, <2>1 DEF TypeInv, RingType
  <2>7. QueueType'
    BY <2>1, <2>3, <2>4, <2>5 DEF TypeInv, QueueType
  <2> QED
    BY <1>2, <2>6, <2>7 DEF TypeInv
<1>4. CASE RxFree
  <2>1. /\ held # <<>> /\ held' = <<>> /\ UNCHANGED prq
        /\ (Len(pfq) < PFQ_SIZE /\ pfq' = Append(pfq, held[1].len)) \/ pfq' = pfq
        /\ ram' = [i \in 0 .. BUF_SIZE-1 |-> IF i \in Cells(held[1]) THEN Idle ELSE ram[i]]
    BY <1>4 DEF RxFree
  <2>2. held[1].len \in 0 .. LEN_MOD - 1
    <3>1. held[1] \in Descriptors
      BY <2>1, Popped DEF TypeInv, QueueType
    <3> QED
      BY <3>1 DEF Descriptors
  <2>3. pfq' \in Seq(0 .. LEN_MOD-1) /\ Len(pfq') <= PFQ_SIZE
    <3>1. CASE Len(pfq) < PFQ_SIZE /\ pfq' = Append(pfq, held[1].len)
      <4>1. pfq \in Seq(0 .. LEN_MOD-1)
        BY DEF TypeInv, QueueType
      <4>2. pfq' \in Seq(0 .. LEN_MOD-1) /\ Len(pfq') = Len(pfq) + 1 /\ Len(pfq) \in Nat
        BY <2>1, <2>2, <3>1, <4>1, Pushed
      <4> QED
        BY <3>1, <4>2, Sizes
    <3>2. CASE pfq' = pfq
      BY <3>2 DEF TypeInv, QueueType
    <3> QED
      BY <2>1, <3>1, <3>2
  <2>4. RingType'
    <3>1. ram' = [i \in 0 .. BUF_SIZE-1 |-> ram'[i]]
      BY <2>1
    <3> QED
      BY <1>1, <3>1 DEF TypeInv, RingType
  <2>5. <<>> \in Seq(Descriptors) /\ Len(<<>>) = 0
    BY EmptySeq
  <2>6. QueueType'
    BY <2>1, <2>3, <2>5 DEF TypeInv, QueueType
  <2> QED
    BY <1>2, <2>4, <2>6 DEF TypeInv
<1> QED
  BY <1>3, <1>4

LEMMA TypeStep == TypeInv /\ [Next]_vars => TypeInv'
<1> SUFFICES ASSUME TypeInv, [Next]_vars PROVE TypeInv'
  OBVIOUS
<1>1. CASE Next
  BY <1>1, RxType, FirmwareType DEF Next
<1>2. CASE UNCHANGED vars
  BY <1>2 DEF vars, fe, TypeInv, WireType, RingType, ReclaimType, CaseType, QueueType
<1> QED
  BY <1>1, <1>2

\* The types are kept, those of the wire, the ring pointers and the queues too.
THEOREM TypeInvariant == Spec => []TypeInv
<1> QED
  BY InitType, TypeStep, PTL DEF Spec

\* Every signal of memac_rx_fe.vhd keeps its type, the descriptors it posts are
\* descriptors, and no queue holds more than it has room for (TypeOK), whatever
\* the PHY delivers.
THEOREM TypeCorrect == Spec => []TypeOK
<1>1. TypeInv => TypeOK
  <2> SUFFICES ASSUME TypeInv PROVE TypeOK
    OBVIOUS
  <2>1. \A i \in 1 .. Len(prq) : prq[i] \in Descriptors
    BY InSeq DEF TypeInv, QueueType
  <2> QED
    BY <2>1 DEF TypeInv, WireType, RingType, ReclaimType, CaseType, QueueType, TypeOK
<1> QED
  BY <1>1, TypeInvariant, PTL

(***************************************************************************)
(* The second invariant: what stands in the five stages of the pipe.       *)
(* Each byte is followed by the next one of its frame, a frame begins      *)
(* after an idle cycle, and there are two idle cycles at least between two *)
(* frames.                                                                 *)
(***************************************************************************)
Nxt(b) == IF dv(b) /\ b[2] < len(b[1]) THEN Byte(b[1], b[2] + 1) ELSE Idle
Begins(b) == dv(b) /\ b[2] = 1

Follows(b, p) == b = Nxt(p) \/ (p = Idle /\ Begins(b))

WireInv ==
  /\ line.next = Nxt(pipe[1])
  /\ Follows(pipe[1], pipe[2]) /\ Follows(pipe[2], pipe[3])
  /\ Follows(pipe[3], pipe[4]) /\ Follows(pipe[4], pipe[5])
  /\ \A i \in 1 .. 3 : dv(pipe[i+2]) /\ dv(pipe[i]) => dv(pipe[i+1])
  /\ dv(pipe[1]) /\ line.next = Idle => line.gap >= 2
  /\ dv(pipe[2]) /\ ~dv(pipe[1]) => line.gap >= 1

LEMMA NxtIs ==
  ASSUME NEW f, NEW k
  PROVE  Nxt(Byte(f, k)) = IF k < len(f) THEN Byte(f, k + 1) ELSE Idle
BY IdleIsNone DEF Nxt, dv

LEMMA WireStep ==
  ASSUME GAP >= 2, WireType, WireInv, NEW b, Works(b)
  PROVE  WireInv' /\ Follows(b, pipe[1])
<1>1. /\ Wire(b) /\ pipe'[1] = b /\ pipe'[2] = pipe[1] /\ pipe'[3] = pipe[2] /\ pipe'[4] = pipe[3] /\ pipe'[5] = pipe[4]
  BY WireKeepsType DEF Works
<1>2. GAP \in Nat /\ line.gap \in Nat /\ line = [next |-> line.next, gap |-> line.gap]
  BY Sizes DEF WireType
<1>3. After(b).next = Nxt(b) \/ b = Idle
  BY DEF After, Nxt, dv
<1>4. Nxt(Idle) = Idle
  BY DEF Nxt, dv
<1>5. /\ Follows(b, pipe[1]) /\ line'.next = Nxt(b)
      /\ dv(b) => line'.gap = GAP
      /\ ~dv(b) => line'.gap = IF line.gap = 0 THEN 0 ELSE line.gap - 1
      /\ dv(b) => (pipe[1] # Idle /\ b = line.next) \/ (line.gap = 0 /\ line.next = Idle)
  <2>1. CASE line.next # Idle /\ b = line.next /\ line' = After(b)
    <3>1. b = Nxt(pipe[1]) /\ b # Idle /\ pipe[1] # Idle
      BY <2>1, <1>4 DEF WireInv
    <3>2. line'.next = Nxt(b) /\ line'.gap = GAP
      BY <1>3, <2>1, <3>1 DEF After
    <3>3. dv(b) /\ Follows(b, pipe[1])
      BY <3>1 DEF Follows, dv
    <3> QED
      BY <2>1, <3>1, <3>2, <3>3
  <2>2. CASE line.next = Idle /\ b = Idle /\ line' = [line EXCEPT !.gap = IF @ = 0 THEN 0 ELSE @ - 1]
    <3>1. line'.next = Idle /\ line'.gap = IF line.gap = 0 THEN 0 ELSE line.gap - 1
      BY <1>2, <2>2
    <3>2. b = Nxt(pipe[1])
      BY <2>2 DEF WireInv
    <3> QED
      BY <1>4, <2>2, <3>1, <3>2 DEF Follows, dv
  <2>3. CASE line = [next |-> Idle, gap |-> 0] /\ b \in {Byte(f, 1) : f \in Frames} /\ line' = After(b)
    <3>1. b # Idle /\ b[2] = 1
      BY <2>3, IdleIsNone
    <3>2. line'.next = Nxt(b) /\ line'.gap = GAP
      BY <1>3, <2>3, <3>1 DEF After
    <3>3. line.gap = 0 /\ line.next = Idle
      BY <2>3
    <3>4. pipe[1] = Idle
      BY <3>3 DEF WireInv, dv
    <3> QED
      BY <3>1, <3>2, <3>3, <3>4 DEF Follows, Begins, dv
  <2> QED
    BY <1>1, <2>1, <2>2, <2>3 DEF Wire
<1>6. \A i \in 1 .. 3 : dv(pipe'[i+2]) /\ dv(pipe'[i]) => dv(pipe'[i+1])
  <2>1. dv(pipe[2]) /\ dv(b) => dv(pipe[1])
    BY <1>2, <1>5 DEF WireInv, dv
  <2>2. dv(pipe[3]) /\ dv(pipe[1]) => dv(pipe[2])
    BY DEF WireInv
  <2>3. dv(pipe[4]) /\ dv(pipe[2]) => dv(pipe[3])
    BY DEF WireInv
  <2> QED
    <3>1. ASSUME NEW i \in 1 .. 3 PROVE dv(pipe'[i+2]) /\ dv(pipe'[i]) => dv(pipe'[i+1])
      <4>1. i = 1 \/ i = 2 \/ i = 3
        OBVIOUS
      <4>2. CASE i = 1
        BY <1>1, <2>1, <4>2
      <4>3. CASE i = 2
        BY <1>1, <2>2, <4>3
      <4>4. CASE i = 3
        BY <1>1, <2>3, <4>4
      <4> QED
        BY <4>1, <4>2, <4>3, <4>4
    <3> QED
      BY <3>1
<1>7. dv(pipe'[1]) /\ line'.next = Idle => line'.gap >= 2
  BY <1>1, <1>5
<1>8. dv(pipe'[2]) /\ ~dv(pipe'[1]) => line'.gap >= 1
  <2>1. ASSUME dv(pipe[1]), ~dv(b) PROVE line'.gap >= 1
    <3>1. line.next = Idle
      BY <1>1, <2>1 DEF Wire, dv, Byte, Idle
    <3>2. line.gap >= 2
      BY <2>1, <3>1 DEF WireInv
    <3> QED
      BY <1>2, <1>5, <2>1, <3>2
  <2> QED
    BY <1>1, <2>1
<1>9. /\ Follows(pipe'[1], pipe'[2]) /\ Follows(pipe'[2], pipe'[3])
      /\ Follows(pipe'[3], pipe'[4]) /\ Follows(pipe'[4], pipe'[5])
  BY <1>1, <1>5 DEF WireInv
<1>10. line'.next = Nxt(pipe'[1])
  BY <1>1, <1>5
<1>11. WireInv'
  BY <1>6, <1>7, <1>8, <1>9, <1>10 DEF WireInv, Follows, Nxt, Begins, dv
<1> QED
  BY <1>5, <1>11

LEMMA WireInit == Init => WireInv
<1> SUFFICES ASSUME Init PROVE WireInv
  OBVIOUS
<1>1. line.next = Idle /\ \A i \in 1 .. 5 : pipe[i] = Idle
  BY DEF Init
<1>2. \A i \in 1 .. 5 : ~dv(pipe[i])
  BY <1>1 DEF dv
<1> QED
  BY <1>1, <1>2 DEF WireInv, Follows, Nxt

\* What is ahead of the byte the state machine looks at.
LEMMA Ahead ==
  ASSUME WireType, WireInv, GAP >= 2, NEW b, Works(b),
         NEW f \in Frames, NEW k \in 1 .. len(f), pipe[5] = Byte(f, k)
  PROVE  /\ k < len(f) => pipe[4] = Byte(f, k + 1)
         /\ k = len(f) => pipe[4] = Idle /\ pipe[3] = Idle
         /\ (~dv(b) /\ \A i \in 1 .. 5 : dv(pipe[i])) <=> k = len(f) - 4
<1>1. len(f) \in Nat /\ k \in Nat
  BY FrameType
<1>2. ASSUME NEW p, NEW q, NEW j \in Nat, p = Byte(f, j), Follows(q, p)
      PROVE  q = IF j < len(f) THEN Byte(f, j + 1) ELSE Idle
  BY <1>2, NxtIs, IdleIsNone DEF Follows
<1>3. /\ Follows(b, pipe[1]) /\ Follows(pipe[1], pipe[2]) /\ Follows(pipe[2], pipe[3])
      /\ Follows(pipe[3], pipe[4]) /\ Follows(pipe[4], pipe[5])
  BY WireStep DEF WireInv
<1>4. pipe[4] = IF k < len(f) THEN Byte(f, k + 1) ELSE Idle
  BY <1>1, <1>2, <1>3
<1>5. dv(pipe[5]) /\ (dv(pipe[3]) => dv(pipe[4]))
  <2>1. dv(pipe[5])
    BY IdleIsNone DEF dv
  <2> QED
    BY <2>1 DEF WireInv
<1>6. k = len(f) => pipe[4] = Idle /\ pipe[3] = Idle
  BY <1>1, <1>4, <1>5 DEF dv
<1>7. ASSUME k < len(f) PROVE pipe[3] = IF k + 1 < len(f) THEN Byte(f, k + 2) ELSE Idle
  <2>1. pipe[4] = Byte(f, k + 1) /\ k + 1 \in Nat /\ (k + 1) + 1 = k + 2
    BY <1>1, <1>4, <1>7
  <2> QED
    BY <2>1, <1>2, <1>3
<1>8. ASSUME k + 1 < len(f) PROVE pipe[2] = IF k + 2 < len(f) THEN Byte(f, k + 3) ELSE Idle
  <2>1. pipe[3] = Byte(f, k + 2) /\ k + 2 \in Nat /\ (k + 2) + 1 = k + 3
    BY <1>1, <1>7, <1>8
  <2> QED
    BY <2>1, <1>2, <1>3
<1>9. ASSUME k + 2 < len(f) PROVE pipe[1] = IF k + 3 < len(f) THEN Byte(f, k + 4) ELSE Idle
  <2>1. pipe[2] = Byte(f, k + 3) /\ k + 3 \in Nat /\ (k + 3) + 1 = k + 4
    BY <1>1, <1>8, <1>9
  <2> QED
    BY <2>1, <1>2, <1>3
<1>10. ASSUME k + 3 < len(f) PROVE b = IF k + 4 < len(f) THEN Byte(f, k + 5) ELSE Idle
  <2>1. pipe[1] = Byte(f, k + 4) /\ k + 4 \in Nat /\ (k + 4) + 1 = k + 5
    BY <1>1, <1>9, <1>10
  <2> QED
    BY <2>1, <1>2, <1>3
<1>11. ASSUME k = len(f) - 4 PROVE ~dv(b) /\ \A i \in 1 .. 5 : dv(pipe[i])
  <2>1. b = Idle /\ pipe[1] = Byte(f, k + 4) /\ pipe[2] = Byte(f, k + 3) /\ pipe[3] = Byte(f, k + 2) /\ pipe[4] = Byte(f, k + 1)
    BY <1>1, <1>4, <1>7, <1>8, <1>9, <1>10, <1>11
  <2>2. dv(pipe[1]) /\ dv(pipe[2]) /\ dv(pipe[3]) /\ dv(pipe[4])
    BY <2>1, IdleIsNone DEF dv
  <2>3. \A i \in 1 .. 5 : i = 1 \/ i = 2 \/ i = 3 \/ i = 4 \/ i = 5
    OBVIOUS
  <2> QED
    BY <1>5, <2>1, <2>2, <2>3 DEF dv
<1>12. ASSUME ~dv(b), \A i \in 1 .. 5 : dv(pipe[i]) PROVE k = len(f) - 4
  <2>1. pipe[1] # Idle /\ pipe[2] # Idle /\ pipe[3] # Idle /\ pipe[4] # Idle /\ b = Idle
    BY <1>12 DEF dv
  <2>2. k < len(f)
    BY <1>4, <2>1
  <2>3. k + 1 < len(f)
    BY <1>7, <2>1, <2>2
  <2>4. k + 2 < len(f)
    BY <1>8, <2>1, <2>3
  <2>5. k + 3 < len(f)
    BY <1>9, <2>1, <2>4
  <2>6. ~(k + 4 < len(f))
    BY <1>10, <2>1, <2>5, IdleIsNone
  <2> QED
    BY <1>1, <2>5, <2>6
<1> QED
  BY <1>4, <1>6, <1>11, <1>12

(***************************************************************************)
(* The third invariant: where the state machine stands in the frame.       *)
(***************************************************************************)
AtByte(f, k) ==
  /\ state = "PRE" => pre_inc = 0 /\ k <= pre(f) + 1 /\ prq_len = 0
  /\ state = "PKT" => k \in FirstByte(f) .. LastCovered(f)
  /\ state = "FCS" => k = len(f) - 3 + count /\ len(f) - 4 >= FirstByte(f)

FsmInv ==
  /\ prq_stb = 1 => state = "IPG"
  /\ buf_wr = 1 <=> state = "PKT" \/ (state = "FCS" /\ fcs_inc = 1)
  /\ state = "STARTUP" => prq_flag = {}
  /\ state = "IDLE" => pipe[5] = Idle /\ prq_flag \subseteq {"IPG_SHORT"}
  /\ state = "IPG" => pipe[4] = Idle
  /\ state \in {"DROP", "PRE", "PKT", "FCS"} => pipe[5] # Idle
  /\ \A f \in Frames, k \in Nat : pipe[5] = Byte(f, k) => AtByte(f, k)

Inv3 == TypeInv /\ WireInv /\ FsmInv

LEMMA ByteHere ==
  ASSUME WireType, pipe[5] # Idle
  PROVE  \E f \in Frames : \E k \in 1 .. len(f) : pipe[5] = Byte(f, k)
BY DEF WireType, IsByte

LEMMA Shift ==
  ASSUME WireType, NEW b, Works(b)
  PROVE  pipe'[5] = pipe[4] /\ pipe'[4] = pipe[3]
BY WireKeepsType

\* Kinds of bytes at and before the delimiter.
LEMMA KindIs ==
  ASSUME NEW f \in Frames, NEW k \in Nat, k <= pre(f) + 1
  PROVE  /\ kind(Byte(f, k)) = "55" <=> k <= pre(f)
         /\ k = pre(f) + 1 => kind(Byte(f, k)) = FrameTable[f].sfd
         /\ kind(Byte(f, k)) \in {"55", "D5", "other"}
<1>1. pre(f) \in Nat /\ FrameTable[f].sfd \in {"D5", "other"}
  BY FrameType
<1> QED
  BY <1>1, IdleIsNone DEF kind

LEMMA AcceptMoves ==
  ASSUME Inv3, GAP >= 2, NEW b, Works(b), Accept(b)
  PROVE  \E f \in Frames :
         /\ pipe'[5] = Byte(f, 1) /\ 1 \in 1 .. len(f) /\ Len(prq) < PRQ_SIZE
         /\ buf_wr = 0 /\ prq_stb = 0 /\ prq_stb' = 0 /\ prq_len' = 0 /\ prq_idx' = prq_idx
         /\ state' = (IF pre_inc = 1 THEN "PKT" ELSE "PRE") /\ count' = 0 /\ buf_wr' = pre_inc
         /\ "FCS_BAD" \in prq_flag' /\ prq_flag' \subseteq {"IPG_SHORT", "PRE_INC", "FCS_BAD"}
<1>1. state = "IDLE" /\ dv(pipe[4]) /\ pipe[5] = Idle /\ prq_flag \subseteq {"IPG_SHORT"}
  BY DEF Accept, Inv3, FsmInv
<1>2. buf_wr = 0 /\ prq_stb = 0
  BY <1>1 DEF Inv3, FsmInv, TypeInv, CaseType
<1>3. pipe[4] # Idle /\ pipe[4][2] = 1
  BY <1>1 DEF Inv3, WireInv, Follows, Begins, Nxt, dv
<1>4. PICK f \in Frames : \E k \in 1 .. len(f) : pipe[4] = Byte(f, k)
  BY <1>3 DEF Inv3, TypeInv, WireType, IsByte
<1>5. pipe[4] = Byte(f, 1) /\ 1 \in 1 .. len(f)
  BY <1>3, <1>4, IdleIsNone
<1>6. pipe'[5] = Byte(f, 1)
  BY <1>5, Shift DEF Inv3, TypeInv
<1>7. /\ prq_len' = 0 /\ prq_idx' = prq_idx
      /\ prq_flag' = (prq_flag \ {"PRE_INC"}) \cup {"FCS_BAD"} \cup (IF pre_inc = 1 THEN {"PRE_INC"} ELSE {})
  BY <1>2 DEF Accept, Descriptor
<1>8. /\ state' = (IF pre_inc = 1 THEN "PKT" ELSE "PRE") /\ count' = 0 /\ buf_wr' = pre_inc /\ prq_stb' = 0
      /\ Len(prq) < PRQ_SIZE
  BY DEF Accept, Case
<1>9. "FCS_BAD" \in prq_flag' /\ prq_flag' \subseteq {"IPG_SHORT", "PRE_INC", "FCS_BAD"}
  BY <1>1, <1>7
<1> QED
  BY <1>2, <1>5, <1>6, <1>7, <1>8, <1>9

PreFlag(f, k) ==
  (CASE kind(Byte(f, k)) = "D5" -> IF count < 7 THEN {"PRE_SHORT"}
                                   ELSE IF count > 7 THEN {"PRE_LONG"} ELSE {}
     [] kind(Byte(f, k)) = "55" -> IF count > 6 THEN {"PRE_LONG"} ELSE {}
     [] OTHER -> {"PRE_BAD"})
  \cup (IF er(Byte(f, k)) THEN {"PRE_BAD"} ELSE {})

LEMMA PreambleMoves ==
  ASSUME Inv3, GAP >= 2, NEW b, Works(b), Preamble(b),
         NEW f \in Frames, NEW k \in 1 .. len(f), pipe[5] = Byte(f, k)
  PROVE  /\ k <= pre(f) + 1 /\ pre_inc = 0 /\ prq_stb = 0 /\ buf_wr = 0 /\ prq_stb' = 0
         /\ prq_len' = 0 /\ prq_idx' = prq_idx /\ prq_flag' = prq_flag \cup PreFlag(f, k)
         /\ \/ k = len(f) /\ state' = "IPG" /\ buf_wr' = 0 /\ pipe'[4] = Idle
            \/ k <= pre(f) /\ state' = "PRE" /\ buf_wr' = 0 /\ pipe'[5] = Byte(f, k + 1)
                 /\ k + 1 <= len(f) /\ count' = (count + 1) % (COUNT_MAX + 1)
            \/ k = pre(f) + 1 /\ state' = "PKT" /\ buf_wr' = 1 /\ pipe'[5] = Byte(f, k + 1)
                 /\ k + 1 <= len(f)
<1>1. state = "PRE" /\ k \in Nat /\ len(f) \in Nat /\ pre(f) \in Nat
  BY FrameType DEF Preamble
<1>2. k <= pre(f) + 1 /\ pre_inc = 0 /\ prq_len = 0 /\ prq_stb = 0 /\ buf_wr = 0
  <2>1. AtByte(f, k)
    BY <1>1 DEF Inv3, FsmInv
  <2>2. prq_stb = 0 /\ buf_wr = 0
    BY <1>1 DEF Inv3, FsmInv, TypeInv, CaseType
  <2> QED
    BY <1>1, <2>1, <2>2 DEF AtByte
<1>3. prq_len' = 0 /\ prq_idx' = prq_idx /\ prq_flag' = prq_flag \cup PreFlag(f, k)
  BY <1>2 DEF Preamble, Descriptor, PreFlag
<1>4. IF ~dv(pipe[4]) THEN Case("IPG", 0, 0, 0)
      ELSE IF kind(pipe[5]) = "55"
      THEN Case("PRE", (count + 1) % (COUNT_MAX + 1), buf_wr, 0)
      ELSE Case("PKT", 0, 1, 0)
  BY DEF Preamble
<1>5. prq_stb' = 0
  BY <1>4 DEF Case
<1>6. /\ k < len(f) => pipe[4] = Byte(f, k + 1)
      /\ k = len(f) => pipe[4] = Idle /\ pipe[3] = Idle
  BY Ahead DEF Inv3, TypeInv
<1>7. pipe'[5] = pipe[4] /\ pipe'[4] = pipe[3]
  BY Shift DEF Inv3, TypeInv
<1>8. CASE k = len(f)
  BY <1>4, <1>6, <1>7, <1>8, <1>2, <1>3, <1>5 DEF Case, dv
<1>9. CASE k < len(f)
  <2>1. dv(pipe[4]) /\ pipe'[5] = Byte(f, k + 1) /\ k + 1 <= len(f)
    BY <1>1, <1>6, <1>7, <1>9, IdleIsNone DEF dv
  <2>2. kind(pipe[5]) = "55" <=> k <= pre(f)
    BY <1>1, <1>2, KindIs
  <2>3. CASE k <= pre(f)
    BY <1>2, <1>3, <1>4, <2>1, <2>2, <2>3 DEF Case
  <2>4. CASE ~(k <= pre(f))
    <3>1. k = pre(f) + 1
      BY <1>1, <1>2, <2>4
    <3> QED
      BY <1>2, <1>3, <1>4, <2>1, <2>2, <2>4, <3>1 DEF Case
  <2> QED
    BY <2>3, <2>4
<1> QED
  BY <1>1, <1>8, <1>9

DataFlag(f, k) == IF er(Byte(f, k)) THEN prq_flag \cup {"DATA_ERR"} ELSE prq_flag

LEMMA EndMoves ==
  ASSUME NEW flag, EndOfPacket(flag), pipe[3] = Idle
  PROVE  Descriptor(flag, prq_len) /\ state' = "IPG" /\ count' = 0 /\ buf_wr' = 0 /\ prq_stb' = 1
BY DEF EndOfPacket, Case, dv

LEMMA PacketMoves ==
  ASSUME Inv3, GAP >= 2, NEW b, Works(b), Packet(b),
         NEW f \in Frames, NEW k \in 1 .. len(f), pipe[5] = Byte(f, k)
  PROVE  /\ state = "PKT" /\ k \in FirstByte(f) .. LastCovered(f)
         /\ prq_stb = 0 /\ buf_wr = 1 /\ prq_idx' = prq_idx
         /\ \/ /\ k = len(f) - 4 /\ state' = "FCS" /\ count' = 0 /\ buf_wr' = fcs_inc /\ prq_stb' = 0
               /\ pipe'[5] = Byte(f, k + 1) /\ k + 1 <= len(f) /\ len(f) - 4 >= FirstByte(f)
               /\ Descriptor((DataFlag(f, k) \ {"FCS_INC"})
                             \cup (IF fcs_inc = 1 THEN {"FCS_INC"} ELSE {}), prq_len)
            \/ /\ k = len(f) /\ LastCovered(f) = len(f) /\ state' = "IPG" /\ buf_wr' = 0 /\ prq_stb' = 1
               /\ pipe'[4] = Idle
               /\ Descriptor(DataFlag(f, k), prq_len)
            \/ /\ k + 1 <= LastCovered(f) /\ state' = "PKT" /\ buf_wr' = 1 /\ prq_stb' = 0
               /\ pipe'[5] = Byte(f, k + 1) /\ k + 1 <= len(f)
               /\ Descriptor(DataFlag(f, k), prq_len)
<1>1. state = "PKT" /\ k \in Nat /\ len(f) \in Nat /\ FirstByte(f) \in Nat /\ LastCovered(f) \in Int
  BY FrameType DEF Packet
<1>2. k \in FirstByte(f) .. LastCovered(f) /\ prq_stb = 0 /\ buf_wr = 1
  <2>1. AtByte(f, k)
    BY <1>1 DEF Inv3, FsmInv
  <2>2. prq_stb = 0 /\ buf_wr = 1
    BY <1>1 DEF Inv3, FsmInv, TypeInv, CaseType
  <2> QED
    BY <1>1, <2>1, <2>2 DEF AtByte
<1> DEFINE fcs == (DataFlag(f, k) \ {"FCS_INC"}) \cup (IF fcs_inc = 1 THEN {"FCS_INC"} ELSE {})
           door == ~dv(b) /\ \A i \in 1 .. 5 : dv(pipe[i])
<1>3. IF door THEN Descriptor(fcs, prq_len) /\ Case("FCS", 0, fcs_inc, 0)
      ELSE IF ~dv(pipe[4]) THEN EndOfPacket(DataFlag(f, k))
      ELSE Descriptor(DataFlag(f, k), prq_len) /\ Case(state, count, buf_wr, 0)
  BY DEF Packet, DataFlag
<1>4. /\ k < len(f) => pipe[4] = Byte(f, k + 1)
      /\ k = len(f) => pipe[4] = Idle /\ pipe[3] = Idle
      /\ door <=> k = len(f) - 4
  BY Ahead DEF Inv3, TypeInv
<1>5. pipe'[5] = pipe[4] /\ pipe'[4] = pipe[3]
  BY Shift DEF Inv3, TypeInv
<1> HIDE DEF fcs, door
<1>6. prq_idx' = prq_idx
  <2>1. \E fl : Descriptor(fl, prq_len)
    BY <1>3 DEF EndOfPacket
  <2> QED
    BY <1>2, <2>1 DEF Descriptor
<1>7. CASE k = len(f) - 4
  <2>1. Descriptor(fcs, prq_len) /\ state' = "FCS" /\ count' = 0 /\ buf_wr' = fcs_inc /\ prq_stb' = 0
    BY <1>3, <1>4, <1>7 DEF Case
  <2>2. pipe'[5] = Byte(f, k + 1) /\ k + 1 <= len(f) /\ len(f) - 4 >= FirstByte(f)
    BY <1>1, <1>2, <1>4, <1>5, <1>7
  <2> QED
    BY <1>1, <1>2, <1>6, <1>7, <2>1, <2>2 DEF fcs
<1>8. CASE k = len(f)
  <2>1. ~door /\ ~dv(pipe[4]) /\ pipe[3] = Idle
    BY <1>1, <1>4, <1>8 DEF dv
  <2>2. Descriptor(DataFlag(f, k), prq_len) /\ state' = "IPG" /\ buf_wr' = 0 /\ prq_stb' = 1
    BY <1>3, <2>1, EndMoves
  <2>3. LastCovered(f) = len(f)
    BY <1>1, <1>2, <1>8 DEF LastCovered
  <2> QED
    BY <1>1, <1>2, <1>5, <1>6, <1>8, <2>1, <2>2, <2>3
<1>9. CASE k # len(f) - 4 /\ k # len(f)
  <2>1. k < len(f)
    BY <1>1, <1>9
  <2>2. ~door /\ dv(pipe[4]) /\ pipe'[5] = Byte(f, k + 1) /\ k + 1 <= len(f)
    BY <1>1, <1>4, <1>5, <1>9, <2>1, IdleIsNone DEF dv
  <2>3. Descriptor(DataFlag(f, k), prq_len) /\ state' = "PKT" /\ buf_wr' = 1 /\ prq_stb' = 0
    BY <1>1, <1>2, <1>3, <2>2 DEF Case
  <2>4. k + 1 <= LastCovered(f)
    <3>1. LastCovered(f) = len(f) - 4 \/ LastCovered(f) = len(f)
      BY DEF LastCovered
    <3> QED
      BY <1>1, <1>2, <1>9, <3>1
  <2> QED
    BY <1>1, <1>2, <1>6, <2>2, <2>3, <2>4
<1> QED
  BY <1>7, <1>8, <1>9

FcsFlag(f) ==
  LET first == IF count = 0 THEN prq_flag \ {"FCS_BAD"} ELSE prq_flag
  IN IF count + 1 \in FrameTable[f].wrong THEN first \cup {"FCS_BAD"} ELSE first

LEMMA FcsMoves ==
  ASSUME Inv3, GAP >= 2, NEW b, Works(b), Fcs(b),
         NEW f \in Frames, NEW k \in 1 .. len(f), pipe[5] = Byte(f, k)
  PROVE  /\ state = "FCS" /\ k = len(f) - 3 + count /\ count \in 0 .. 3
         /\ len(f) - 4 >= FirstByte(f) /\ prq_stb = 0 /\ buf_wr = fcs_inc /\ prq_idx' = prq_idx
         /\ Descriptor(FcsFlag(f), prq_len)
         /\ \/ /\ count = 3 /\ k = len(f) /\ state' = "IPG" /\ buf_wr' = 0 /\ prq_stb' = 1 /\ pipe'[4] = Idle
            \/ /\ count < 3 /\ state' = "FCS" /\ buf_wr' = fcs_inc /\ prq_stb' = 0 /\ count' = count + 1
               /\ pipe'[5] = Byte(f, k + 1) /\ k + 1 <= len(f)
<1>1. state = "FCS" /\ k \in Nat /\ len(f) \in Nat /\ FirstByte(f) \in Nat /\ fcs_inc \in {0, 1}
  BY FrameType, Sizes DEF Fcs
<1>2. k = len(f) - 3 + count /\ len(f) - 4 >= FirstByte(f) /\ prq_stb = 0 /\ buf_wr = fcs_inc /\ count \in 0 .. 3
  <2>1. AtByte(f, k)
    BY <1>1 DEF Inv3, FsmInv
  <2>2. prq_stb = 0 /\ buf_wr = fcs_inc /\ count \in 0 .. 3
    BY <1>1 DEF Inv3, FsmInv, TypeInv, CaseType
  <2> QED
    BY <1>1, <2>1, <2>2 DEF AtByte
<1>3. IF count = 3 THEN EndOfPacket(FcsFlag(f))
      ELSE Descriptor(FcsFlag(f), prq_len) /\ Case(state, count + 1, buf_wr, 0)
  <2>1. wrong(pipe[5]) = FrameTable[f].wrong
    BY IdleIsNone DEF wrong
  <2> QED
    BY <2>1 DEF Fcs, FcsFlag
<1>4. /\ k < len(f) => pipe[4] = Byte(f, k + 1)
      /\ k = len(f) => pipe[4] = Idle /\ pipe[3] = Idle
  BY Ahead DEF Inv3, TypeInv
<1>5. pipe'[5] = pipe[4] /\ pipe'[4] = pipe[3]
  BY Shift DEF Inv3, TypeInv
<1>6. prq_idx' = prq_idx
  <2>1. \E fl : Descriptor(fl, prq_len)
    BY <1>3 DEF EndOfPacket
  <2> QED
    BY <1>2, <2>1 DEF Descriptor
<1>7. CASE count = 3
  <2>1. k = len(f) /\ pipe[3] = Idle /\ pipe'[4] = Idle
    BY <1>1, <1>2, <1>4, <1>5, <1>7
  <2>2. Descriptor(FcsFlag(f), prq_len) /\ state' = "IPG" /\ buf_wr' = 0 /\ prq_stb' = 1
    BY <1>3, <1>7, <2>1, EndMoves
  <2> QED
    BY <1>1, <1>2, <1>6, <1>7, <2>1, <2>2
<1>8. CASE count # 3
  <2>1. count < 3 /\ k < len(f) /\ k + 1 <= len(f)
    BY <1>1, <1>2, <1>8
  <2>2. pipe'[5] = Byte(f, k + 1)
    BY <1>4, <1>5, <2>1
  <2>3. Descriptor(FcsFlag(f), prq_len) /\ state' = "FCS" /\ buf_wr' = fcs_inc /\ prq_stb' = 0 /\ count' = count + 1
    BY <1>1, <1>2, <1>3, <1>8 DEF Case
  <2> QED
    BY <1>1, <1>2, <1>6, <2>1, <2>2, <2>3
<1> QED
  BY <1>7, <1>8

\* The steps in which the state machine takes no byte of a packet.
Quiet(b) == Startup(b) \/ Wait(b) \/ Refuse(b) \/ Drop(b) \/ Ipg(b)

LEMMA QuietMoves ==
  ASSUME Inv3, GAP >= 2, NEW b, Works(b), Quiet(b)
  PROVE  /\ buf_wr = 0 /\ buf_wr' = 0 /\ prq_stb' = 0 /\ prq_len' = prq_len
         /\ prq_idx' = IF prq_stb = 1 THEN buf_wptr ELSE prq_idx
         /\ state' \in {"STARTUP", "IDLE", "DROP", "IPG"} /\ state \notin {"PRE", "PKT", "FCS"}
         /\ state' = "STARTUP" => prq_flag' = {}
         /\ state' = "IDLE" => pipe'[5] = Idle /\ prq_flag' \subseteq {"IPG_SHORT"}
         /\ state' = "IPG" => pipe'[4] = Idle
         /\ state' = "DROP" => pipe'[5] # Idle
<1>1. state \notin {"PRE", "PKT", "FCS"}
  BY DEF Quiet, Startup, Wait, Refuse, Drop, Ipg
<1>2. buf_wr = 0
  BY <1>1 DEF Inv3, FsmInv, TypeInv, CaseType
<1>3. pipe'[5] = pipe[4] /\ pipe'[4] = pipe[3]
  BY Shift DEF Inv3, TypeInv
<1>4. ASSUME NEW fl, NEW s, NEW n, Descriptor(fl, prq_len), Case(s, n, buf_wr, 0)
      PROVE  /\ prq_len' = prq_len /\ prq_idx' = (IF prq_stb = 1 THEN buf_wptr ELSE prq_idx)
             /\ prq_flag' = (IF prq_stb = 1 THEN {} ELSE fl)
             /\ buf_wr' = 0 /\ prq_stb' = 0 /\ state' = s
  BY <1>2, <1>4 DEF Descriptor, Case
<1>5. CASE Startup(b)
  <2>1. state = "STARTUP" /\ prq_flag = {}
    BY <1>5 DEF Startup, Inv3, FsmInv
  <2>2. CASE ~dv(b) /\ \A i \in 1 .. 5 : ~dv(pipe[i])
    <3>1. Descriptor(prq_flag, prq_len) /\ Case("IDLE", count, buf_wr, 0)
      BY <1>5, <2>2 DEF Startup
    <3>2. ~dv(pipe[4])
      BY <2>2
    <3>3. pipe'[5] = Idle
      BY <1>3, <3>2 DEF dv
    <3>4. /\ prq_len' = prq_len /\ prq_idx' = (IF prq_stb = 1 THEN buf_wptr ELSE prq_idx)
             /\ prq_flag' = (IF prq_stb = 1 THEN {} ELSE prq_flag)
             /\ buf_wr' = 0 /\ prq_stb' = 0 /\ state' = "IDLE"
      BY <1>4, <3>1
    <3> QED
      BY <1>1, <1>2, <2>1, <3>3, <3>4
  <2>3. CASE ~(~dv(b) /\ \A i \in 1 .. 5 : ~dv(pipe[i]))
    <3>1. Descriptor(prq_flag, prq_len) /\ Case(state, count, buf_wr, 0)
      BY <1>5, <2>3 DEF Startup
    <3>4. /\ prq_len' = prq_len /\ prq_idx' = (IF prq_stb = 1 THEN buf_wptr ELSE prq_idx)
             /\ prq_flag' = (IF prq_stb = 1 THEN {} ELSE prq_flag)
             /\ buf_wr' = 0 /\ prq_stb' = 0 /\ state' = state
      BY <1>4, <3>1
    <3> QED
      BY <1>1, <1>2, <2>1, <3>4
  <2> QED
    BY <2>2, <2>3
<1>6. CASE Wait(b)
  <2>1. /\ state = "IDLE" /\ prq_flag \subseteq {"IPG_SHORT"} /\ ~dv(pipe[4])
        /\ Descriptor(prq_flag, prq_len) /\ Case(state, count, buf_wr, 0)
    BY <1>6 DEF Wait, Inv3, FsmInv
  <2>2. /\ prq_len' = prq_len /\ prq_idx' = (IF prq_stb = 1 THEN buf_wptr ELSE prq_idx)
        /\ prq_flag' = (IF prq_stb = 1 THEN {} ELSE prq_flag)
        /\ buf_wr' = 0 /\ prq_stb' = 0 /\ state' = state
    BY <1>4, <2>1
  <2>3. pipe'[5] = Idle
    BY <1>3, <2>1 DEF dv
  <2> QED
    BY <1>1, <1>2, <2>1, <2>2, <2>3
<1>7. CASE Refuse(b)
  <2>1. dv(pipe[4]) /\ Descriptor(prq_flag, prq_len) /\ Case("DROP", 0, buf_wr, 0)
    BY <1>7 DEF Refuse
  <2>2. /\ prq_len' = prq_len /\ prq_idx' = (IF prq_stb = 1 THEN buf_wptr ELSE prq_idx)
        /\ buf_wr' = 0 /\ prq_stb' = 0 /\ state' = "DROP"
    BY <1>4, <2>1
  <2>3. pipe'[5] # Idle
    BY <1>3, <2>1 DEF dv
  <2> QED
    BY <1>1, <1>2, <2>2, <2>3
<1>8. CASE Drop(b)
  <2>1. CASE dv(pipe[4])
    <3>1. state = "DROP" /\ Descriptor(prq_flag, prq_len) /\ Case(state, count, buf_wr, 0)
      BY <1>8, <2>1 DEF Drop
    <3>2. /\ prq_len' = prq_len /\ prq_idx' = (IF prq_stb = 1 THEN buf_wptr ELSE prq_idx)
          /\ buf_wr' = 0 /\ prq_stb' = 0 /\ state' = state
      BY <1>4, <3>1
    <3>3. pipe'[5] # Idle
      BY <1>3, <2>1 DEF dv
    <3> QED
      BY <1>1, <1>2, <3>1, <3>2, <3>3
  <2>2. CASE ~dv(pipe[4])
    <3>1. state = "DROP" /\ Descriptor(prq_flag, prq_len) /\ Case("IPG", 0, buf_wr, 0)
      BY <1>8, <2>2 DEF Drop
    <3>2. /\ prq_len' = prq_len /\ prq_idx' = (IF prq_stb = 1 THEN buf_wptr ELSE prq_idx)
          /\ buf_wr' = 0 /\ prq_stb' = 0 /\ state' = "IPG"
      BY <1>4, <3>1
    <3>3. pipe[5] # Idle
      BY <3>1 DEF Inv3, FsmInv
    <3>4. ~dv(pipe[3])
      BY <2>2, <3>3 DEF Inv3, WireInv, dv
    <3>5. pipe'[4] = Idle
      BY <1>3, <3>4 DEF dv
    <3> QED
      BY <1>1, <1>2, <3>2, <3>5
  <2> QED
    BY <2>1, <2>2
<1>9. CASE Ipg(b)
  <2>1. state = "IPG" /\ pipe[4] = Idle
    BY <1>9 DEF Ipg, Inv3, FsmInv
  <2>2. CASE dv(pipe[3])
    <3>1. /\ Descriptor(IF count < IPG_MIN - 2 THEN {"IPG_SHORT"} ELSE {}, prq_len)
          /\ Case("IDLE", 0, buf_wr, 0)
      BY <1>9, <2>2 DEF Ipg
    <3>2. /\ prq_len' = prq_len /\ prq_idx' = (IF prq_stb = 1 THEN buf_wptr ELSE prq_idx)
          /\ prq_flag' = (IF prq_stb = 1 THEN {} ELSE IF count < IPG_MIN - 2 THEN {"IPG_SHORT"} ELSE {})
          /\ buf_wr' = 0 /\ prq_stb' = 0 /\ state' = "IDLE"
      BY <1>4, <3>1
    <3> QED
      BY <1>1, <1>2, <1>3, <2>1, <3>2
  <2>3. CASE ~dv(pipe[3])
    <3>1. /\ Descriptor(prq_flag, prq_len)
          /\ Case(state, IF count < COUNT_MAX THEN count + 1 ELSE count, buf_wr, 0)
      BY <1>9, <2>3 DEF Ipg
    <3>2. /\ prq_len' = prq_len /\ prq_idx' = (IF prq_stb = 1 THEN buf_wptr ELSE prq_idx)
          /\ buf_wr' = 0 /\ prq_stb' = 0 /\ state' = state
      BY <1>4, <3>1
    <3>3. pipe'[4] = Idle
      BY <1>3, <2>3 DEF dv
    <3> QED
      BY <1>1, <1>2, <2>1, <3>2, <3>3
  <2> QED
    BY <2>2, <2>3
<1> QED
  BY <1>5, <1>6, <1>7, <1>8, <1>9 DEF Quiet

LEMMA FsmInit == Init => FsmInv
<1> SUFFICES ASSUME Init PROVE FsmInv
  OBVIOUS
<1>1. state = "STARTUP" /\ prq_stb = 0 /\ buf_wr = 0 /\ prq_flag = {} /\ pipe[5] = Idle
  BY DEF Init
<1> QED
  BY <1>1, IdleIsNone DEF FsmInv

\* The state after a byte is taken, put together.
LEMMA FsmOf ==
  ASSUME NEW f \in Frames, NEW m \in Nat, pipe'[5] = Byte(f, m), state' \in {"PRE", "PKT", "FCS"},
         prq_stb' = 0, AtByte(f, m)', buf_wr' = 1 <=> state' = "PKT" \/ (state' = "FCS" /\ fcs_inc = 1)
  PROVE  FsmInv'
<1>1. pipe'[5] # Idle /\ \A g \in Frames, j \in Nat : pipe'[5] = Byte(g, j) => g = f /\ j = m
  BY IdleIsNone
<1>2. \A g \in Frames, j \in Nat : pipe'[5] = Byte(g, j) => AtByte(g, j)'
  BY <1>1
<1> QED
  BY <1>1, <1>2 DEF FsmInv

LEMMA FsmStep ==
  ASSUME Inv3, GAP >= 2, NEW b, Works(b), Cases(b)
  PROVE  FsmInv'
<1>0. state' \in {"PRE", "PKT", "FCS"} => buf_wr' \in {0, 1}
  BY CaseKeepsType DEF Inv3, TypeInv, CaseType
<1>1. CASE Quiet(b)
  <2>1. /\ buf_wr' = 0 /\ prq_stb' = 0 /\ state' \in {"STARTUP", "IDLE", "DROP", "IPG"}
        /\ state' = "STARTUP" => prq_flag' = {}
        /\ state' = "IDLE" => pipe'[5] = Idle /\ prq_flag' \subseteq {"IPG_SHORT"}
        /\ state' = "IPG" => pipe'[4] = Idle
        /\ state' = "DROP" => pipe'[5] # Idle
    BY <1>1, QuietMoves
  <2>2. \A f \in Frames, k \in Nat : AtByte(f, k)'
    BY <2>1 DEF AtByte
  <2> QED
    BY <2>1, <2>2 DEF FsmInv
<1>2. CASE Accept(b)
  <2>1. PICK f \in Frames :
         /\ pipe'[5] = Byte(f, 1) /\ 1 \in 1 .. len(f) /\ prq_stb' = 0 /\ prq_len' = 0
         /\ state' = (IF pre_inc = 1 THEN "PKT" ELSE "PRE") /\ buf_wr' = pre_inc
    BY <1>2, AcceptMoves
  <2>2. pre(f) \in Nat /\ len(f) \in Nat \ {0} /\ pre_inc \in {0, 1}
    BY FrameType, Sizes
  <2>3. AtByte(f, 1)'
    BY <2>1, <2>2 DEF AtByte, FirstByte, LastCovered
  <2>4. buf_wr' = 1 <=> state' = "PKT" \/ (state' = "FCS" /\ fcs_inc = 1)
    BY <2>1, <2>2
  <2> QED
    BY <2>1, <2>3, <2>4, FsmOf
<1>3. CASE Preamble(b) \/ Packet(b) \/ Fcs(b)
  <2>1. pipe[5] # Idle
    BY <1>3 DEF Preamble, Packet, Fcs, Inv3, FsmInv
  <2>2. PICK f \in Frames : \E k \in 1 .. len(f) : pipe[5] = Byte(f, k)
    BY <2>1, ByteHere DEF Inv3, TypeInv
  <2>3. PICK k \in 1 .. len(f) : pipe[5] = Byte(f, k)
    BY <2>2
  <2>4. PICK m \in Nat : m = k + 1
    BY FrameType
  <2>5. ASSUME state' = "IPG", pipe'[4] = Idle, buf_wr' = 0 PROVE FsmInv'
    <3>1. \A g \in Frames, j \in Nat : AtByte(g, j)'
      BY <2>5 DEF AtByte
    <3> QED
      BY <2>5, <3>1 DEF FsmInv
  <2>6. pre(f) \in Nat /\ len(f) \in Nat \ {0} /\ fcs_inc \in {0, 1} /\ k \in Nat /\ FirstByte(f) \in Nat
        /\ LastCovered(f) \in Int
    BY FrameType, Sizes
  <2>7. CASE Preamble(b)
    <3>1. /\ k <= pre(f) + 1 /\ pre_inc = 0 /\ prq_stb' = 0 /\ prq_len' = 0
          /\ \/ k = len(f) /\ state' = "IPG" /\ buf_wr' = 0 /\ pipe'[4] = Idle
             \/ k <= pre(f) /\ state' = "PRE" /\ buf_wr' = 0 /\ pipe'[5] = Byte(f, k + 1)
             \/ k = pre(f) + 1 /\ state' = "PKT" /\ buf_wr' = 1 /\ pipe'[5] = Byte(f, k + 1) /\ k + 1 <= len(f)
      BY <2>3, <2>7, PreambleMoves
    <3>2. CASE k = len(f) /\ state' = "IPG" /\ buf_wr' = 0 /\ pipe'[4] = Idle
      BY <2>5, <3>2
    <3>3. CASE k <= pre(f) /\ state' = "PRE" /\ buf_wr' = 0 /\ pipe'[5] = Byte(f, k + 1)
      <4>1. AtByte(f, m)' /\ pipe'[5] = Byte(f, m)
        BY <2>4, <2>6, <3>1, <3>3 DEF AtByte
      <4> QED
        BY <3>1, <3>3, <4>1, FsmOf
    <3>4. CASE k = pre(f) + 1 /\ state' = "PKT" /\ buf_wr' = 1 /\ pipe'[5] = Byte(f, k + 1) /\ k + 1 <= len(f)
      <4>1. AtByte(f, m)' /\ pipe'[5] = Byte(f, m)
        BY <2>4, <2>6, <3>1, <3>4 DEF AtByte, FirstByte, LastCovered
      <4> QED
        BY <3>1, <3>4, <4>1, FsmOf
    <3> QED
      BY <3>1, <3>2, <3>3, <3>4
  <2>8. CASE Packet(b)
    <3>1. /\ k \in FirstByte(f) .. LastCovered(f)
          /\ \/ /\ k = len(f) - 4 /\ state' = "FCS" /\ count' = 0 /\ buf_wr' = fcs_inc /\ prq_stb' = 0
                /\ pipe'[5] = Byte(f, k + 1) /\ len(f) - 4 >= FirstByte(f)
             \/ state' = "IPG" /\ buf_wr' = 0 /\ pipe'[4] = Idle
             \/ /\ k + 1 <= LastCovered(f) /\ state' = "PKT" /\ buf_wr' = 1 /\ prq_stb' = 0
                /\ pipe'[5] = Byte(f, k + 1)
      BY <2>3, <2>8, PacketMoves
    <3>2. CASE state' = "IPG" /\ buf_wr' = 0 /\ pipe'[4] = Idle
      BY <2>5, <3>2
    <3>3. CASE /\ k = len(f) - 4 /\ state' = "FCS" /\ count' = 0 /\ buf_wr' = fcs_inc /\ prq_stb' = 0
               /\ pipe'[5] = Byte(f, k + 1) /\ len(f) - 4 >= FirstByte(f)
      <4>1. AtByte(f, m)' /\ pipe'[5] = Byte(f, m)
        BY <2>4, <2>6, <3>3 DEF AtByte
      <4> QED
        BY <2>6, <3>3, <4>1, FsmOf
    <3>4. CASE k + 1 <= LastCovered(f) /\ state' = "PKT" /\ buf_wr' = 1 /\ prq_stb' = 0 /\ pipe'[5] = Byte(f, k + 1)
      <4>1. AtByte(f, m)' /\ pipe'[5] = Byte(f, m)
        BY <2>4, <2>6, <3>1, <3>4 DEF AtByte
      <4> QED
        BY <3>4, <4>1, FsmOf
    <3> QED
      BY <3>1, <3>2, <3>3, <3>4
  <2>9. CASE Fcs(b)
    <3>1. /\ k = len(f) - 3 + count /\ len(f) - 4 >= FirstByte(f) /\ count \in 0 .. 3
          /\ \/ state' = "IPG" /\ buf_wr' = 0 /\ pipe'[4] = Idle
             \/ state' = "FCS" /\ buf_wr' = fcs_inc /\ prq_stb' = 0 /\ count' = count + 1 /\ pipe'[5] = Byte(f, k + 1)
      BY <2>3, <2>9, FcsMoves
    <3>2. CASE state' = "IPG" /\ buf_wr' = 0 /\ pipe'[4] = Idle
      BY <2>5, <3>2
    <3>3. CASE state' = "FCS" /\ buf_wr' = fcs_inc /\ prq_stb' = 0 /\ count' = count + 1 /\ pipe'[5] = Byte(f, k + 1)
      <4>1. AtByte(f, m)' /\ pipe'[5] = Byte(f, m)
        BY <2>4, <2>6, <3>1, <3>3 DEF AtByte
      <4> QED
        BY <2>6, <3>3, <4>1, FsmOf
    <3> QED
      BY <3>1, <3>2, <3>3
  <2> QED
    BY <1>3, <2>7, <2>8, <2>9
<1> QED
  BY <1>1, <1>2, <1>3 DEF Cases, Quiet

LEMMA FirmwareKeepsFsm ==
  ASSUME WireInv, FsmInv, UNCHANGED <<line, pipe, fe>>
  PROVE  WireInv' /\ FsmInv'
<1>1. WireInv'
  BY DEF WireInv
<1>2. UNCHANGED <<state, count, prq_len, prq_flag, prq_stb, buf_wr, pipe>>
  BY DEF fe
<1>3. \A f \in Frames, k \in Nat : pipe'[5] = Byte(f, k) => AtByte(f, k)'
  BY <1>2 DEF FsmInv, AtByte
<1>4. FsmInv'
  BY <1>2, <1>3 DEF FsmInv
<1> QED
  BY <1>1, <1>4

(***************************************************************************)
(* Room for the descriptor, and the order of the reclaim handshake.        *)
(***************************************************************************)
Receiving == state \in {"PKT", "FCS"} \/ prq_stb = 1

RoomInv == state \in {"PRE", "PKT", "FCS"} \/ prq_stb = 1 => Len(prq) < PRQ_SIZE

ReclaimInv ==
  /\ pfq_stb = 1 => pfq # <<>> /\ pfq_len_r = pfq[1]
  /\ pfq_rdy_r = 1 /\ pfq_stb = 0 /\ pfq_stb_r[1] = 0 => pfq # <<>>

LEMMA RoomStep ==
  ASSUME Inv3, GAP >= 2, RoomInv, NEW b, Works(b), Cases(b)
  PROVE  RoomInv'
<1>1. CASE Quiet(b)
  BY <1>1, QuietMoves DEF RoomInv
<1>2. CASE Accept(b)
  <2>1. Len(prq) < PRQ_SIZE /\ prq_stb = 0
    BY <1>2, AcceptMoves
  <2> QED
    BY <2>1 DEF RoomInv, Works, Queues
<1>3. CASE Preamble(b) \/ Packet(b) \/ Fcs(b)
  <2>1. state \in {"PRE", "PKT", "FCS"}
    BY <1>3 DEF Preamble, Packet, Fcs
  <2>2. prq_stb # 1 /\ Len(prq) < PRQ_SIZE
    BY <2>1 DEF Inv3, FsmInv, RoomInv
  <2> QED
    BY <2>2 DEF RoomInv, Works, Queues
<1> QED
  BY <1>1, <1>2, <1>3 DEF Cases, Quiet

LEMMA ReclaimStep ==
  ASSUME ReclaimType, ReclaimInv, Reclaim, Queues
  PROVE  ReclaimInv'
<1>1. HOLD \in Nat \ {0} /\ 1 \in 1 .. HOLD
  BY Sizes
<1>2. pfq_stb_r'[1] = pfq_stb
  BY <1>1 DEF Reclaim
<1>3. ASSUME pfq_stb' = 1 PROVE pfq' # <<>> /\ pfq_len_r' = pfq'[1]
  <2>1. pfq_rdy_r = 1 /\ pfq_stb = 0 /\ pfq_stb_r[1] = 0
    BY <1>1, <1>3 DEF Reclaim
  <2>2. pfq # <<>> /\ pfq' = pfq
    BY <2>1 DEF ReclaimInv, Queues
  <2> QED
    BY <2>2 DEF Reclaim
<1>4. ASSUME pfq_rdy_r' = 1, pfq_stb_r'[1] = 0 PROVE pfq' # <<>>
  <2>1. pfq # <<>>
    BY <1>4 DEF Reclaim
  <2> QED
    BY <1>2, <1>4, <2>1 DEF Queues
<1> QED
  BY <1>3, <1>4 DEF ReclaimInv

LEMMA RoomAndReclaimInit == Init => RoomInv /\ ReclaimInv
BY DEF Init, RoomInv, ReclaimInv

LEMMA FirmwareKeepsRoom ==
  ASSUME TypeInv, RoomInv, ReclaimInv, RxGet \/ RxFree
  PROVE  RoomInv' /\ ReclaimInv'
<1>1. UNCHANGED <<state, prq_stb, pfq_rdy_r, pfq_len_r, pfq_stb, pfq_stb_r>>
  BY DEF RxGet, RxFree, fe
<1>2. CASE RxGet
  <2>1. prq # <<>> /\ prq' = Tail(prq) /\ UNCHANGED pfq
    BY <1>2 DEF RxGet
  <2>2. Len(prq') = Len(prq) - 1 /\ Len(prq) \in Nat
    BY <2>1, Popped DEF TypeInv, QueueType
  <2> QED
    BY <1>1, <2>1, <2>2, Sizes DEF RoomInv, ReclaimInv
<1>3. CASE RxFree
  <2>1. UNCHANGED prq /\ held # <<>> /\ (pfq' = Append(pfq, held[1].len) \/ pfq' = pfq)
    BY <1>3 DEF RxFree
  <2>2. held[1].len \in 0 .. LEN_MOD - 1
    <3>1. held[1] \in Descriptors
      BY <2>1, Popped DEF TypeInv, QueueType
    <3> QED
      BY <3>1 DEF Descriptors
  <2>3. pfq # <<>> => pfq' # <<>> /\ pfq'[1] = pfq[1]
    <3>1. ASSUME pfq # <<>>, pfq' = Append(pfq, held[1].len) PROVE pfq' # <<>> /\ pfq'[1] = pfq[1]
      <4>1. pfq \in Seq(0 .. LEN_MOD - 1)
        BY DEF TypeInv, QueueType
      <4>2. Len(pfq) \in Nat \ {0}
        BY <3>1, <4>1, Popped
      <4>3. Len(pfq') = Len(pfq) + 1 /\ \A i \in 1 .. Len(pfq) : pfq'[i] = pfq[i]
        BY <2>1, <2>2, <3>1, <4>1, Pushed
      <4> QED
        BY <4>2, <4>3, EmptySeq
    <3> QED
      BY <2>1, <3>1
  <2> QED
    BY <1>1, <2>1, <2>3 DEF RoomInv, ReclaimInv
<1> QED
  BY <1>2, <1>3

(***************************************************************************)
(* The invariants so far together.                                         *)
(***************************************************************************)
Inv4 == Inv3 /\ RoomInv /\ ReclaimInv

LEMMA Inv4Init == Init => Inv4
BY InitType, WireInit, FsmInit, RoomAndReclaimInit DEF Inv4, Inv3

LEMMA Inv4Rx ==
  ASSUME Inv4, GAP >= 2, NEW b, Works(b), Cases(b)
  PROVE  Inv4'
<1>1. TypeInv'
  <2>1. WireType'
    BY WireKeepsType DEF Inv4, Inv3, TypeInv
  <2>2. RingType' /\ ReclaimType'
    BY RingKeepsType DEF Inv4, Inv3, TypeInv, Works
  <2>3. CaseType'
    BY CaseKeepsType DEF Inv4, Inv3, TypeInv
  <2>4. QueueType'
    BY QueuesKeepType DEF Inv4, Inv3, TypeInv, Works
  <2> QED
    BY <2>1, <2>2, <2>3, <2>4 DEF TypeInv
<1>2. WireInv'
  BY WireStep DEF Inv4, Inv3, TypeInv
<1>3. FsmInv'
  BY FsmStep DEF Inv4
<1>4. RoomInv'
  BY RoomStep DEF Inv4
<1>5. ReclaimInv'
  BY ReclaimStep DEF Inv4, Inv3, TypeInv, Works
<1> QED
  BY <1>1, <1>2, <1>3, <1>4, <1>5 DEF Inv4, Inv3

LEMMA Inv4Firmware ==
  ASSUME Inv4, RxGet \/ RxFree
  PROVE  Inv4'
<1>1. UNCHANGED <<line, pipe, fe>>
  BY DEF RxGet, RxFree
<1>2. TypeInv'
  BY FirmwareType DEF Inv4, Inv3
<1>3. WireInv' /\ FsmInv'
  BY <1>1, FirmwareKeepsFsm DEF Inv4, Inv3
<1>4. RoomInv' /\ ReclaimInv'
  BY FirmwareKeepsRoom DEF Inv4, Inv3
<1> QED
  BY <1>2, <1>3, <1>4 DEF Inv4, Inv3

LEMMA Inv4Stutter == Inv4 /\ UNCHANGED vars => Inv4'
<1> SUFFICES ASSUME Inv4, UNCHANGED vars PROVE Inv4'
  OBVIOUS
<1>1. TypeInv'
  BY TypeStep DEF Inv4, Inv3
<1>2. WireInv' /\ FsmInv'
  BY FirmwareKeepsFsm DEF Inv4, Inv3, vars
<1>3. RoomInv' /\ ReclaimInv'
  BY DEF Inv4, RoomInv, ReclaimInv, vars, fe
<1> QED
  BY <1>1, <1>2, <1>3 DEF Inv4, Inv3

LEMMA Inv4Step ==
  ASSUME GAP >= 2
  PROVE  Inv4 /\ [Next]_vars => Inv4'
<1> SUFFICES ASSUME Inv4, [Next]_vars PROVE Inv4'
  OBVIOUS
<1>1. CASE Rx
  <2>1. PICK b : Works(b) /\ Cases(b)
    BY <1>1, RxIs
  <2> QED
    BY <2>1, Inv4Rx
<1>2. CASE RxGet \/ RxFree
  BY <1>2, Inv4Firmware
<1>3. CASE UNCHANGED vars
  BY <1>3, Inv4Stutter
<1> QED
  BY <1>1, <1>2, <1>3 DEF Next

\* The state machine keeps its place in the frame, and the room in the PRQ and the
\* descriptor fetched from the PFQ are there when they are used.
THEOREM FrameOrder == ASSUME GAP >= 2 PROVE Spec => []Inv4
<1>1. Inv4 /\ [Next]_vars => Inv4'
  BY Inv4Step
<1> QED
  BY <1>1, Inv4Init, PTL DEF Spec

\* When frames are at least two idle cycles apart, as the interpacket gap of
\* every MAC is, the front end never strobes a descriptor into a full PRQ,
\* although it asks for room only when the packet begins (PostsOnlyToRoom).
THEOREM PostsFit == ASSUME GAP >= 2 PROVE Spec => []PostsOnlyToRoom
<1>1. Spec => []Inv4
  BY FrameOrder
<1>2. Inv4 => PostsOnlyToRoom
  BY DEF Inv4, RoomInv, PostsOnlyToRoom
<1> QED
  BY <1>1, <1>2, PTL

(***************************************************************************)
(* Positions in the ring.  A position is a natural number, and its cell is *)
(* the position modulo the size.                                           *)
(***************************************************************************)
LEMMA Quotient ==
  ASSUME NEW B \in Nat \ {0}, NEW x \in Nat
  PROVE  \E q \in Nat : \E r \in 0 .. B - 1 : x = q * B + r /\ x % B = r
<1>1. x \div B \in Nat /\ x - B * (x \div B) \in 0 .. B - 1
  OBVIOUS
<1>2. PICK q \in Nat : q = x \div B
  BY <1>1
<1>3. PICK r \in 0 .. B - 1 : r = x - B * q
  BY <1>1, <1>2
<1>4. x = q * B + r
  BY <1>3
<1>5. x % B = r
  BY <1>4
<1> QED
  BY <1>4, <1>5

LEMMA Residue ==
  ASSUME NEW B \in Nat \ {0}, NEW q \in Nat, NEW r \in 0 .. B - 1
  PROVE  (q * B + r) % B = r
OBVIOUS

LEMMA Wraps ==
  ASSUME NEW B \in Nat \ {0}, NEW x \in Nat, NEW j \in Nat
  PROVE  ((x % B) + j) % B = (x + j) % B
<1>1. PICK q \in Nat : \E r \in 0 .. B - 1 : x = q * B + r /\ x % B = r
  BY Quotient
<1>2. PICK r \in 0 .. B - 1 : x = q * B + r /\ x % B = r
  BY <1>1
<1>3. r + j \in Nat
  OBVIOUS
<1>4. PICK p \in Nat : \E s \in 0 .. B - 1 : r + j = p * B + s /\ (r + j) % B = s
  BY <1>3, Quotient
<1>5. PICK s \in 0 .. B - 1 : r + j = p * B + s /\ (r + j) % B = s
  BY <1>4
<1>6. PICK m \in Nat : m = q + p
  OBVIOUS
<1>7. x + j = m * B + s
  <2>1. x + j = q * B + (p * B + s)
    BY <1>2, <1>5
  <2>2. (q + p) * B = q * B + p * B
    OBVIOUS
  <2> QED
    BY <1>6, <2>1, <2>2
<1>8. (x + j) % B = s
  BY <1>7, Residue
<1> QED
  BY <1>2, <1>5, <1>8

LEMMA Apart ==
  ASSUME NEW B \in Nat \ {0}, NEW x \in Nat, NEW y \in Nat, x < y, y < x + B
  PROVE  x % B # y % B
<1>1. PICK q \in Nat : \E r \in 0 .. B - 1 : x = q * B + r /\ x % B = r
  BY Quotient
<1>2. PICK r \in 0 .. B - 1 : x = q * B + r /\ x % B = r
  BY <1>1
<1>3. PICK p \in Nat : \E s \in 0 .. B - 1 : y = p * B + s /\ y % B = s
  BY Quotient
<1>4. PICK s \in 0 .. B - 1 : y = p * B + s /\ y % B = s
  BY <1>3
<1>5. SUFFICES ASSUME r = s PROVE FALSE
  BY <1>2, <1>4
<1>6. p * B - q * B = y - x
  BY <1>2, <1>4, <1>5
<1>7. PICK d \in Int : d = p - q
  OBVIOUS
<1>8. d * B = y - x
  <2>1. (p - q) * B = p * B - q * B
    OBVIOUS
  <2> QED
    BY <1>6, <1>7, <2>1
<1>9. d * B > 0 /\ d * B < B
  BY <1>8
<1>10. CASE d >= 1
  <2>1. d * B >= B
    BY <1>10
  <2> QED
    BY <1>9, <2>1
<1>11. CASE d <= 0
  <2>1. d * B <= 0
    BY <1>11
  <2> QED
    BY <1>9, <2>1
<1> QED
  BY <1>10, <1>11

(***************************************************************************)
(* The length of the packet being received: of the bytes before the one    *)
(* the state machine looks at, those that belong in the buffer; fewer only *)
(* with the TRUNCATE flag up.                                              *)
(***************************************************************************)
Seen(f, k) == IF k - 1 < LastByte(f) THEN k - FirstByte(f) ELSE LastByte(f) - FirstByte(f) + 1

LenAt(f, k) ==
  /\ prq_len <= Seen(f, k)
  /\ "TRUNCATE" \notin prq_flag => prq_len = Seen(f, k)

LenInv ==
  \A f \in Frames, k \in Nat :
    pipe[5] = Byte(f, k) /\ state \in {"PKT", "FCS"} => LenAt(f, k)

LEMMA LastIs ==
  ASSUME NEW f \in Frames
  PROVE  /\ LastCovered(f) = len(f) \/ (LastCovered(f) = len(f) - 4 /\ len(f) - 4 >= FirstByte(f))
         /\ len(f) - 4 >= FirstByte(f) => LastCovered(f) = len(f) - 4
         /\ fcs_inc = 0 => LastByte(f) = LastCovered(f)
         /\ fcs_inc = 1 => LastByte(f) = len(f)
         /\ LastCovered(f) \in Int /\ LastByte(f) \in Int /\ LastCovered(f) <= LastByte(f) /\ LastByte(f) <= len(f)
         /\ LastByte(f) - FirstByte(f) + 1 < LEN_MOD
         /\ FirstByte(f) \in Nat \ {0} /\ len(f) \in Nat \ {0}
<1>1. len(f) \in Nat \ {0} /\ FirstByte(f) \in Nat \ {0} /\ LastByte(f) - FirstByte(f) + 1 < LEN_MOD
  BY FrameType
<1> QED
  BY <1>1, Sizes DEF LastCovered, LastByte

\* The byte that passes is written unless the ring is full.
Covered(f, k) ==
  \/ state = "PKT" /\ k \in FirstByte(f) .. LastCovered(f)
  \/ state = "FCS" /\ k = len(f) - 3 + count /\ count \in 0 .. 3 /\ len(f) - 4 >= FirstByte(f)

LEMMA Writes ==
  ASSUME Inv3, NEW f \in Frames, NEW k \in 1 .. len(f), Covered(f, k), LenAt(f, k),
         NEW flag \in SUBSET FlagBits, Descriptor(flag, prq_len), "TRUNCATE" \in flag <=> "TRUNCATE" \in prq_flag
  PROVE  /\ prq_stb = 0
         /\ buf_we => k <= LastByte(f) /\ prq_len' = prq_len + 1 /\ prq_len <= k - FirstByte(f)
                      /\ ("TRUNCATE" \notin prq_flag => FirstByte(f) + prq_len = k)
         /\ ~buf_we => prq_len' = prq_len
         /\ prq_len' <= Seen(f, k + 1)
         /\ "TRUNCATE" \notin prq_flag' => "TRUNCATE" \notin prq_flag /\ prq_len' = Seen(f, k + 1)
         /\ prq_flag' = flag \/ prq_flag' = flag \cup {"TRUNCATE"}
<1>1. state \in {"PKT", "FCS"} /\ k \in Nat /\ len(f) \in Nat
  BY FrameType DEF Covered
<1>2. prq_stb = 0 /\ (buf_wr = 1 <=> state = "PKT" \/ fcs_inc = 1) /\ buf_wr \in {0, 1} /\ buf_ff \in {0, 1}
      /\ prq_len \in Nat /\ LEN_MOD \in Nat \ {0} /\ fcs_inc \in {0, 1}
  <2>1. LEN_MOD \in Nat \ {0} /\ fcs_inc \in {0, 1}
    BY Sizes
  <2>2. RingType /\ CaseType /\ FsmInv
    BY DEF Inv3, TypeInv
  <2>3. /\ buf_wr \in {0, 1} /\ buf_ff \in {0, 1} /\ prq_stb \in {0, 1}
        /\ prq_len \in 0 .. LEN_MOD - 1
    BY <2>2 DEF RingType, CaseType
  <2>4. prq_stb # 1 /\ (buf_wr = 1 <=> state = "PKT" \/ fcs_inc = 1)
    BY <1>1, <2>2 DEF FsmInv
  <2> QED
    BY <2>1, <2>3, <2>4
<1>3. /\ prq_len' = (IF buf_we THEN (prq_len + 1) % LEN_MOD ELSE prq_len)
      /\ prq_flag' = IF buf_wr = 1 /\ buf_ff = 1 THEN flag \cup {"TRUNCATE"} ELSE flag
  BY <1>2 DEF Descriptor, buf_we
<1>4. /\ FirstByte(f) \in Nat \ {0} /\ LastCovered(f) \in Int /\ LastByte(f) \in Int
      /\ LastByte(f) - FirstByte(f) + 1 < LEN_MOD
      /\ FirstByte(f) <= k /\ (buf_wr = 1 => k <= LastByte(f)) /\ (buf_wr = 0 => k > LastByte(f))
  <2>1. CASE state = "PKT"
    BY <1>1, <1>2, <2>1, LastIs DEF Covered
  <2>2. CASE state = "FCS"
    BY <1>1, <1>2, <2>2, LastIs DEF Covered
  <2> QED
    BY <1>1, <2>1, <2>2
<1>5. CASE buf_wr = 1
  <2>1. k <= LastByte(f) /\ Seen(f, k) = k - FirstByte(f) /\ Seen(f, k + 1) = k + 1 - FirstByte(f)
    BY <1>1, <1>4, <1>5 DEF Seen
  <2>2. prq_len <= k - FirstByte(f) /\ ("TRUNCATE" \notin prq_flag => prq_len = k - FirstByte(f))
    BY <2>1 DEF LenAt
  <2>3. CASE buf_ff = 0
    <3>1. prq_len + 1 < LEN_MOD /\ prq_len + 1 \in Nat
      BY <1>1, <1>2, <1>4, <2>1, <2>2
    <3>2. (prq_len + 1) % LEN_MOD = prq_len + 1
      BY <1>2, <3>1
    <3>3. buf_we /\ prq_len' = prq_len + 1 /\ prq_flag' = flag
      BY <1>3, <1>5, <2>3, <3>2 DEF buf_we
    <3> QED
      BY <1>1, <1>2, <1>4, <2>1, <2>2, <3>3
  <2>4. CASE buf_ff = 1
    <3>1. ~buf_we /\ prq_len' = prq_len /\ prq_flag' = flag \cup {"TRUNCATE"}
      BY <1>3, <1>5, <2>4 DEF buf_we
    <3> QED
      BY <1>1, <1>2, <1>4, <2>1, <2>2, <3>1
  <2> QED
    BY <1>2, <2>3, <2>4
<1>6. CASE buf_wr = 0
  <2>1. Seen(f, k + 1) = LastByte(f) - FirstByte(f) + 1 /\ Seen(f, k) = LastByte(f) - FirstByte(f) + 1
    BY <1>1, <1>4, <1>6 DEF Seen
  <2>2. ~buf_we /\ prq_len' = prq_len /\ prq_flag' = flag
    BY <1>3, <1>6 DEF buf_we
  <2> QED
    BY <1>2, <2>1, <2>2 DEF LenAt
<1> QED
  BY <1>2, <1>5, <1>6

\* What the flags of a step of the packet are made of.
LEMMA StepFlags ==
  ASSUME Inv3, NEW f \in Frames, NEW k \in 1 .. len(f)
  PROVE  LET fcs == (DataFlag(f, k) \ {"FCS_INC"}) \cup (IF fcs_inc = 1 THEN {"FCS_INC"} ELSE {}) IN
         /\ DataFlag(f, k) \in SUBSET FlagBits /\ fcs \in SUBSET FlagBits /\ FcsFlag(f) \in SUBSET FlagBits
         /\ \A x \in FlagBits \ {"DATA_ERR"} : x \in DataFlag(f, k) <=> x \in prq_flag
         /\ \A x \in FlagBits \ {"DATA_ERR", "FCS_INC"} : x \in fcs <=> x \in prq_flag
         /\ "DATA_ERR" \in DataFlag(f, k) <=> "DATA_ERR" \in prq_flag \/ er(Byte(f, k))
         /\ "DATA_ERR" \in fcs <=> "DATA_ERR" \in prq_flag \/ er(Byte(f, k))
         /\ \A x \in FlagBits \ {"FCS_BAD"} : x \in FcsFlag(f) <=> x \in prq_flag
<1>1. prq_flag \in SUBSET FlagBits
  BY DEF Inv3, TypeInv, CaseType
<1>2. /\ DataFlag(f, k) \in SUBSET FlagBits
      /\ \A x \in FlagBits \ {"DATA_ERR"} : x \in DataFlag(f, k) <=> x \in prq_flag
      /\ "DATA_ERR" \in DataFlag(f, k) <=> "DATA_ERR" \in prq_flag \/ er(Byte(f, k))
  BY <1>1, FlagIs DEF DataFlag
<1>3. FcsFlag(f) \in SUBSET FlagBits /\ \A x \in FlagBits \ {"FCS_BAD"} : x \in FcsFlag(f) <=> x \in prq_flag
  BY <1>1, FlagIs DEF FcsFlag
<1> HIDE DEF DataFlag
<1> QED
  BY <1>2, <1>3, FlagIs

LEMMA SameByte == \A f, g, k, j : Byte(f, k) = Byte(g, j) => g = f /\ j = k
BY IdleIsNone

LEMMA LenOf ==
  ASSUME NEW f \in Frames, NEW m \in Nat, pipe'[5] = Byte(f, m), LenAt(f, m)'
  PROVE  LenInv'
<1>1. ASSUME NEW g \in Frames, NEW j \in Nat, pipe'[5] = Byte(g, j) PROVE g = f /\ j = m
  <2>1. Byte(f, m) = Byte(g, j)
    BY <1>1
  <2> QED
    BY <2>1, SameByte
<1> QED
  BY <1>1 DEF LenInv

\* Where the state machine is in the frame, and the byte after.
LEMMA Here ==
  ASSUME Inv3, state \in {"PRE", "PKT", "FCS"}
  PROVE  \E f \in Frames : \E k \in 1 .. len(f) : pipe[5] = Byte(f, k)
BY ByteHere DEF Inv3, TypeInv, FsmInv

\* A step of the packet, seen from its bytes: the byte at hand is covered, its
\* flags change as the case statement says, and then the next byte is at hand,
\* or the packet ends and is complete.
Passes(f, k, fl) ==
  /\ Covered(f, k) /\ Descriptor(fl, prq_len) /\ prq_stb = 0 /\ prq_idx' = prq_idx
  /\ fl \in SUBSET FlagBits
  /\ \A x \in FlagBits \ {"DATA_ERR", "FCS_INC", "FCS_BAD"} : x \in fl <=> x \in prq_flag
  /\ \/ /\ state = "PKT" /\ k <= LastCovered(f)
        /\ "DATA_ERR" \in fl <=> "DATA_ERR" \in prq_flag \/ er(Byte(f, k))
        /\ "FCS_BAD" \in fl <=> "FCS_BAD" \in prq_flag
     \/ /\ state = "FCS" /\ k > LastCovered(f) /\ fl = FcsFlag(f)
        /\ "DATA_ERR" \in fl <=> "DATA_ERR" \in prq_flag
  /\ \/ /\ state' \in {"PKT", "FCS"} /\ prq_stb' = 0 /\ pipe'[5] = Byte(f, k + 1) /\ k + 1 <= len(f)
        /\ state = "PKT" /\ state' = "FCS" => count' = 0
        /\ state = "FCS" => state' = "FCS" /\ count' = count + 1
     \/ /\ state' = "IPG" /\ prq_stb' = 1 /\ k = len(f)
        /\ state = "PKT" => LastCovered(f) = len(f)
        /\ state = "FCS" => count = 3

LEMMA PacketPasses ==
  ASSUME Inv3, GAP >= 2, NEW b, Works(b), Packet(b) \/ Fcs(b),
         NEW f \in Frames, NEW k \in 1 .. len(f), pipe[5] = Byte(f, k)
  PROVE  \E fl : Passes(f, k, fl)
<1>1. CASE Packet(b)
  <2> DEFINE fcs == (DataFlag(f, k) \ {"FCS_INC"}) \cup (IF fcs_inc = 1 THEN {"FCS_INC"} ELSE {})
  <2>1. PICK fl \in {DataFlag(f, k), fcs} :
         /\ state = "PKT" /\ k \in FirstByte(f) .. LastCovered(f)
         /\ prq_stb = 0 /\ prq_idx' = prq_idx /\ Descriptor(fl, prq_len)
         /\ \/ /\ state' \in {"PKT", "FCS"} /\ prq_stb' = 0 /\ pipe'[5] = Byte(f, k + 1) /\ k + 1 <= len(f)
               /\ state' = "FCS" => count' = 0
            \/ /\ state' = "IPG" /\ prq_stb' = 1 /\ k = len(f) /\ LastCovered(f) = len(f)
    <3> HIDE DEF fcs
    <3>1. /\ state = "PKT" /\ k \in FirstByte(f) .. LastCovered(f)
         /\ prq_stb = 0 /\ prq_idx' = prq_idx
         /\ \/ /\ k = len(f) - 4 /\ state' = "FCS" /\ count' = 0 /\ prq_stb' = 0
               /\ pipe'[5] = Byte(f, k + 1) /\ k + 1 <= len(f)
               /\ Descriptor(fcs, prq_len)
            \/ /\ k = len(f) /\ LastCovered(f) = len(f) /\ state' = "IPG" /\ prq_stb' = 1
               /\ Descriptor(DataFlag(f, k), prq_len)
            \/ /\ k + 1 <= LastCovered(f) /\ state' = "PKT" /\ prq_stb' = 0
               /\ pipe'[5] = Byte(f, k + 1) /\ k + 1 <= len(f)
               /\ Descriptor(DataFlag(f, k), prq_len)
      BY <1>1, PacketMoves DEF fcs
    <3> QED
      BY <3>1
  <2>2. /\ fl \in SUBSET FlagBits
        /\ \A x \in FlagBits \ {"DATA_ERR", "FCS_INC", "FCS_BAD"} : x \in fl <=> x \in prq_flag
        /\ "DATA_ERR" \in fl <=> "DATA_ERR" \in prq_flag \/ er(Byte(f, k))
        /\ "FCS_BAD" \in fl <=> "FCS_BAD" \in prq_flag
    <3>1. CASE fl = DataFlag(f, k)
      BY <3>1, StepFlags, FlagIs
    <3>2. CASE fl = fcs
      BY <3>2, StepFlags, FlagIs
    <3> QED
      BY <2>1, <3>1, <3>2
  <2>3. k <= LastCovered(f) /\ Covered(f, k)
    BY <2>1, FrameType DEF Covered
  <2> QED
    BY <2>1, <2>2, <2>3 DEF Passes
<1>2. CASE Fcs(b)
  <2>1. /\ state = "FCS" /\ k = len(f) - 3 + count /\ count \in 0 .. 3
        /\ len(f) - 4 >= FirstByte(f) /\ prq_stb = 0 /\ prq_idx' = prq_idx
        /\ Descriptor(FcsFlag(f), prq_len)
        /\ \/ count = 3 /\ k = len(f) /\ state' = "IPG" /\ prq_stb' = 1
           \/ /\ count < 3 /\ state' = "FCS" /\ prq_stb' = 0 /\ count' = count + 1
              /\ pipe'[5] = Byte(f, k + 1) /\ k + 1 <= len(f)
    BY <1>2, FcsMoves
  <2>2. /\ FcsFlag(f) \in SUBSET FlagBits
        /\ \A x \in FlagBits \ {"DATA_ERR", "FCS_INC", "FCS_BAD"} : x \in FcsFlag(f) <=> x \in prq_flag
        /\ "DATA_ERR" \in FcsFlag(f) <=> "DATA_ERR" \in prq_flag
    BY StepFlags, FlagIs
  <2>3. k > LastCovered(f) /\ Covered(f, k)
    BY <2>1, LastIs DEF Covered
  <2> QED
    BY <2>1, <2>2, <2>3 DEF Passes
<1> QED
  BY <1>1, <1>2

LEMMA LenStep ==
  ASSUME Inv3, GAP >= 2, LenInv, NEW b, Works(b), Cases(b)
  PROVE  LenInv'
<1>1. CASE Quiet(b)
  BY <1>1, QuietMoves DEF LenInv
<1>2. CASE Accept(b)
  <2>1. PICK f \in Frames :
         /\ pipe'[5] = Byte(f, 1) /\ prq_len' = 0
         /\ state' = (IF pre_inc = 1 THEN "PKT" ELSE "PRE")
    BY <1>2, AcceptMoves
  <2>2. CASE pre_inc = 1
    <3>1. FirstByte(f) = 1
      BY <2>2 DEF FirstByte
    <3>2. Seen(f, 1) = 0
      BY <3>1, LastIs DEF Seen
    <3>3. LenAt(f, 1)'
      BY <2>1, <3>2 DEF LenAt
    <3> QED
      BY <2>1, <3>3, LenOf
  <2>3. CASE pre_inc # 1
    BY <2>1, <2>3 DEF LenInv
  <2> QED
    BY <2>2, <2>3
<1>3. CASE Preamble(b)
  <2>1. PICK f \in Frames : \E k \in 1 .. len(f) : pipe[5] = Byte(f, k)
    BY <1>3, Here DEF Preamble
  <2>2. PICK k \in 1 .. len(f) : pipe[5] = Byte(f, k)
    BY <2>1
  <2>3. PICK m \in Nat : m = k + 1
    BY FrameType
  <2>4. /\ pre_inc = 0 /\ prq_len' = 0
        /\ \/ state' \notin {"PKT", "FCS"}
           \/ k = pre(f) + 1 /\ state' = "PKT" /\ pipe'[5] = Byte(f, k + 1) /\ k + 1 <= len(f)
    BY <1>3, <2>2, PreambleMoves
  <2>5. CASE state' \notin {"PKT", "FCS"}
    BY <2>5 DEF LenInv
  <2>6. CASE k = pre(f) + 1 /\ state' = "PKT" /\ pipe'[5] = Byte(f, k + 1) /\ k + 1 <= len(f)
    <3>1. m = FirstByte(f) /\ m <= len(f) /\ pre(f) \in Nat
      BY <2>3, <2>4, <2>6, FrameType DEF FirstByte
    <3>2. Seen(f, m) = 0
      BY <2>3, <3>1, LastIs DEF Seen
    <3>3. LenAt(f, m)' /\ pipe'[5] = Byte(f, m)
      BY <2>3, <2>4, <2>6, <3>2 DEF LenAt
    <3> QED
      BY <3>3, LenOf
  <2> QED
    BY <2>4, <2>5, <2>6
<1>4. CASE Packet(b) \/ Fcs(b)
  <2>0. state \in {"PKT", "FCS"}
    BY <1>4 DEF Packet, Fcs
  <2>1. PICK f \in Frames : \E k \in 1 .. len(f) : pipe[5] = Byte(f, k)
    BY <2>0, Here
  <2>2. PICK k \in 1 .. len(f) : pipe[5] = Byte(f, k)
    BY <2>1
  <2>3. PICK m \in Nat : m = k + 1
    BY FrameType
  <2>4. PICK fl : Passes(f, k, fl)
    BY <1>4, <2>2, PacketPasses
  <2>5. k \in Nat /\ LenAt(f, k)
    BY <2>0, <2>2, FrameType DEF LenInv
  <2>6. /\ prq_len' <= Seen(f, k + 1)
        /\ "TRUNCATE" \notin prq_flag' => prq_len' = Seen(f, k + 1)
    BY <2>4, <2>5, Writes, FlagIs DEF Passes
  <2>7. CASE state' = "IPG"
    BY <2>7 DEF LenInv
  <2>8. CASE pipe'[5] = Byte(f, k + 1)
    <3>1. LenAt(f, m)' /\ pipe'[5] = Byte(f, m)
      BY <2>3, <2>6, <2>8 DEF LenAt
    <3> QED
      BY <3>1, LenOf
  <2> QED
    BY <2>4, <2>7, <2>8 DEF Passes
<1> QED
  BY <1>1, <1>2, <1>3, <1>4 DEF Cases, Quiet

LEMMA LenInit == Init => LenInv
BY DEF Init, LenInv

LEMMA FirmwareKeepsLen == LenInv /\ UNCHANGED <<pipe, fe>> => LenInv'
BY DEF LenInv, LenAt, fe

(***************************************************************************)
(* The layout of the ring, in positions that never wrap: R is where it is  *)
(* free again, H where the packet the firmware holds or held last begins   *)
(* or ends, A where the announced packets begin, S where the packet being  *)
(* received begins, and P how far each descriptor in the PFQ takes R.      *)
(***************************************************************************)
Taking == IF Receiving THEN prq_len ELSE 0
Written == IF buf_we THEN 1 ELSE 0

BackPart(R, H, P) ==
  /\ R \in Nat /\ H \in Nat /\ P \in [0 .. Len(pfq) -> Nat]
  /\ R % BUF_SIZE = buf_rptr /\ P[0] = R
  /\ \A i \in 1 .. Len(pfq) : P[i] = P[i-1] + pfq[i]
  /\ \A i \in 0 .. Len(pfq) : P[i] <= H

FrontPart(S, H, A) ==
  /\ S \in Nat /\ H \in Nat /\ H <= S /\ S % BUF_SIZE = prq_idx /\ A \in [1 .. Len(prq) -> Nat]
  /\ \A i \in 1 .. Len(held) : held[i].idx = H % BUF_SIZE /\ H + held[i].len <= S
  /\ \A i \in 1 .. Len(held), j \in 1 .. Len(prq) : H + held[i].len <= A[j]
  /\ \A i \in 1 .. Len(prq) : prq[i].idx = A[i] % BUF_SIZE /\ H <= A[i] /\ A[i] + prq[i].len <= S
  /\ \A i, j \in 1 .. Len(prq) : i < j => A[i] + prq[i].len <= A[j]

Fill(R, S) ==
  /\ (S + Taking) % BUF_SIZE = buf_wptr
  /\ S + Taking <= R + BUF_SIZE
  /\ buf_ff = 0 => S + Taking < R + BUF_SIZE

RingInv ==
  \E R, S, H, A, P : BackPart(R, H, P) /\ FrontPart(S, H, A) /\ Fill(R, S)

Inv5 == Inv4 /\ LenInv

LEMMA Advance ==
  ASSUME Inv5, GAP >= 2, NEW b, Works(b), Cases(b)
  PROVE  /\ prq_idx' = IF prq_stb = 1 THEN buf_wptr ELSE prq_idx
         /\ prq_stb = 1 => ~buf_we /\ Taking' = 0 /\ Taking = prq_len
         /\ prq_stb = 0 => Taking' = Taking + Written
<1>0. Inv3 /\ LenInv /\ prq_len \in Nat /\ prq_stb \in {0, 1}
  BY DEF Inv5, Inv4, Inv3, TypeInv, CaseType
<1>1. CASE Quiet(b)
  <2>1. /\ buf_wr = 0 /\ prq_stb' = 0 /\ prq_idx' = IF prq_stb = 1 THEN buf_wptr ELSE prq_idx
        /\ state' \in {"STARTUP", "IDLE", "DROP", "IPG"} /\ state \notin {"PRE", "PKT", "FCS"}
    BY <1>0, <1>1, QuietMoves
  <2>2. ~buf_we /\ Taking' = 0 /\ Taking = (IF prq_stb = 1 THEN prq_len ELSE 0)
    BY <1>0, <2>1 DEF buf_we, Taking, Receiving
  <2> QED
    BY <1>0, <2>1, <2>2 DEF Written
<1>2. CASE Accept(b)
  <2>1. buf_wr = 0 /\ prq_stb = 0 /\ prq_stb' = 0 /\ prq_len' = 0 /\ prq_idx' = prq_idx
    BY <1>0, <1>2, AcceptMoves
  <2>2. state = "IDLE"
    BY <1>2 DEF Accept
  <2>3. ~buf_we /\ Taking' = 0 /\ Taking = 0
    BY <2>1, <2>2 DEF buf_we, Taking, Receiving
  <2> QED
    BY <2>1, <2>3 DEF Written
<1>3. CASE Preamble(b)
  <2>1. PICK f \in Frames : \E k \in 1 .. len(f) : pipe[5] = Byte(f, k)
    BY <1>0, <1>3, Here DEF Preamble
  <2>2. PICK k \in 1 .. len(f) : pipe[5] = Byte(f, k)
    BY <2>1
  <2>3. buf_wr = 0 /\ prq_stb = 0 /\ prq_len' = 0 /\ prq_idx' = prq_idx
    BY <1>0, <1>3, <2>2, PreambleMoves
  <2>4. state = "PRE"
    BY <1>3 DEF Preamble
  <2>5. ~buf_we /\ Taking' = 0 /\ Taking = 0
    BY <2>3, <2>4 DEF buf_we, Taking, Receiving
  <2> QED
    BY <2>3, <2>5 DEF Written
<1>4. CASE Packet(b) \/ Fcs(b)
  <2>0. state \in {"PKT", "FCS"}
    BY <1>4 DEF Packet, Fcs
  <2>1. PICK f \in Frames : \E k \in 1 .. len(f) : pipe[5] = Byte(f, k)
    BY <1>0, <2>0, Here
  <2>2. PICK k \in 1 .. len(f) : pipe[5] = Byte(f, k)
    BY <2>1
  <2>4. PICK fl : Passes(f, k, fl)
    BY <1>0, <1>4, <2>2, PacketPasses
  <2>5. k \in Nat /\ LenAt(f, k)
    BY <1>0, <2>0, <2>2, FrameType DEF LenInv
  <2>6. prq_len' = prq_len + Written
    BY <1>0, <2>4, <2>5, Writes, FlagIs DEF Passes, Written
  <2>7. Taking = prq_len /\ Taking' = prq_len' /\ prq_idx' = prq_idx /\ prq_stb = 0
    BY <2>0, <2>4 DEF Passes, Taking, Receiving
  <2> QED
    BY <2>6, <2>7
<1> QED
  BY <1>1, <1>2, <1>3, <1>4 DEF Cases, Quiet

LEMMA TakingType == TypeInv => Taking \in Nat /\ Written \in {0, 1}
BY DEF TypeInv, CaseType, Taking, Written

\* One descriptor leaves the PFQ and R moves to the end of what it gives back.
LEMMA PopStep ==
  ASSUME TypeInv, ReclaimInv, Reclaim, Queues, NEW R, NEW H, NEW P, BackPart(R, H, P)
  PROVE  \E R2, P2 : BackPart(R2, H, P2)' /\ R <= R2 /\ R2 <= H
<1>1. /\ R \in Nat /\ H \in Nat /\ P \in [0 .. Len(pfq) -> Nat] /\ pfq \in Seq(0 .. LEN_MOD - 1) /\ Len(pfq) \in Nat
      /\ R % BUF_SIZE = buf_rptr /\ P[0] = R
      /\ \A i \in 1 .. Len(pfq) : P[i] = P[i-1] + pfq[i]
      /\ \A i \in 0 .. Len(pfq) : P[i] <= H
  BY LenProperties DEF BackPart, TypeInv, QueueType
<1>2. CASE pfq_stb = 1
  <2>1. pfq # <<>> /\ pfq_len_r = pfq[1] /\ pfq' = Tail(pfq) /\ buf_rptr' = (buf_rptr + pfq_len_r) % BUF_SIZE
    BY <1>2 DEF ReclaimInv, Reclaim, Queues
  <2>2. /\ Len(pfq') = Len(pfq) - 1 /\ Len(pfq) \in Nat \ {0} /\ pfq[1] \in 0 .. LEN_MOD - 1
        /\ \A i \in 1 .. Len(pfq) - 1 : pfq'[i] = pfq[i + 1]
    BY <1>1, <2>1, Popped
  <2>3. PICK R2 \in Nat : R2 = R + pfq[1]
    BY <1>1, <2>2, Sizes
  <2>4. PICK n \in Nat : n = Len(pfq) - 1
    BY <2>2
  <2>5. PICK P2 : P2 = [i \in 0 .. n |-> P[i + 1]]
    OBVIOUS
  <2>6. R2 % BUF_SIZE = buf_rptr'
    <3>1. pfq[1] \in Nat
      BY <2>2, Sizes
    <3>2. ((R % BUF_SIZE) + pfq[1]) % BUF_SIZE = (R + pfq[1]) % BUF_SIZE
      BY <1>1, <3>1, Sizes, Wraps
    <3> QED
      BY <1>1, <2>1, <2>3, <3>2
  <2>7. P[1] = R2 /\ P2[0] = R2
    <3>1. 1 \in 1 .. Len(pfq)
      BY <2>2
    <3>2. P[1] = P[0] + pfq[1]
      BY <1>1, <3>1
    <3> QED
      BY <1>1, <2>3, <2>5, <3>2
  <2>8. \A i \in 0 .. n : i + 1 \in 0 .. Len(pfq) /\ P2[i] = P[i + 1] /\ P2[i] <= H /\ P2[i] \in Nat
    <3>1. \A i \in 0 .. n : i + 1 \in 0 .. Len(pfq)
      BY <1>1, <2>4
    <3>2. \A i \in 0 .. n : P2[i] = P[i + 1]
      BY <2>5
    <3>3. \A k \in 0 .. Len(pfq) : P[k] <= H /\ P[k] \in Nat
      BY <1>1
    <3> QED
      BY <3>1, <3>2, <3>3
  <2>9. ASSUME NEW i \in 1 .. n PROVE P2[i] = P2[i-1] + pfq'[i]
    <3>1. i + 1 \in 1 .. Len(pfq) /\ i \in 0 .. n /\ i - 1 \in 0 .. n /\ (i - 1) + 1 = i /\ (i + 1) - 1 = i
      BY <2>4
    <3>2. P2[i] = P[i + 1] /\ P2[i - 1] = P[i]
      BY <2>5, <3>1
    <3>3. P[i + 1] = P[i] + pfq[i + 1]
      BY <1>1, <3>1
    <3>4. pfq'[i] = pfq[i + 1]
      BY <2>2, <2>4
    <3> QED
      BY <3>2, <3>3, <3>4
  <2>10. P2 \in [0 .. n -> Nat]
    BY <2>5, <2>8
  <2>11. BackPart(R2, H, P2)'
    BY <1>1, <2>2, <2>4, <2>6, <2>7, <2>8, <2>9, <2>10 DEF BackPart
  <2>12. R <= R2 /\ R2 <= H
    BY <1>1, <2>2, <2>3, <2>7, Sizes
  <2> QED
    BY <2>11, <2>12
<1>3. CASE pfq_stb # 1
  <2>1. pfq' = pfq /\ buf_rptr' = buf_rptr
    BY <1>3 DEF Reclaim, Queues
  <2>2. BackPart(R, H, P)'
    BY <1>1, <2>1 DEF BackPart
  <2>3. P[0] <= H
    BY <1>1
  <2> QED
    BY <1>1, <2>2, <2>3
<1> QED
  BY <1>2, <1>3

\* A packet that is announced takes its place behind the others, and the next
\* one begins where it ends.
LEMMA PushStep ==
  ASSUME Inv5, GAP >= 2, NEW b, Works(b), Cases(b),
         NEW S, NEW H, NEW A, FrontPart(S, H, A), (S + Taking) % BUF_SIZE = buf_wptr
  PROVE  \E S2, A2 : FrontPart(S2, H, A2)' /\ S2 + Taking' = S + Taking + Written /\ S2 \in Nat
<1>1. /\ S \in Nat /\ H \in Nat /\ H <= S /\ S % BUF_SIZE = prq_idx /\ A \in [1 .. Len(prq) -> Nat]
      /\ \A i \in 1 .. Len(held) : held[i].idx = H % BUF_SIZE /\ H + held[i].len <= S
      /\ \A i \in 1 .. Len(held), j \in 1 .. Len(prq) : H + held[i].len <= A[j]
      /\ \A i \in 1 .. Len(prq) : prq[i].idx = A[i] % BUF_SIZE /\ H <= A[i] /\ A[i] + prq[i].len <= S
      /\ \A i, j \in 1 .. Len(prq) : i < j => A[i] + prq[i].len <= A[j]
  BY DEF FrontPart
<1>2. /\ prq_idx' = IF prq_stb = 1 THEN buf_wptr ELSE prq_idx
      /\ prq_stb = 1 => ~buf_we /\ Taking' = 0 /\ Taking = prq_len
      /\ prq_stb = 0 => Taking' = Taking + Written
  BY Advance
<1>3. held' = held /\ prq_stb \in {0, 1} /\ prq_len \in Nat /\ Taking \in Nat /\ Written \in {0, 1}
      /\ prq \in Seq(Descriptors) /\ Len(prq) \in Nat /\ held \in Seq(Descriptors)
  BY TakingType, LenProperties DEF Works, Inv5, Inv4, Inv3, TypeInv, CaseType, QueueType
<1>4. /\ \A i \in 1 .. Len(prq) : prq[i].len \in Nat
      /\ \A i \in 1 .. Len(held) : held[i].len \in Nat
  <2>1. /\ \A i \in 1 .. Len(prq) : prq[i] \in Descriptors
        /\ \A i \in 1 .. Len(held) : held[i] \in Descriptors
    BY <1>3, InSeq
  <2>2. \A d \in Descriptors : d.len \in Nat
    BY Sizes DEF Descriptors
  <2> QED
    BY <2>1, <2>2
<1>5. CASE prq_stb = 1
  <2>1. Len(prq) < PRQ_SIZE
    BY <1>5 DEF Inv5, Inv4, RoomInv
  <2> DEFINE d == [len |-> prq_len, idx |-> prq_idx, flag |-> prq_flag]
  <2>2. d \in Descriptors
    BY DEF Descriptors, Inv5, Inv4, Inv3, TypeInv, CaseType
  <2>3. prq' = Append(prq, d)
    BY <1>5, <2>1 DEF Works, Queues
  <2>4. d.len = prq_len /\ d.idx = prq_idx
    OBVIOUS
  <2> HIDE DEF d
  <2>5. PICK n \in Nat : n = Len(prq)
    BY <1>3
  <2>6. Len(prq') = n + 1 /\ (\A i \in 1 .. n : prq'[i] = prq[i]) /\ prq'[n + 1] = d
    BY <1>3, <2>2, <2>3, <2>5, Pushed
  <2>7. PICK A2 : A2 = [i \in 1 .. n + 1 |-> IF i <= n THEN A[i] ELSE S]
    OBVIOUS
  <2>8. PICK S2 \in Nat : S2 = S + prq_len
    BY <1>1, <1>3
  <2>9. A2 \in [1 .. n + 1 -> Nat] /\ (\A i \in 1 .. n : A2[i] = A[i]) /\ A2[n + 1] = S
    BY <1>1, <2>5, <2>7
  <2>10. S2 % BUF_SIZE = prq_idx' /\ S2 + Taking' = S + Taking + Written
    BY <1>1, <1>2, <1>3, <1>5, <2>8 DEF Written
  <2>11. H <= S2 /\ \A i \in 1 .. Len(held) : H + held[i].len <= S2
    BY <1>1, <1>3, <1>4, <2>8
  <2>12. ASSUME NEW i \in 1 .. n + 1 PROVE prq'[i].idx = A2[i] % BUF_SIZE /\ H <= A2[i] /\ A2[i] + prq'[i].len <= S2
    <3>1. CASE i <= n
      <4>1. i \in 1 .. n /\ i \in 1 .. Len(prq) /\ prq'[i] = prq[i] /\ A2[i] = A[i]
        BY <2>5, <2>6, <2>9, <3>1
      <4>2. prq[i].idx = A[i] % BUF_SIZE /\ H <= A[i] /\ A[i] + prq[i].len <= S
        BY <1>1, <4>1
      <4>3. prq[i].len \in Nat /\ A[i] \in Nat
        BY <1>1, <1>4, <4>1
      <4>4. S \in Nat /\ S <= S2
        BY <1>1, <1>3, <2>8
      <4> QED
        BY <4>1, <4>2, <4>3, <4>4, <2>8
    <3>2. CASE i = n + 1
      BY <1>1, <1>3, <2>4, <2>6, <2>8, <2>9, <3>2
    <3> QED
      BY <3>1, <3>2
  <2>13. ASSUME NEW i \in 1 .. Len(held), NEW j \in 1 .. n + 1 PROVE H + held[i].len <= A2[j]
    <3>1. CASE j <= n
      BY <1>1, <2>5, <2>9, <3>1
    <3>2. CASE j = n + 1
      BY <1>1, <2>9, <3>2
    <3> QED
      BY <3>1, <3>2
  <2>14. ASSUME NEW i \in 1 .. n + 1, NEW j \in 1 .. n + 1, i < j PROVE A2[i] + prq'[i].len <= A2[j]
    <3>1. i \in 1 .. n
      BY <2>14
    <3>2. CASE j <= n
      BY <1>1, <2>5, <2>6, <2>9, <2>14, <3>1, <3>2
    <3>3. CASE j = n + 1
      BY <1>1, <2>5, <2>6, <2>9, <3>1, <3>3
    <3> QED
      BY <3>2, <3>3
  <2>15. FrontPart(S2, H, A2)'
    BY <1>1, <1>3, <2>6, <2>9, <2>10, <2>11, <2>12, <2>13, <2>14 DEF FrontPart
  <2> QED
    BY <2>10, <2>15
<1>6. CASE prq_stb = 0
  <2>1. prq' = prq /\ prq_idx' = prq_idx
    BY <1>2, <1>6 DEF Works, Queues
  <2>2. FrontPart(S, H, A)'
    BY <1>1, <1>3, <2>1 DEF FrontPart
  <2> QED
    BY <1>1, <1>2, <1>3, <1>6, <2>2
<1> QED
  BY <1>3, <1>5, <1>6

\* The write pointer and the full flag go with it.
LEMMA FillStep ==
  ASSUME Inv5, Ring, NEW R \in Nat, NEW S \in Nat, NEW R2 \in Nat, NEW S2 \in Nat,
         Fill(R, S), R <= R2, R2 <= S, R % BUF_SIZE = buf_rptr,
         S2 + Taking' = S + Taking + Written
  PROVE  Fill(R2, S2)'
<1>1. /\ Taking \in Nat /\ Written \in {0, 1} /\ BUF_SIZE \in Nat \ {0}
      /\ buf_ff \in {0, 1} /\ buf_wptr \in 0 .. BUF_SIZE - 1
  BY TakingType, Sizes DEF Inv5, Inv4, Inv3, TypeInv, RingType
<1>2. PICK w \in Nat : w = S + Taking
  BY <1>1
<1>3. w % BUF_SIZE = buf_wptr /\ w <= R + BUF_SIZE /\ (buf_ff = 0 => w < R + BUF_SIZE) /\ R <= w
  BY <1>1, <1>2 DEF Fill
<1>4. /\ buf_ff' = IF buf_ff = 0
               THEN IF buf_wr = 1 /\ Next1(buf_wptr) = buf_rptr THEN 1 ELSE 0
               ELSE IF buf_rptr # buf_wptr THEN 0 ELSE 1
      /\ buf_wptr' = IF buf_we THEN Next1(buf_wptr) ELSE buf_wptr
  BY DEF Ring
<1>5. R % BUF_SIZE = (R + BUF_SIZE) % BUF_SIZE
  <2>1. PICK q \in Nat : \E r \in 0 .. BUF_SIZE - 1 : R = q * BUF_SIZE + r /\ R % BUF_SIZE = r
    BY <1>1, Quotient
  <2>2. PICK r \in 0 .. BUF_SIZE - 1 : R = q * BUF_SIZE + r /\ R % BUF_SIZE = r
    BY <2>1
  <2>3. PICK q1 \in Nat : q1 = q + 1
    OBVIOUS
  <2>4. (q + 1) * BUF_SIZE = q * BUF_SIZE + BUF_SIZE
    BY <1>1
  <2>5. R + BUF_SIZE = q1 * BUF_SIZE + r
    BY <1>1, <2>2, <2>3, <2>4
  <2>6. (q1 * BUF_SIZE + r) % BUF_SIZE = r
    BY <1>1, Residue
  <2> QED
    BY <2>2, <2>5, <2>6
<1>6. CASE buf_we
  <2>1. Written = 1 /\ buf_ff = 0 /\ buf_wr = 1
    BY <1>6 DEF Written, buf_we
  <2>2. buf_wptr' = (w + 1) % BUF_SIZE
    BY <1>1, <1>3, <1>4, <1>6, Wraps DEF Next1
  <2>3. w + 1 <= R2 + BUF_SIZE
    BY <1>1, <1>3, <2>1
  <2>4. ASSUME buf_ff' = 0 PROVE w + 1 < R2 + BUF_SIZE
    <3>1. buf_wptr' # buf_rptr
      BY <1>4, <1>6, <2>1, <2>4
    <3>2. w + 1 # R + BUF_SIZE
      BY <1>5, <2>2, <3>1
    <3> QED
      BY <1>1, <1>3, <2>1, <3>2
  <2>5. S2 + Taking' = w + 1
    BY <1>2, <2>1
  <2> QED
    BY <2>2, <2>3, <2>4, <2>5 DEF Fill
<1>7. CASE ~buf_we
  <2>1. Written = 0 /\ buf_wptr' = buf_wptr
    BY <1>4, <1>7 DEF Written
  <2>2. S2 + Taking' = w
    BY <1>1, <1>2, <2>1
  <2>3. w <= R2 + BUF_SIZE
    BY <1>1, <1>3
  <2>4. ASSUME buf_ff' = 0 PROVE w < R2 + BUF_SIZE
    <3>1. CASE buf_ff = 0
      BY <1>1, <1>3, <3>1
    <3>2. CASE buf_ff = 1
      <4>1. buf_rptr # buf_wptr
        BY <1>4, <2>4, <3>2
      <4>2. w # R + BUF_SIZE
        BY <1>3, <1>5, <4>1
      <4> QED
        BY <1>1, <1>3, <4>2
    <3> QED
      BY <1>1, <3>1, <3>2
  <2> QED
    BY <1>3, <2>1, <2>2, <2>3, <2>4 DEF Fill
<1> QED
  BY <1>6, <1>7

LEMMA RingRx ==
  ASSUME Inv5, RingInv, GAP >= 2, NEW b, Works(b), Cases(b)
  PROVE  RingInv'
<1>1. PICK R, S, H, A, P : BackPart(R, H, P) /\ FrontPart(S, H, A) /\ Fill(R, S)
  BY DEF RingInv
<1>2. Ring /\ Reclaim /\ Queues /\ TypeInv /\ ReclaimInv
  BY DEF Works, Inv5, Inv4, Inv3
<1>3. PICK R2, P2 : BackPart(R2, H, P2)' /\ R <= R2 /\ R2 <= H
  BY <1>1, <1>2, PopStep
<1>4. (S + Taking) % BUF_SIZE = buf_wptr
  BY <1>1 DEF Fill
<1>5. PICK S2, A2 : FrontPart(S2, H, A2)' /\ S2 + Taking' = S + Taking + Written /\ S2 \in Nat
  BY <1>1, <1>4, PushStep
<1>6. R \in Nat /\ S \in Nat /\ R2 \in Nat /\ H \in Nat /\ H <= S /\ R % BUF_SIZE = buf_rptr
  BY <1>1, <1>3 DEF BackPart, FrontPart
<1>7. R2 <= S
  BY <1>3, <1>6
<1>8. Fill(R2, S2)'
  BY <1>1, <1>2, <1>3, <1>5, <1>6, <1>7, FillStep
<1> QED
  BY <1>3, <1>5, <1>8 DEF RingInv

LEMMA RingGet ==
  ASSUME TypeInv, RingInv, RxGet
  PROVE  RingInv'
<1>1. PICK R, S, H, A, P : BackPart(R, H, P) /\ FrontPart(S, H, A) /\ Fill(R, S)
  BY DEF RingInv
<1>2. /\ held = <<>> /\ prq # <<>> /\ held' = <<prq[1]>> /\ prq' = Tail(prq)
      /\ UNCHANGED <<pfq, buf_rptr, buf_wptr, buf_ff, prq_idx, state, prq_stb, prq_len>>
  BY DEF RxGet, fe
<1>3. /\ S \in Nat /\ H \in Nat /\ H <= S /\ S % BUF_SIZE = prq_idx /\ A \in [1 .. Len(prq) -> Nat]
      /\ \A i \in 1 .. Len(prq) : prq[i].idx = A[i] % BUF_SIZE /\ H <= A[i] /\ A[i] + prq[i].len <= S
      /\ \A i, j \in 1 .. Len(prq) : i < j => A[i] + prq[i].len <= A[j]
  BY <1>1 DEF FrontPart
<1>4. /\ Len(prq') = Len(prq) - 1 /\ Len(prq) \in Nat \ {0} /\ prq[1] \in Descriptors
      /\ \A i \in 1 .. Len(prq) - 1 : prq'[i] = prq[i + 1]
  BY <1>2, Popped DEF TypeInv, QueueType
<1>5. prq[1].len \in Nat
  BY <1>4, Sizes DEF Descriptors
<1>6. PICK n \in Nat : n = Len(prq) - 1
  BY <1>4
<1>7. 1 \in 1 .. Len(prq)
  BY <1>4
<1>8. PICK H2 \in Nat : H2 = A[1]
  BY <1>3, <1>7
<1>9. PICK A2 : A2 = [i \in 1 .. n |-> A[i + 1]]
  OBVIOUS
<1>10. /\ H <= H2 /\ H2 + prq[1].len <= S /\ H2 <= S /\ prq[1].idx = H2 % BUF_SIZE
  BY <1>3, <1>5, <1>7, <1>8
<1>11. \A i \in 1 .. n : i + 1 \in 1 .. Len(prq) /\ A2[i] = A[i + 1] /\ prq'[i] = prq[i + 1] /\ A2[i] \in Nat
  BY <1>3, <1>4, <1>6, <1>9
<1>12. A2 \in [1 .. n -> Nat]
  BY <1>9, <1>11
<1>13. \A i \in 1 .. n : prq'[i].idx = A2[i] % BUF_SIZE /\ A2[i] + prq'[i].len <= S
  BY <1>3, <1>11
<1>14. ASSUME NEW i \in 1 .. n PROVE H2 + prq[1].len <= A2[i]
  <2>1. 1 < i + 1 /\ i + 1 \in 1 .. Len(prq)
    BY <1>11
  <2> QED
    BY <1>3, <1>7, <1>8, <1>11, <2>1
<1>15. \A i \in 1 .. n : H2 <= A2[i]
  BY <1>5, <1>11, <1>14
<1>16. ASSUME NEW i \in 1 .. n, NEW j \in 1 .. n, i < j PROVE A2[i] + prq'[i].len <= A2[j]
  <2>1. i + 1 < j + 1 /\ i + 1 \in 1 .. Len(prq) /\ j + 1 \in 1 .. Len(prq)
    BY <1>11, <1>16
  <2>2. A[i + 1] + prq[i + 1].len <= A[j + 1]
    BY <1>3, <2>1
  <2> QED
    BY <1>11, <2>2
<1>17. Len(held') = 1 /\ \A i \in 1 .. 1 : held'[i] = prq[1]
  BY <1>2
<1>18. FrontPart(S, H2, A2)'
  BY <1>2, <1>3, <1>4, <1>6, <1>10, <1>12, <1>13, <1>14, <1>15, <1>16, <1>17 DEF FrontPart
<1>19. BackPart(R, H2, P)'
  <2>1. /\ R \in Nat /\ P \in [0 .. Len(pfq) -> Nat]
        /\ R % BUF_SIZE = buf_rptr /\ P[0] = R
        /\ \A i \in 1 .. Len(pfq) : P[i] = P[i-1] + pfq[i]
        /\ \A i \in 0 .. Len(pfq) : P[i] <= H
    BY <1>1 DEF BackPart
  <2>2. \A i \in 0 .. Len(pfq) : P[i] <= H2
    <3>1. H <= H2 /\ H \in Nat /\ H2 \in Nat
      BY <1>3, <1>5, <1>10
    <3>2. \A i \in 0 .. Len(pfq) : P[i] \in Nat
      BY <2>1
    <3> QED
      BY <2>1, <3>1, <3>2
  <2> QED
    BY <1>2, <2>1, <2>2 DEF BackPart
<1>20. Fill(R, S)'
  BY <1>1, <1>2 DEF Fill, Taking, Receiving
<1> QED
  BY <1>18, <1>19, <1>20 DEF RingInv

LEMMA RingFree ==
  ASSUME TypeInv, RingInv, RxFree
  PROVE  RingInv'
<1>1. PICK R, S, H, A, P : BackPart(R, H, P) /\ FrontPart(S, H, A) /\ Fill(R, S)
  BY DEF RingInv
<1>2. /\ held # <<>> /\ held' = <<>> /\ prq' = prq
      /\ pfq' = Append(pfq, held[1].len) \/ pfq' = pfq
      /\ UNCHANGED <<buf_rptr, buf_wptr, buf_ff, prq_idx, state, prq_stb, prq_len>>
  BY DEF RxFree, fe
<1>3. /\ S \in Nat /\ H \in Nat /\ H <= S /\ S % BUF_SIZE = prq_idx /\ A \in [1 .. Len(prq) -> Nat]
      /\ \A i \in 1 .. Len(held) : H + held[i].len <= S
      /\ \A i \in 1 .. Len(held), j \in 1 .. Len(prq) : H + held[i].len <= A[j]
      /\ \A i \in 1 .. Len(prq) : prq[i].idx = A[i] % BUF_SIZE /\ H <= A[i] /\ A[i] + prq[i].len <= S
      /\ \A i, j \in 1 .. Len(prq) : i < j => A[i] + prq[i].len <= A[j]
  BY <1>1 DEF FrontPart
<1>4. Len(held) \in Nat \ {0} /\ held[1] \in Descriptors
  BY <1>2, Popped DEF TypeInv, QueueType
<1>5. held[1].len \in 0 .. LEN_MOD - 1 /\ held[1].len \in Nat
  BY <1>4, Sizes DEF Descriptors
<1>6. PICK H2 \in Nat : H2 = H + held[1].len
  BY <1>3, <1>5
<1>7. 1 \in 1 .. Len(held)
  BY <1>4
<1>8. H2 <= S /\ H <= H2 /\ \A j \in 1 .. Len(prq) : H2 <= A[j]
  BY <1>3, <1>5, <1>6, <1>7
<1>9. Len(held') = 0
  BY <1>2, EmptySeq
<1>10. FrontPart(S, H2, A)'
  BY <1>2, <1>3, <1>8, <1>9 DEF FrontPart
<1>11. /\ R \in Nat /\ P \in [0 .. Len(pfq) -> Nat]
       /\ R % BUF_SIZE = buf_rptr /\ P[0] = R
       /\ \A i \in 1 .. Len(pfq) : P[i] = P[i-1] + pfq[i]
       /\ \A i \in 0 .. Len(pfq) : P[i] <= H
  BY <1>1 DEF BackPart
<1>12. \A i \in 0 .. Len(pfq) : P[i] <= H2
  <2> SUFFICES ASSUME NEW i \in 0 .. Len(pfq) PROVE P[i] <= H2
    OBVIOUS
  <2>1. PICK a \in Nat : a = P[i] /\ a <= H
    BY <1>11
  <2> QED
    BY <1>3, <1>8, <2>1
<1>13. \E Q : BackPart(R, H2, Q)'
  <2>1. CASE pfq' = Append(pfq, held[1].len)
    <3>1. pfq \in Seq(0 .. LEN_MOD - 1)
      BY DEF TypeInv, QueueType
    <3>2. PICK n \in Nat : n = Len(pfq)
      BY <3>1, LenProperties
    <3>3. Len(pfq') = n + 1 /\ (\A i \in 1 .. n : pfq'[i] = pfq[i]) /\ pfq'[n + 1] = held[1].len
      BY <1>2, <1>5, <2>1, <3>1, <3>2, Pushed
    <3>4. PICK Q : Q = [i \in 0 .. n + 1 |-> IF i <= n THEN P[i] ELSE P[n] + held[1].len]
      OBVIOUS
    <3>5. (\A i \in 0 .. n : Q[i] = P[i] /\ P[i] \in Nat) /\ Q[n + 1] = P[n] + held[1].len
      BY <1>11, <3>2, <3>4
    <3>6. Q[n + 1] \in Nat /\ Q[n + 1] <= H2
      <4>1. n \in 0 .. n /\ n \in 0 .. Len(pfq)
        BY <3>2
      <4>2. P[n] \in Nat /\ P[n] <= H /\ Q[n + 1] = P[n] + held[1].len
        BY <1>11, <3>5, <4>1
      <4> QED
        BY <1>3, <1>5, <1>6, <4>2
    <3>7. Q \in [0 .. n + 1 -> Nat]
      <4>1. \A i \in 0 .. n + 1 : i \in 0 .. n \/ i = n + 1
        OBVIOUS
      <4>2. \A i \in 0 .. n + 1 : Q[i] \in Nat
        BY <3>5, <3>6, <4>1
      <4>3. Q = [i \in 0 .. n + 1 |-> Q[i]]
        BY <3>4
      <4> QED
        BY <4>2, <4>3
    <3>8. \A i \in 0 .. n + 1 : Q[i] <= H2
      <4>1. \A i \in 0 .. n + 1 : i \in 0 .. n \/ i = n + 1
        OBVIOUS
      <4> QED
        BY <1>12, <3>2, <3>5, <3>6, <4>1
    <3>9. ASSUME NEW i \in 1 .. n + 1 PROVE Q[i] = Q[i - 1] + pfq'[i]
      <4>1. CASE i <= n
        BY <1>11, <3>2, <3>3, <3>5, <4>1
      <4>2. CASE i = n + 1
        BY <3>3, <3>5, <4>2
      <4> QED
        BY <4>1, <4>2
    <3>10. Q[0] = R
      BY <1>11, <3>5
    <3>11. BackPart(R, H2, Q)'
      BY <1>2, <1>11, <3>3, <3>7, <3>8, <3>9, <3>10 DEF BackPart
    <3> QED
      BY <3>11
  <2>2. CASE pfq' = pfq
    <3>1. BackPart(R, H2, P)'
      BY <1>2, <1>11, <1>12, <2>2 DEF BackPart
    <3> QED
      BY <3>1
  <2> QED
    BY <1>2, <2>1, <2>2
<1>14. Fill(R, S)'
  BY <1>1, <1>2 DEF Fill, Taking, Receiving
<1> QED
  BY <1>10, <1>13, <1>14 DEF RingInv

LEMMA RingInit == Init => RingInv
<1> SUFFICES ASSUME Init PROVE RingInv
  OBVIOUS
<1>1. /\ prq = <<>> /\ pfq = <<>> /\ held = <<>> /\ prq_idx = 0 /\ buf_wptr = 0 /\ buf_rptr = 0
      /\ buf_ff = 0 /\ state = "STARTUP" /\ prq_stb = 0
  BY DEF Init
<1>2. Taking = 0
  BY <1>1 DEF Taking, Receiving
<1>3. PICK P, A : P = [i \in 0 .. 0 |-> 0] /\ A = [i \in 1 .. 0 |-> 0]
  OBVIOUS
<1>4. 0 % BUF_SIZE = 0
  BY Sizes
<1>5. Len(<<>>) = 0
  BY EmptySeq
<1>6. P \in [0 .. 0 -> Nat] /\ P[0] = 0
  BY <1>3
<1>7. BackPart(0, 0, P)
  BY <1>1, <1>4, <1>5, <1>6 DEF BackPart
<1>8. FrontPart(0, 0, A)
  BY <1>1, <1>3, <1>4, <1>5 DEF FrontPart
<1>9. Fill(0, 0)
  BY <1>1, <1>2, <1>4, Sizes DEF Fill
<1> QED
  BY <1>7, <1>8, <1>9 DEF RingInv

\* Stretches of positions one behind the other, within one turn of the ring,
\* have no cell in common.
LEMMA Stretches ==
  ASSUME NEW B \in Nat \ {0}, NEW x \in Nat, NEW n \in Nat, NEW y \in Nat, NEW m \in Nat,
         x + n <= y, y + m <= x + B
  PROVE  \A i \in 0 .. n - 1, j \in 0 .. m - 1 : ((x % B) + i) % B # ((y % B) + j) % B
<1> SUFFICES ASSUME NEW i \in 0 .. n - 1, NEW j \in 0 .. m - 1
             PROVE  ((x % B) + i) % B # ((y % B) + j) % B
  OBVIOUS
<1>1. i \in Nat /\ j \in Nat
  OBVIOUS
<1>2. PICK u \in Nat, v \in Nat : u = x + i /\ v = y + j
  BY <1>1
<1>3. u < v /\ v < u + B
  BY <1>2
<1>4. ((x % B) + i) % B = u % B
  <2>1. ((x % B) + i) % B = (x + i) % B
    BY <1>1, Wraps
  <2> QED
    BY <1>2, <2>1
<1>5. ((y % B) + j) % B = v % B
  <2>1. ((y % B) + j) % B = (y + j) % B
    BY <1>1, Wraps
  <2> QED
    BY <1>2, <2>1
<1> QED
  BY <1>3, <1>4, <1>5, Apart

\* The packet being received, or just about to be announced.
Cur == [len |-> prq_len, idx |-> prq_idx, flag |-> prq_flag]

NoCommonCell(d, e) ==
  \A i \in 0 .. d.len - 1, j \in 0 .. e.len - 1 :
    (d.idx + i) % BUF_SIZE # (e.idx + j) % BUF_SIZE

LEMMA Lengths ==
  ASSUME TypeInv
  PROVE  /\ \A i \in 1 .. Len(prq) : prq[i] \in Descriptors /\ prq[i].len \in Nat
         /\ \A i \in 1 .. Len(held) : held[i] \in Descriptors /\ held[i].len \in Nat
         /\ prq_len \in Nat /\ Len(prq) \in Nat /\ Len(held) \in {0, 1} /\ prq_idx \in 0 .. BUF_SIZE - 1
<1>1. /\ \A i \in 1 .. Len(prq) : prq[i] \in Descriptors
      /\ \A i \in 1 .. Len(held) : held[i] \in Descriptors
      /\ Len(prq) \in Nat /\ Len(held) \in {0, 1}
  <2>1. prq \in Seq(Descriptors) /\ held \in Seq(Descriptors) /\ Len(held) <= 1
    BY DEF TypeInv, QueueType
  <2>2. Len(held) \in Nat /\ Len(prq) \in Nat
    BY <2>1, LenProperties
  <2>3. Len(held) \in {0, 1} /\ Len(prq) \in Nat
    <3>1. Len(held) <= 1
      BY <2>1
    <3> QED
      BY <2>2, <3>1
  <2>4. \A i \in 1 .. Len(prq) : prq[i] \in Descriptors
    BY <2>1, InSeq
  <2>5. \A i \in 1 .. Len(held) : held[i] \in Descriptors
    BY <2>1, InSeq
  <2> QED
    BY <2>3, <2>4, <2>5
<1>2. \A d \in Descriptors : d.len \in Nat
  BY Sizes DEF Descriptors
<1>3. prq_len \in Nat /\ prq_idx \in 0 .. BUF_SIZE - 1
  BY DEF TypeInv, CaseType
<1> QED
  BY <1>1, <1>2, <1>3

\* Where the write pointer is, and what is not there.
LEMMA Separate ==
  ASSUME TypeInv, RingInv
  PROVE  /\ Receiving => buf_wptr = (prq_idx + prq_len) % BUF_SIZE
         /\ buf_we => /\ \A i \in 1 .. Len(prq) : buf_wptr \notin Cells(prq[i])
                      /\ \A i \in 1 .. Len(held) : buf_wptr \notin Cells(held[i])
                      /\ Receiving => \A j \in 0 .. prq_len - 1 : buf_wptr # (prq_idx + j) % BUF_SIZE
         /\ \A h \in 1 .. Len(held) :
              /\ \A i \in 1 .. Len(prq) : NoCommonCell(held[h], prq[i])
              /\ Receiving => NoCommonCell(held[h], Cur)
<1>1. PICK R, S, H, A, P : BackPart(R, H, P) /\ FrontPart(S, H, A) /\ Fill(R, S)
  BY DEF RingInv
<1>2. BUF_SIZE \in Nat \ {0} /\ Taking \in Nat /\ buf_wptr \in 0 .. BUF_SIZE - 1
  BY Sizes, TakingType DEF TypeInv, RingType
<1>3. /\ \A i \in 1 .. Len(prq) : prq[i].len \in Nat
      /\ \A i \in 1 .. Len(held) : held[i].len \in Nat
      /\ prq_len \in Nat /\ Len(prq) \in Nat
  BY Lengths
<1>4. /\ S \in Nat /\ H \in Nat /\ H <= S /\ S % BUF_SIZE = prq_idx
      /\ \A i \in 1 .. Len(held) : held[i].idx = H % BUF_SIZE /\ H + held[i].len <= S
      /\ \A i \in 1 .. Len(held), j \in 1 .. Len(prq) : H + held[i].len <= A[j]
      /\ \A i \in 1 .. Len(prq) : A[i] \in Nat /\ prq[i].idx = A[i] % BUF_SIZE /\ H <= A[i] /\ A[i] + prq[i].len <= S
  BY <1>1 DEF FrontPart
<1>5. R \in Nat /\ R <= H
  <2>1. R \in Nat /\ P[0] = R /\ \A i \in 0 .. Len(pfq) : P[i] <= H
    BY <1>1 DEF BackPart
  <2>2. 0 \in 0 .. Len(pfq)
    BY LenProperties DEF TypeInv, QueueType
  <2> QED
    BY <2>1, <2>2
<1>6. PICK w \in Nat : w = S + Taking
  BY <1>2, <1>4
<1>7. w % BUF_SIZE = buf_wptr /\ w <= R + BUF_SIZE /\ (buf_ff = 0 => w < R + BUF_SIZE) /\ S <= w
  BY <1>1, <1>2, <1>4, <1>6 DEF Fill
<1>8. Receiving => w = S + prq_len /\ buf_wptr = (prq_idx + prq_len) % BUF_SIZE
  <2>1. ASSUME Receiving PROVE w = S + prq_len
    BY <1>6, <2>1 DEF Taking
  <2>2. ((S % BUF_SIZE) + prq_len) % BUF_SIZE = (S + prq_len) % BUF_SIZE
    BY <1>2, <1>3, <1>4, Wraps
  <2> QED
    BY <1>4, <1>7, <2>1, <2>2
<1>9. buf_wptr % BUF_SIZE = buf_wptr /\ ((w % BUF_SIZE) + 0) % BUF_SIZE = buf_wptr
  BY <1>2, <1>7
<1>10. ASSUME NEW x \in Nat, NEW n \in Nat, R <= x, x + n <= w, buf_we
       PROVE  \A j \in 0 .. n - 1 : buf_wptr # ((x % BUF_SIZE) + j) % BUF_SIZE
  <2>1. w + 1 <= x + BUF_SIZE
    BY <1>2, <1>5, <1>7, <1>10 DEF buf_we
  <2>2. \A i \in 0 .. n - 1, j \in 0 .. 1 - 1 : ((x % BUF_SIZE) + i) % BUF_SIZE # ((w % BUF_SIZE) + j) % BUF_SIZE
    BY <1>2, <1>10, <2>1, Stretches
  <2>3. 0 \in 0 .. 1 - 1
    OBVIOUS
  <2> QED
    BY <1>9, <2>2, <2>3
<1>11. ASSUME buf_we, NEW i \in 1 .. Len(prq) PROVE buf_wptr \notin Cells(prq[i])
  <2>1. PICK x \in Nat, n \in Nat : x = A[i] /\ n = prq[i].len
    BY <1>3, <1>4
  <2>2. R <= x /\ x + n <= w /\ prq[i].idx = x % BUF_SIZE
    BY <1>4, <1>5, <1>7, <2>1
  <2>3. \A j \in 0 .. n - 1 : buf_wptr # ((x % BUF_SIZE) + j) % BUF_SIZE
    BY <1>10, <1>11, <2>2
  <2> QED
    BY <2>1, <2>2, <2>3 DEF Cells
<1>12. ASSUME buf_we, NEW i \in 1 .. Len(held) PROVE buf_wptr \notin Cells(held[i])
  <2>1. PICK n \in Nat : n = held[i].len
    BY <1>3
  <2>2. R <= H /\ H + n <= w /\ held[i].idx = H % BUF_SIZE
    BY <1>4, <1>5, <1>7, <2>1
  <2>3. \A j \in 0 .. n - 1 : buf_wptr # ((H % BUF_SIZE) + j) % BUF_SIZE
    BY <1>4, <1>10, <1>12, <2>2
  <2> QED
    BY <2>1, <2>2, <2>3 DEF Cells
<1>13. ASSUME buf_we, Receiving PROVE \A j \in 0 .. prq_len - 1 : buf_wptr # (prq_idx + j) % BUF_SIZE
  <2>1. R <= S /\ S + prq_len <= w
    BY <1>3, <1>4, <1>5, <1>8, <1>13
  <2>2. \A j \in 0 .. prq_len - 1 : buf_wptr # ((S % BUF_SIZE) + j) % BUF_SIZE
    BY <1>3, <1>4, <1>10, <1>13, <2>1
  <2> QED
    BY <1>4, <2>2
<1>14. ASSUME NEW h \in 1 .. Len(held), NEW i \in 1 .. Len(prq) PROVE NoCommonCell(held[h], prq[i])
  <2>1. PICK n \in Nat, m \in Nat, y \in Nat : n = held[h].len /\ m = prq[i].len /\ y = A[i]
    BY <1>3, <1>4
  <2>2. H + n <= y /\ y + m <= S /\ S <= H + BUF_SIZE
    BY <1>2, <1>4, <1>5, <1>7, <2>1
  <2>3. y + m <= H + BUF_SIZE
    BY <1>2, <1>4, <2>2
  <2>4. \A j \in 0 .. n - 1, k \in 0 .. m - 1 : ((H % BUF_SIZE) + j) % BUF_SIZE # ((y % BUF_SIZE) + k) % BUF_SIZE
    <3>1. PICK x \in Nat, B \in Nat \ {0} : x = H /\ B = BUF_SIZE
      BY <1>2, <1>4
    <3>2. x + n <= y /\ y + m <= x + B
      BY <2>2, <2>3, <3>1
    <3>3. \A j \in 0 .. n - 1, k \in 0 .. m - 1 : ((x % B) + j) % B # ((y % B) + k) % B
      BY <3>2, Stretches
    <3> QED
      BY <3>1, <3>3
  <2> QED
    BY <1>4, <2>1, <2>4 DEF NoCommonCell
<1>15. ASSUME NEW h \in 1 .. Len(held), Receiving PROVE NoCommonCell(held[h], Cur)
  <2>1. PICK n \in Nat, m \in Nat : n = held[h].len /\ m = prq_len
    BY <1>3
  <2>2. H + n <= S /\ S + m <= H + BUF_SIZE
    BY <1>2, <1>4, <1>5, <1>7, <1>8, <1>15, <2>1
  <2>3. \A j \in 0 .. n - 1, k \in 0 .. m - 1 : ((H % BUF_SIZE) + j) % BUF_SIZE # ((S % BUF_SIZE) + k) % BUF_SIZE
    <3>1. PICK x \in Nat, y \in Nat, B \in Nat \ {0} : x = H /\ y = S /\ B = BUF_SIZE
      BY <1>2, <1>4
    <3>2. x + n <= y /\ y + m <= x + B
      BY <2>2, <3>1
    <3>3. \A j \in 0 .. n - 1, k \in 0 .. m - 1 : ((x % B) + j) % B # ((y % B) + k) % B
      BY <3>2, Stretches
    <3> QED
      BY <3>1, <3>3
  <2>4. Cur.len = prq_len /\ Cur.idx = prq_idx
    BY DEF Cur
  <2> QED
    BY <1>4, <2>1, <2>3, <2>4 DEF NoCommonCell
<1> QED
  BY <1>8, <1>11, <1>12, <1>13, <1>14, <1>15

LEMMA AnnouncedIs ==
  ASSUME TypeInv, NEW n \in 1 .. Len(Announced)
  PROVE  \/ \E i \in 1 .. Len(prq) : Announced[n] = prq[i]
         \/ \E i \in 1 .. Len(held) : Announced[n] = held[i]
<1>1. prq \in Seq(Descriptors) /\ held \in Seq(Descriptors)
  BY DEF TypeInv, QueueType
<1>2. Len(prq) \in Nat /\ Len(held) \in Nat
  BY <1>1, LenProperties
<1>3. Len(Announced) = Len(prq) + Len(held)
  BY <1>1, ConcatProperties DEF Announced
<1>4. Announced[n] = IF n <= Len(prq) THEN prq[n] ELSE held[n - Len(prq)]
  BY <1>1, <1>2, <1>3, ConcatProperties DEF Announced
<1> QED
  BY <1>2, <1>3, <1>4

Inv6 == Inv5 /\ RingInv

LEMMA Inv6Init == Init => Inv6
BY Inv4Init, LenInit, RingInit DEF Inv6, Inv5

LEMMA Inv6Step ==
  ASSUME GAP >= 2
  PROVE  Inv6 /\ [Next]_vars => Inv6'
<1> SUFFICES ASSUME Inv6, [Next]_vars PROVE Inv6'
  OBVIOUS
<1>1. Inv4'
  BY Inv4Step DEF Inv6, Inv5
<1>2. CASE Rx
  <2>1. PICK b : Works(b) /\ Cases(b)
    BY <1>2, RxIs
  <2>2. LenInv'
    BY <2>1, LenStep DEF Inv6, Inv5, Inv4
  <2>3. RingInv'
    BY <2>1, RingRx DEF Inv6
  <2> QED
    BY <1>1, <2>2, <2>3 DEF Inv6, Inv5
<1>3. CASE RxGet \/ RxFree
  <2>1. LenInv'
    BY <1>3, FirmwareKeepsLen DEF Inv6, Inv5, RxGet, RxFree
  <2>2. RingInv'
    BY <1>3, RingGet, RingFree DEF Inv6, Inv5, Inv4, Inv3
  <2> QED
    BY <1>1, <2>1, <2>2 DEF Inv6, Inv5
<1>4. CASE UNCHANGED vars
  <2>1. LenInv'
    BY <1>4, FirmwareKeepsLen DEF Inv6, Inv5, vars
  <2>2. UNCHANGED <<pfq, prq, held, buf_rptr, buf_wptr, buf_ff, prq_idx, prq_len, prq_stb, state>>
    BY <1>4 DEF vars, fe
  <2>3. PICK R, S, H, A, P : BackPart(R, H, P) /\ FrontPart(S, H, A) /\ Fill(R, S)
    BY DEF Inv6, RingInv
  <2>4. BackPart(R, H, P)'
    BY <2>2, <2>3 DEF BackPart
  <2>5. FrontPart(S, H, A)'
    BY <2>2, <2>3 DEF FrontPart
  <2>6. Fill(R, S)'
    BY <2>2, <2>3 DEF Fill, Taking, Receiving
  <2>7. RingInv'
    BY <2>4, <2>5, <2>6 DEF RingInv
  <2> QED
    BY <1>1, <2>1, <2>7 DEF Inv6, Inv5
<1> QED
  BY <1>2, <1>3, <1>4 DEF Next

\* Announced packets, the packet being received and the space on its way back
\* follow one another in the ring, within one turn of it.
THEOREM RingOrder == ASSUME GAP >= 2 PROVE Spec => []Inv6
<1>1. Inv6 /\ [Next]_vars => Inv6'
  BY Inv6Step
<1> QED
  BY <1>1, Inv6Init, PTL DEF Spec

\* For a ring and queues of any size and frames at least two idle cycles apart,
\* no write of the front end lands in a packet that it has announced and the
\* firmware has not freed (NeverOverwritesAPacket).
THEOREM PacketsAreSafe == ASSUME GAP >= 2 PROVE Spec => NeverOverwritesAPacket
<1>1. Inv6 => (buf_we => \A n \in 1 .. Len(Announced) : buf_wptr \notin Cells(Announced[n]))
  <2> SUFFICES ASSUME Inv6, buf_we, NEW n \in 1 .. Len(Announced) PROVE buf_wptr \notin Cells(Announced[n])
    OBVIOUS
  <2>1. TypeInv /\ RingInv
    BY DEF Inv6, Inv5, Inv4, Inv3
  <2>2. /\ \A i \in 1 .. Len(prq) : buf_wptr \notin Cells(prq[i])
        /\ \A i \in 1 .. Len(held) : buf_wptr \notin Cells(held[i])
    BY <2>1, Separate
  <2> QED
    BY <2>1, <2>2, AnnouncedIs
<1>2. Spec => []Inv6
  BY RingOrder
<1> QED
  BY <1>1, <1>2, PTL DEF NeverOverwritesAPacket

(***************************************************************************)
(* The contents of the ring and of the descriptors.                        *)
(***************************************************************************)
Holds(x, n, f) == \A j \in 0 .. n - 1 : \E k \in Nat : ram[(x + j) % BUF_SIZE] = Byte(f, k)
Whole(x, n, f) == \A j \in 0 .. n - 1 : ram[(x + j) % BUF_SIZE] = Byte(f, FirstByte(f) + j)

\* count tells the length of the preamble as long as it does not wrap.
Preambles == \A f \in Frames : pre(f) <= COUNT_MAX

PreFlags(f, flag) ==
  pre_inc = 0 =>
    /\ "PRE_BAD" \in flag <=> FrameTable[f].sfd # "D5" \/ \E i \in 1 .. pre(f) + 1 : er(Byte(f, i))
    /\ FrameTable[f].sfd = "D5" => /\ "PRE_SHORT" \in flag <=> pre(f) < 7
                                   /\ "PRE_LONG" \in flag <=> pre(f) > 7

ErrBefore(f, k) == \E i \in FirstByte(f) .. LastCovered(f) : i < k /\ er(Byte(f, i))

Right(f, flag) ==
  /\ "FCS_BAD" \notin flag => FrameTable[f].wrong = {} /\ len(f) >= FirstByte(f) + 4
  /\ "DATA_ERR" \in flag <=> \E i \in FirstByte(f) .. LastCovered(f) : er(Byte(f, i))
  /\ Preambles => PreFlags(f, flag)

Fits(d, f) ==
  /\ Holds(d.idx, d.len, f)
  /\ "TRUNCATE" \notin d.flag => Whole(d.idx, d.len, f) /\ d.len = LastByte(f) - FirstByte(f) + 1
  /\ Right(f, d.flag)

PreAt(f, k) ==
  /\ "FCS_BAD" \in prq_flag /\ "DATA_ERR" \notin prq_flag
  /\ Preambles => /\ "PRE_BAD" \in prq_flag <=> \E i \in 1 .. k - 1 : er(Byte(f, i))
                  /\ "PRE_SHORT" \notin prq_flag
                  /\ "PRE_LONG" \in prq_flag <=> k > 8
                  /\ count = k - 1

PartFlags(f, k) ==
  /\ "DATA_ERR" \in prq_flag <=> ErrBefore(f, k)
  /\ Preambles => PreFlags(f, prq_flag)
  /\ state = "PKT" \/ count = 0 => "FCS_BAD" \in prq_flag
  /\ state = "FCS" /\ "FCS_BAD" \notin prq_flag => \A i \in 1 .. count : i \notin FrameTable[f].wrong

PartHolds(f) ==
  /\ Holds(prq_idx, prq_len, f)
  /\ "TRUNCATE" \notin prq_flag => Whole(prq_idx, prq_len, f)

\* Announced, in the firmware's hands, or being announced in this cycle.
Waiting(d) ==
  \/ \E i \in 1 .. Len(prq) : prq[i] = d
  \/ \E i \in 1 .. Len(held) : held[i] = d
  \/ prq_stb = 1 /\ Cur = d

PartInv ==
  \A f \in Frames, k \in Nat : pipe[5] = Byte(f, k) =>
    /\ state = "PRE" => PreAt(f, k)
    /\ state \in {"PKT", "FCS"} => PartFlags(f, k) /\ PartHolds(f)

ContentInv == PartInv /\ \A d \in Descriptors : Waiting(d) => \E f \in Frames : Fits(d, f)

\* The flags of the preamble.
LEMMA PreambleFlags ==
  ASSUME Inv3, GAP >= 2, NEW b, Works(b), Preamble(b),
         NEW f \in Frames, NEW k \in 1 .. len(f), pipe[5] = Byte(f, k), PreAt(f, k),
         NEW m \in Nat, m = k + 1
  PROVE  /\ state' = "PRE" => PreAt(f, m)'
         /\ state' = "PKT" => PartFlags(f, m)'
<1>1. /\ k <= pre(f) + 1 /\ pre_inc = 0
      /\ prq_flag' = prq_flag \cup PreFlag(f, k)
      /\ state' = "PRE" => k <= pre(f) /\ count' = (count + 1) % (COUNT_MAX + 1)
      /\ state' = "PKT" => k = pre(f) + 1
  BY PreambleMoves
<1>2. /\ k \in Nat /\ pre(f) \in Nat /\ FrameTable[f].sfd \in {"D5", "other"} /\ COUNT_MAX \in Nat
      /\ prq_flag \in SUBSET FlagBits /\ count \in Nat
  BY FrameType, Sizes DEF Inv3, TypeInv, CaseType
<1>3. /\ kind(Byte(f, k)) = "55" <=> k <= pre(f)
      /\ k = pre(f) + 1 => kind(Byte(f, k)) = FrameTable[f].sfd
  BY <1>1, <1>2, KindIs
<1>4. "FCS_BAD" \in prq_flag' /\ "DATA_ERR" \notin prq_flag'
  <2>1. PreFlag(f, k) \subseteq {"PRE_SHORT", "PRE_LONG", "PRE_BAD"}
    BY DEF PreFlag
  <2> QED
    BY <1>1, <2>1 DEF PreAt
<1>5. ASSUME state' = "PRE", Preambles
      PROVE  /\ "PRE_BAD" \in prq_flag' <=> \E i \in 1 .. m - 1 : er(Byte(f, i))
             /\ "PRE_SHORT" \notin prq_flag'
             /\ "PRE_LONG" \in prq_flag' <=> m > 8
             /\ count' = m - 1
  <2>1. k <= pre(f) /\ kind(Byte(f, k)) = "55" /\ count = k - 1 /\ pre(f) <= COUNT_MAX
    BY <1>1, <1>3, <1>5 DEF PreAt, Preambles
  <2>2. PreFlag(f, k) = (IF count > 6 THEN {"PRE_LONG"} ELSE {}) \cup (IF er(Byte(f, k)) THEN {"PRE_BAD"} ELSE {})
    BY <2>1 DEF PreFlag
  <2>3. count' = m - 1
    <3>1. count + 1 = k /\ k < COUNT_MAX + 1
      BY <1>2, <2>1
    <3>2. k % (COUNT_MAX + 1) = k
      BY <1>2, <3>1
    <3> QED
      BY <1>1, <1>2, <1>5, <3>1, <3>2
  <2>4. "PRE_SHORT" \notin prq_flag'
    BY <1>1, <1>5, <2>2 DEF PreAt
  <2>5. "PRE_LONG" \in prq_flag' <=> m > 8
    <3>1. "PRE_LONG" \in prq_flag <=> k > 8
      BY <1>5 DEF PreAt
    <3>2. "PRE_LONG" \in PreFlag(f, k) <=> k > 7
      BY <1>2, <2>1, <2>2
    <3> QED
      BY <1>1, <1>2, <3>1, <3>2
  <2>6. "PRE_BAD" \in prq_flag' <=> \E i \in 1 .. m - 1 : er(Byte(f, i))
    <3>1. "PRE_BAD" \in prq_flag <=> \E i \in 1 .. k - 1 : er(Byte(f, i))
      BY <1>5 DEF PreAt
    <3>2. "PRE_BAD" \in PreFlag(f, k) <=> er(Byte(f, k))
      BY <2>2
    <3>3. \A i : i \in 1 .. m - 1 <=> i \in 1 .. k - 1 \/ i = k
      BY <1>2
    <3> QED
      BY <1>1, <3>1, <3>2, <3>3
  <2> QED
    BY <2>3, <2>4, <2>5, <2>6
<1>6. ASSUME state' = "PKT", Preambles PROVE PreFlags(f, prq_flag')
  <2>1. k = pre(f) + 1 /\ kind(Byte(f, k)) = FrameTable[f].sfd /\ count = k - 1
    BY <1>1, <1>3, <1>6 DEF PreAt
  <2>2. /\ "PRE_BAD" \in prq_flag <=> \E i \in 1 .. k - 1 : er(Byte(f, i))
        /\ "PRE_SHORT" \notin prq_flag
        /\ "PRE_LONG" \in prq_flag <=> k > 8
    BY <1>6 DEF PreAt
  <2>3. "PRE_BAD" \in PreFlag(f, k) <=> FrameTable[f].sfd # "D5" \/ er(Byte(f, k))
    <3>1. CASE FrameTable[f].sfd = "D5"
      BY <2>1, <3>1 DEF PreFlag
    <3>2. CASE FrameTable[f].sfd = "other"
      BY <2>1, <3>2 DEF PreFlag
    <3> QED
      BY <1>2, <3>1, <3>2
  <2>4. "PRE_BAD" \in prq_flag' <=> FrameTable[f].sfd # "D5" \/ \E i \in 1 .. pre(f) + 1 : er(Byte(f, i))
    <3>1. \A i : i \in 1 .. pre(f) + 1 <=> i \in 1 .. k - 1 \/ i = k
      BY <1>2, <2>1
    <3> QED
      BY <1>1, <2>2, <2>3, <3>1
  <2>5. ASSUME FrameTable[f].sfd = "D5"
        PROVE  /\ "PRE_SHORT" \in prq_flag' <=> pre(f) < 7
               /\ "PRE_LONG" \in prq_flag' <=> pre(f) > 7
    <3>1. PreFlag(f, k) = (IF count < 7 THEN {"PRE_SHORT"} ELSE IF count > 7 THEN {"PRE_LONG"} ELSE {})
                          \cup (IF er(Byte(f, k)) THEN {"PRE_BAD"} ELSE {})
      BY <2>1, <2>5 DEF PreFlag
    <3>2. count = pre(f)
      BY <1>2, <2>1
    <3>3. "PRE_SHORT" \in PreFlag(f, k) <=> pre(f) < 7
      BY <3>1, <3>2
    <3>4. "PRE_LONG" \in PreFlag(f, k) <=> pre(f) > 7
      BY <1>2, <3>1, <3>2
    <3>5. "PRE_LONG" \in prq_flag <=> pre(f) > 7
      BY <1>2, <2>1, <2>2
    <3> QED
      BY <1>1, <2>2, <3>3, <3>4, <3>5
  <2> QED
    BY <2>4, <2>5 DEF PreFlags
<1>7. state' = "PKT" => ~ErrBefore(f, m)
  BY <1>1, <1>2 DEF ErrBefore, FirstByte
<1>8. state' = "PRE" => PreAt(f, m)'
  BY <1>4, <1>5 DEF PreAt
<1>9. state' = "PKT" => PartFlags(f, m)'
  BY <1>4, <1>6, <1>7 DEF PartFlags, PreFlags
<1> QED
  BY <1>8, <1>9

\* The flags of the packet, byte by byte.
LEMMA PassFlags ==
  ASSUME Inv3, NEW f \in Frames, NEW k \in 1 .. len(f), NEW fl, Passes(f, k, fl), PartFlags(f, k),
         prq_flag' = fl \/ prq_flag' = fl \cup {"TRUNCATE"},
         NEW m \in Nat, m = k + 1
  PROVE  /\ state' \in {"PKT", "FCS"} => PartFlags(f, m)'
         /\ prq_stb' = 1 => Right(f, prq_flag')
<1>1. /\ k \in Nat /\ len(f) \in Nat \ {0} /\ FirstByte(f) \in Nat \ {0} /\ LastCovered(f) \in Int
      /\ FrameTable[f].wrong \in SUBSET (1 .. 4)
  BY FrameType
<1>2. \A x \in FlagBits \ {"TRUNCATE"} : x \in prq_flag' <=> x \in fl
  OBVIOUS
<1>3. \A x \in {"PRE_BAD", "PRE_SHORT", "PRE_LONG"} : x \in prq_flag' <=> x \in prq_flag
  BY <1>2, FlagIs DEF Passes
<1>4. Preambles => PreFlags(f, prq_flag')
  BY <1>3 DEF PartFlags, PreFlags
<1>5. ErrBefore(f, m) <=> ErrBefore(f, k) \/ (k \in FirstByte(f) .. LastCovered(f) /\ er(Byte(f, k)))
  <2>1. \A i \in FirstByte(f) .. LastCovered(f) : i < m <=> i < k \/ i = k
    BY <1>1
  <2> QED
    BY <2>1 DEF ErrBefore
<1>6. "DATA_ERR" \in prq_flag' <=> ErrBefore(f, m)
  <2>1. "DATA_ERR" \in prq_flag' <=> "DATA_ERR" \in fl
    BY <1>2, FlagIs
  <2>2. CASE state = "PKT"
    <3>1. k \in FirstByte(f) .. LastCovered(f) /\ ("DATA_ERR" \in fl <=> "DATA_ERR" \in prq_flag \/ er(Byte(f, k)))
      BY <2>2 DEF Passes, Covered
    <3> QED
      BY <1>5, <2>1, <3>1 DEF PartFlags
  <2>3. CASE state = "FCS"
    <3>1. k > LastCovered(f) /\ ("DATA_ERR" \in fl <=> "DATA_ERR" \in prq_flag)
      BY <2>3 DEF Passes
    <3>2. k \notin FirstByte(f) .. LastCovered(f)
      BY <1>1, <3>1
    <3> QED
      BY <1>5, <2>1, <3>1, <3>2 DEF PartFlags
  <2> QED
    BY <2>2, <2>3 DEF Passes
<1>7. "FCS_BAD" \in prq_flag' <=> "FCS_BAD" \in fl
  BY <1>2, FlagIs
<1>8. state = "PKT" => "FCS_BAD" \in fl
  BY DEF Passes, PartFlags
<1>9. ASSUME state = "FCS", "FCS_BAD" \notin fl
      PROVE  count \in 0 .. 3 /\ \A i \in 1 .. count + 1 : i \notin FrameTable[f].wrong
  <2>1. count \in 0 .. 3 /\ fl = FcsFlag(f)
    BY <1>9 DEF Passes, Covered
  <2>2. count + 1 \notin FrameTable[f].wrong /\ (count = 0 \/ "FCS_BAD" \notin prq_flag)
    BY <1>9, <2>1 DEF FcsFlag
  <2>3. \A i \in 1 .. count : i \notin FrameTable[f].wrong
    BY <1>9, <2>1, <2>2 DEF PartFlags
  <2>4. \A i \in 1 .. count + 1 : i \in 1 .. count \/ i = count + 1
    BY <2>1
  <2> QED
    BY <2>1, <2>2, <2>3, <2>4
<1>10. ASSUME state' \in {"PKT", "FCS"} PROVE PartFlags(f, m)'
  <2>1. /\ state = "PKT" /\ state' = "FCS" => count' = 0
        /\ state = "FCS" => state' = "FCS" /\ count' = count + 1
    BY <1>10 DEF Passes
  <2>2. state = "PKT" \/ (state = "FCS" /\ count \in 0 .. 3)
    BY DEF Passes, Covered
  <2>3. state' = "PKT" \/ count' = 0 => "FCS_BAD" \in prq_flag'
    BY <1>7, <1>8, <2>1, <2>2
  <2>4. ASSUME state' = "FCS", "FCS_BAD" \notin prq_flag' PROVE \A i \in 1 .. count' : i \notin FrameTable[f].wrong
    <3>1. state = "FCS" /\ count' = count + 1
      BY <1>7, <1>8, <2>1, <2>2, <2>4
    <3> QED
      BY <1>7, <1>9, <2>4, <3>1
  <2> QED
    BY <1>4, <1>6, <2>3, <2>4 DEF PartFlags, PreFlags
<1>11. ASSUME prq_stb' = 1 PROVE Right(f, prq_flag')
  <2>1. /\ k = len(f)
        /\ state = "PKT" => LastCovered(f) = len(f)
        /\ state = "FCS" => count = 3
    BY <1>11 DEF Passes
  <2>2. "DATA_ERR" \in prq_flag' <=> \E i \in FirstByte(f) .. LastCovered(f) : er(Byte(f, i))
    <3>1. \A i \in FirstByte(f) .. LastCovered(f) : i < m
      BY <1>1, <2>1, LastIs
    <3> QED
      BY <1>6, <3>1 DEF ErrBefore
  <2>3. ASSUME "FCS_BAD" \notin prq_flag' PROVE FrameTable[f].wrong = {} /\ len(f) >= FirstByte(f) + 4
    <3>1. state = "FCS" /\ count = 3 /\ len(f) - 4 >= FirstByte(f)
      BY <1>7, <1>8, <2>1, <2>3 DEF Passes, Covered
    <3>2. \A i \in 1 .. 4 : i \notin FrameTable[f].wrong
      BY <1>7, <1>9, <2>3, <3>1
    <3> QED
      BY <1>1, <3>1, <3>2
  <2> QED
    BY <1>4, <2>2, <2>3 DEF Right
<1> QED
  BY <1>10, <1>11

\* The bytes of the packet, byte by byte.
LEMMA PassBytes ==
  ASSUME Inv6, NEW b, Works(b), NEW f \in Frames, NEW k \in 1 .. len(f), pipe[5] = Byte(f, k),
         NEW fl, Passes(f, k, fl), PartHolds(f)
  PROVE  /\ PartHolds(f)'
         /\ prq_stb' = 1 /\ "TRUNCATE" \notin prq_flag' => prq_len' = LastByte(f) - FirstByte(f) + 1
         /\ prq_flag' = fl \/ prq_flag' = fl \cup {"TRUNCATE"}
<1>1. /\ k \in Nat /\ len(f) \in Nat \ {0} /\ FirstByte(f) \in Nat \ {0}
      /\ Inv3 /\ LenInv /\ RingInv /\ TypeInv /\ state \in {"PKT", "FCS"} /\ Receiving
      /\ prq_len \in Nat /\ prq_idx' = prq_idx
  BY FrameType, Lengths DEF Inv6, Inv5, Inv4, Inv3, Passes, Covered, Receiving
<1>2. LenAt(f, k)
  BY <1>1 DEF LenInv
<1>3. /\ buf_we => k <= LastByte(f) /\ prq_len' = prq_len + 1
                   /\ ("TRUNCATE" \notin prq_flag => FirstByte(f) + prq_len = k)
      /\ ~buf_we => prq_len' = prq_len
      /\ "TRUNCATE" \notin prq_flag' => "TRUNCATE" \notin prq_flag /\ prq_len' = Seen(f, k + 1)
      /\ prq_flag' = fl \/ prq_flag' = fl \cup {"TRUNCATE"}
  BY <1>1, <1>2, Writes, FlagIs DEF Passes
<1>4. ram' = IF buf_we THEN [ram EXCEPT ![buf_wptr] = pipe[5]] ELSE ram
  BY DEF Works, Ring
<1>5. /\ \A j \in 0 .. prq_len - 1 : \E i \in Nat : ram[(prq_idx + j) % BUF_SIZE] = Byte(f, i)
      /\ "TRUNCATE" \notin prq_flag =>
           \A j \in 0 .. prq_len - 1 : ram[(prq_idx + j) % BUF_SIZE] = Byte(f, FirstByte(f) + j)
  BY DEF PartHolds, Holds, Whole
<1>6. ASSUME ~buf_we PROVE PartHolds(f)'
  BY <1>1, <1>3, <1>4, <1>5, <1>6 DEF PartHolds, Holds, Whole
<1>7. ASSUME buf_we PROVE PartHolds(f)'
  <2>1. \A j \in 0 .. prq_len - 1 : buf_wptr # (prq_idx + j) % BUF_SIZE
    BY <1>1, <1>7, Separate
  <2>2. buf_wptr = (prq_idx + prq_len) % BUF_SIZE /\ buf_wptr \in 0 .. BUF_SIZE - 1
    BY <1>1, Separate DEF TypeInv, RingType
  <2>3. ram = [i \in 0 .. BUF_SIZE - 1 |-> ram[i]]
    BY <1>1 DEF TypeInv, RingType
  <2>4. ram'[(prq_idx + prq_len) % BUF_SIZE] = Byte(f, k)
    BY <1>4, <1>7, <2>2, <2>3
  <2>5. \A j \in 0 .. prq_len - 1 : ram'[(prq_idx + j) % BUF_SIZE] = ram[(prq_idx + j) % BUF_SIZE]
    <3>1. ram' = [ram EXCEPT ![buf_wptr] = pipe[5]]
      BY <1>4, <1>7
    <3>2. \A c \in 0 .. BUF_SIZE - 1 : c # buf_wptr => ram'[c] = ram[c]
      BY <2>3, <3>1
    <3>3. ASSUME NEW j \in 0 .. prq_len - 1 PROVE (prq_idx + j) % BUF_SIZE \in 0 .. BUF_SIZE - 1
      <4>1. prq_idx + j \in Nat /\ BUF_SIZE \in Nat \ {0}
        BY <1>1, Lengths, Sizes
      <4> QED
        BY <4>1, ModType
    <3> QED
      BY <2>1, <3>2, <3>3
  <2>6. PICK n \in Nat : n = prq_len
    BY <1>1
  <2>7. \A j \in 0 .. prq_len' - 1 : j \in 0 .. n - 1 \/ j = n
    BY <1>3, <1>7, <2>6
  <2>8. \A j \in 0 .. prq_len' - 1 : \E i \in Nat : ram'[(prq_idx' + j) % BUF_SIZE] = Byte(f, i)
    BY <1>1, <1>5, <2>4, <2>5, <2>6, <2>7
  <2>9. ASSUME "TRUNCATE" \notin prq_flag'
        PROVE  \A j \in 0 .. prq_len' - 1 : ram'[(prq_idx' + j) % BUF_SIZE] = Byte(f, FirstByte(f) + j)
    <3>1. FirstByte(f) + n = k /\ "TRUNCATE" \notin prq_flag
      BY <1>3, <1>7, <2>6, <2>9
    <3>2. \A j \in 0 .. n - 1 : ram'[(prq_idx + j) % BUF_SIZE] = Byte(f, FirstByte(f) + j)
      BY <1>5, <2>5, <2>6, <3>1
    <3>3. ram'[(prq_idx + n) % BUF_SIZE] = Byte(f, FirstByte(f) + n)
      BY <2>4, <2>6, <3>1
    <3> QED
      BY <1>1, <2>7, <3>2, <3>3
  <2> QED
    BY <2>8, <2>9 DEF PartHolds, Holds, Whole
<1>8. PartHolds(f)'
  BY <1>6, <1>7
<1>9. ASSUME prq_stb' = 1, "TRUNCATE" \notin prq_flag' PROVE prq_len' = LastByte(f) - FirstByte(f) + 1
  <2>1. k = len(f) /\ prq_len' = Seen(f, k + 1)
    BY <1>3, <1>9 DEF Passes
  <2>2. LastByte(f) <= k /\ LastByte(f) \in Int
    BY <2>1, LastIs
  <2> QED
    BY <1>1, <2>1, <2>2 DEF Seen
<1> QED
  BY <1>3, <1>8, <1>9

LEMMA PartOf ==
  ASSUME NEW f \in Frames, NEW m \in Nat, pipe'[5] = Byte(f, m),
         state' = "PRE" => PreAt(f, m)',
         state' \in {"PKT", "FCS"} => PartFlags(f, m)' /\ PartHolds(f)'
  PROVE  PartInv'
<1>1. ASSUME NEW g \in Frames, NEW j \in Nat, pipe'[5] = Byte(g, j) PROVE g = f /\ j = m
  <2>1. Byte(f, m) = Byte(g, j)
    BY <1>1
  <2> QED
    BY <2>1, SameByte
<1> QED
  BY <1>1 DEF PartInv

\* An empty packet holds what it should.
LEMMA NothingYet == ASSUME NEW f, prq_len' = 0 PROVE PartHolds(f)'
BY DEF PartHolds, Holds, Whole

LEMMA PartStep ==
  ASSUME Inv6, GAP >= 2, PartInv, NEW b, Works(b), Cases(b)
  PROVE  /\ PartInv'
         /\ \A d \in Descriptors : prq_stb' = 1 /\ Cur' = d => \E f \in Frames : Fits(d, f)'
<1>0. Inv3 /\ TypeInv
  BY DEF Inv6, Inv5, Inv4, Inv3
<1>1. CASE Quiet(b)
  <2>1. prq_stb' = 0 /\ state' \notin {"PRE", "PKT", "FCS"}
    BY <1>0, <1>1, QuietMoves
  <2> QED
    BY <2>1 DEF PartInv
<1>2. CASE Accept(b)
  <2>1. PICK f \in Frames :
         /\ pipe'[5] = Byte(f, 1) /\ prq_stb' = 0 /\ prq_len' = 0
         /\ state' = (IF pre_inc = 1 THEN "PKT" ELSE "PRE") /\ count' = 0
         /\ "FCS_BAD" \in prq_flag' /\ prq_flag' \subseteq {"IPG_SHORT", "PRE_INC", "FCS_BAD"}
    BY <1>0, <1>2, AcceptMoves
  <2>2. PartHolds(f)'
    BY <2>1, NothingYet
  <2>3. "DATA_ERR" \notin prq_flag' /\ "PRE_BAD" \notin prq_flag' /\ "PRE_SHORT" \notin prq_flag' /\ "PRE_LONG" \notin prq_flag'
    BY <2>1
  <2>4. state' = "PRE" => PreAt(f, 1)'
    BY <2>1, <2>3 DEF PreAt
  <2>5. ASSUME state' = "PKT" PROVE PartFlags(f, 1)'
    <3>1. pre_inc = 1 /\ FirstByte(f) = 1
      BY <2>1, <2>5 DEF FirstByte
    <3>2. ~ErrBefore(f, 1)
      BY <3>1, LastIs DEF ErrBefore
    <3> QED
      BY <2>1, <2>3, <2>5, <3>1, <3>2 DEF PartFlags, PreFlags
  <2>6. PartInv'
    BY <2>1, <2>2, <2>4, <2>5, PartOf
  <2> QED
    BY <2>1, <2>6
<1>3. CASE Preamble(b)
  <2>1. PICK f \in Frames : \E k \in 1 .. len(f) : pipe[5] = Byte(f, k)
    BY <1>0, <1>3, Here DEF Preamble
  <2>2. PICK k \in 1 .. len(f) : pipe[5] = Byte(f, k)
    BY <2>1
  <2>3. PICK m \in Nat : m = k + 1
    BY FrameType
  <2>4. PreAt(f, k)
    BY <1>3, <2>2, FrameType DEF PartInv, Preamble
  <2>5. /\ prq_stb' = 0 /\ prq_len' = 0
        /\ state' = "IPG" \/ (state' \in {"PRE", "PKT"} /\ pipe'[5] = Byte(f, m))
    BY <1>0, <1>3, <2>2, <2>3, PreambleMoves
  <2>6. /\ state' = "PRE" => PreAt(f, m)'
        /\ state' = "PKT" => PartFlags(f, m)'
    BY <1>0, <1>3, <2>2, <2>3, <2>4, PreambleFlags
  <2>7. PartHolds(f)'
    BY <2>5, NothingYet
  <2>8. CASE state' = "IPG"
    BY <2>5, <2>8 DEF PartInv
  <2>9. CASE state' \in {"PRE", "PKT"} /\ pipe'[5] = Byte(f, m)
    <3>1. PartInv'
      BY <2>6, <2>7, <2>9, PartOf
    <3> QED
      BY <2>5, <3>1
  <2> QED
    BY <2>5, <2>8, <2>9
<1>4. CASE Packet(b) \/ Fcs(b)
  <2>0. state \in {"PKT", "FCS"}
    BY <1>4 DEF Packet, Fcs
  <2>1. PICK f \in Frames : \E k \in 1 .. len(f) : pipe[5] = Byte(f, k)
    BY <1>0, <2>0, Here
  <2>2. PICK k \in 1 .. len(f) : pipe[5] = Byte(f, k)
    BY <2>1
  <2>3. PICK m \in Nat : m = k + 1
    BY FrameType
  <2>4. PICK fl : Passes(f, k, fl)
    BY <1>0, <1>4, <2>2, PacketPasses
  <2>5. PartFlags(f, k) /\ PartHolds(f)
    BY <2>0, <2>2, FrameType DEF PartInv
  <2>6. /\ PartHolds(f)'
        /\ prq_stb' = 1 /\ "TRUNCATE" \notin prq_flag' => prq_len' = LastByte(f) - FirstByte(f) + 1
        /\ prq_flag' = fl \/ prq_flag' = fl \cup {"TRUNCATE"}
    BY <2>2, <2>4, <2>5, PassBytes
  <2>7. /\ state' \in {"PKT", "FCS"} => PartFlags(f, m)'
        /\ prq_stb' = 1 => Right(f, prq_flag')
    BY <1>0, <2>3, <2>4, <2>5, <2>6, PassFlags
  <2>8. \/ state' \in {"PKT", "FCS"} /\ prq_stb' = 0 /\ pipe'[5] = Byte(f, m)
        \/ state' = "IPG" /\ prq_stb' = 1
    BY <2>3, <2>4 DEF Passes
  <2>9. CASE state' \in {"PKT", "FCS"} /\ prq_stb' = 0 /\ pipe'[5] = Byte(f, m)
    <3>1. PartInv'
      BY <2>6, <2>7, <2>9, PartOf
    <3> QED
      BY <2>9, <3>1
  <2>10. CASE state' = "IPG" /\ prq_stb' = 1
    <3>1. PartInv'
      BY <2>10 DEF PartInv
    <3>2. ASSUME NEW d \in Descriptors, Cur' = d PROVE Fits(d, f)'
      <4>1. d.len = prq_len' /\ d.idx = prq_idx' /\ d.flag = prq_flag'
        BY <3>2 DEF Cur
      <4>2. Right(f, d.flag)
        BY <2>7, <2>10, <4>1
      <4>3. /\ \A j \in 0 .. d.len - 1 : \E i \in Nat : ram'[(d.idx + j) % BUF_SIZE] = Byte(f, i)
            /\ "TRUNCATE" \notin d.flag =>
                 \A j \in 0 .. d.len - 1 : ram'[(d.idx + j) % BUF_SIZE] = Byte(f, FirstByte(f) + j)
        BY <2>6, <4>1 DEF PartHolds, Holds, Whole
      <4>4. "TRUNCATE" \notin d.flag => d.len = LastByte(f) - FirstByte(f) + 1
        BY <2>6, <2>10, <4>1
      <4> QED
        BY <4>2, <4>3, <4>4 DEF Fits, Holds, Whole
    <3> QED
      BY <3>1, <3>2
  <2> QED
    BY <2>8, <2>9, <2>10
<1> QED
  BY <1>1, <1>2, <1>3, <1>4 DEF Cases, Quiet

\* A packet keeps what it holds while its cells are left alone.
LEMMA FitsKept ==
  ASSUME NEW d, NEW f, Fits(d, f),
         \A j \in 0 .. d.len - 1 : ram'[(d.idx + j) % BUF_SIZE] = ram[(d.idx + j) % BUF_SIZE]
  PROVE  Fits(d, f)'
<1>1. /\ \A j \in 0 .. d.len - 1 : \E i \in Nat : ram[(d.idx + j) % BUF_SIZE] = Byte(f, i)
      /\ "TRUNCATE" \notin d.flag =>
           /\ \A j \in 0 .. d.len - 1 : ram[(d.idx + j) % BUF_SIZE] = Byte(f, FirstByte(f) + j)
           /\ d.len = LastByte(f) - FirstByte(f) + 1
      /\ Right(f, d.flag)
  BY DEF Fits, Holds, Whole
<1>2. /\ \A j \in 0 .. d.len - 1 : \E i \in Nat : ram'[(d.idx + j) % BUF_SIZE] = Byte(f, i)
      /\ "TRUNCATE" \notin d.flag =>
           /\ \A j \in 0 .. d.len - 1 : ram'[(d.idx + j) % BUF_SIZE] = Byte(f, FirstByte(f) + j)
           /\ d.len = LastByte(f) - FirstByte(f) + 1
  BY <1>1
<1> QED
  BY <1>1, <1>2 DEF Fits, Holds, Whole

LEMMA CellInRing ==
  ASSUME NEW d \in Descriptors, NEW j \in 0 .. d.len - 1
  PROVE  (d.idx + j) % BUF_SIZE \in 0 .. BUF_SIZE - 1 /\ (d.idx + j) % BUF_SIZE \in Cells(d)
<1>1. d.idx + j \in Nat /\ BUF_SIZE \in Nat \ {0}
  BY Sizes DEF Descriptors
<1>2. (d.idx + j) % BUF_SIZE \in 0 .. BUF_SIZE - 1
  BY <1>1, ModType
<1> QED
  BY <1>2 DEF Cells

LEMMA CurIs == TypeInv => Cur \in Descriptors
BY DEF TypeInv, CaseType, Cur, Descriptors

\* The write of a cycle is in no packet that waits.
LEMMA WaitingRx ==
  ASSUME Inv6, NEW b, Works(b), NEW d \in Descriptors, NEW f \in Frames, Fits(d, f), Waiting(d)
  PROVE  Fits(d, f)'
<1>0. TypeInv /\ RingInv /\ (prq_stb = 1 => ~buf_we)
  <2>1. TypeInv /\ RingInv /\ FsmInv
    BY DEF Inv6, Inv5, Inv4, Inv3
  <2>2. prq_stb = 1 => buf_wr # 1
    BY <2>1 DEF FsmInv
  <2> QED
    BY <2>1, <2>2 DEF buf_we
<1>1. ram' = IF buf_we THEN [ram EXCEPT ![buf_wptr] = pipe[5]] ELSE ram
  BY DEF Works, Ring
<1>2. buf_we => buf_wptr \notin Cells(d)
  BY <1>0, Separate DEF Waiting
<1>3. ASSUME NEW j \in 0 .. d.len - 1 PROVE ram'[(d.idx + j) % BUF_SIZE] = ram[(d.idx + j) % BUF_SIZE]
  <2>1. PICK c \in 0 .. BUF_SIZE - 1 : c = (d.idx + j) % BUF_SIZE /\ c \in Cells(d)
    BY CellInRing
  <2>2. ram = [i \in 0 .. BUF_SIZE - 1 |-> ram[i]]
    BY <1>0 DEF TypeInv, RingType
  <2>3. ram'[c] = ram[c]
    BY <1>1, <1>2, <2>1, <2>2
  <2> QED
    BY <2>1, <2>3
<1> QED
  BY <1>3, FitsKept

LEMMA ContentRx ==
  ASSUME Inv6, GAP >= 2, ContentInv, NEW b, Works(b), Cases(b)
  PROVE  ContentInv'
<1>1. TypeInv /\ RoomInv
  BY DEF Inv6, Inv5, Inv4, Inv3
<1>2. /\ PartInv'
      /\ \A d \in Descriptors : prq_stb' = 1 /\ Cur' = d => \E f \in Frames : Fits(d, f)'
  BY PartStep DEF ContentInv
<1>3. ASSUME NEW d \in Descriptors, Waiting(d)', ~(prq_stb' = 1 /\ Cur' = d) PROVE Waiting(d)
  <2>1. (\E i \in 1 .. Len(prq') : prq'[i] = d) \/ (\E i \in 1 .. Len(held') : held'[i] = d)
    BY <1>3 DEF Waiting
  <2>2. held' = held
    BY DEF Works
  <2>3. ASSUME NEW i \in 1 .. Len(prq'), prq'[i] = d PROVE Waiting(d)
    <3>1. CASE prq_stb = 1
      <4>1. prq' = Append(prq, Cur)
        BY <1>1, <3>1 DEF Works, Queues, RoomInv, Cur
      <4>2. Len(prq') = Len(prq) + 1 /\ Len(prq) \in Nat /\ (\A j \in 1 .. Len(prq) : prq'[j] = prq[j]) /\ prq'[Len(prq) + 1] = Cur
        <5>1. prq \in Seq(Descriptors) /\ Cur \in Descriptors
          BY <1>1, CurIs DEF TypeInv, QueueType
        <5> QED
          BY <4>1, <5>1, Pushed
      <4>3. i \in 1 .. Len(prq) \/ i = Len(prq) + 1
        BY <2>3, <4>2
      <4> QED
        BY <2>3, <3>1, <4>2, <4>3 DEF Waiting
    <3>2. CASE prq_stb # 1
      BY <2>3, <3>2 DEF Works, Queues, Waiting
    <3> QED
      BY <3>1, <3>2
  <2> QED
    BY <2>1, <2>2, <2>3 DEF Waiting
<1>4. ASSUME NEW d \in Descriptors, Waiting(d)' PROVE \E f \in Frames : Fits(d, f)'
  <2>1. CASE prq_stb' = 1 /\ Cur' = d
    BY <1>2, <2>1
  <2>2. CASE ~(prq_stb' = 1 /\ Cur' = d)
    <3>1. Waiting(d)
      BY <1>3, <1>4, <2>2
    <3>2. PICK f \in Frames : Fits(d, f)
      BY <3>1 DEF ContentInv
    <3>3. Fits(d, f)'
      BY <3>1, <3>2, WaitingRx
    <3> QED
      BY <3>3
  <2> QED
    BY <2>1, <2>2
<1> QED
  BY <1>2, <1>4 DEF ContentInv

LEMMA ContentGet ==
  ASSUME Inv6, ContentInv, RxGet
  PROVE  ContentInv'
<1>1. /\ held = <<>> /\ prq # <<>> /\ held' = <<prq[1]>> /\ prq' = Tail(prq)
      /\ UNCHANGED <<pipe, ram, prq_stb, prq_len, prq_idx, prq_flag, state, count>>
  BY DEF RxGet, fe
<1>2. /\ Len(prq') = Len(prq) - 1 /\ Len(prq) \in Nat \ {0}
      /\ \A i \in 1 .. Len(prq) - 1 : prq'[i] = prq[i + 1]
  <2>1. prq \in Seq(Descriptors)
    BY DEF Inv6, Inv5, Inv4, Inv3, TypeInv, QueueType
  <2> QED
    BY <1>1, <2>1, Popped
<1>3. ASSUME NEW d \in Descriptors, Waiting(d)' PROVE Waiting(d)
  <2>1. ASSUME NEW i \in 1 .. Len(prq'), prq'[i] = d PROVE Waiting(d)
    <3>1. i + 1 \in 1 .. Len(prq) /\ prq[i + 1] = d
      BY <1>2, <2>1
    <3> QED
      BY <3>1 DEF Waiting
  <2>2. ASSUME NEW i \in 1 .. Len(held'), held'[i] = d PROVE Waiting(d)
    <3>1. prq[1] = d /\ 1 \in 1 .. Len(prq)
      BY <1>1, <1>2, <2>2
    <3> QED
      BY <3>1 DEF Waiting
  <2>3. prq_stb' = 1 /\ Cur' = d => Waiting(d)
    BY <1>1 DEF Waiting, Cur
  <2> QED
    BY <1>3, <2>1, <2>2, <2>3 DEF Waiting
<1>4. ASSUME NEW d \in Descriptors, NEW f \in Frames, Fits(d, f) PROVE Fits(d, f)'
  BY <1>1, <1>4, FitsKept
<1>5. PartInv'
  BY <1>1 DEF ContentInv, PartInv, PreAt, PartFlags, PartHolds, Holds, Whole, PreFlags
<1>6. ASSUME NEW d \in Descriptors, Waiting(d)' PROVE \E f \in Frames : Fits(d, f)'
  <2>1. Waiting(d)
    BY <1>3, <1>6
  <2>2. PICK f \in Frames : Fits(d, f)
    BY <2>1 DEF ContentInv
  <2>3. Fits(d, f)'
    BY <1>4, <2>2
  <2> QED
    BY <2>3
<1> QED
  BY <1>5, <1>6 DEF ContentInv

\* The bytes the firmware forgets are in no packet that waits, nor in the one
\* being received.
LEMMA ContentFree ==
  ASSUME Inv6, ContentInv, RxFree
  PROVE  ContentInv'
<1>1. /\ held # <<>> /\ held' = <<>> /\ prq' = prq
      /\ ram' = [i \in 0 .. BUF_SIZE-1 |-> IF i \in Cells(held[1]) THEN Idle ELSE ram[i]]
      /\ UNCHANGED <<pipe, prq_stb, prq_len, prq_idx, prq_flag, state, count>>
  BY DEF RxFree, fe
<1>2. TypeInv /\ RingInv
  BY DEF Inv6, Inv5, Inv4, Inv3
<1>3. 1 \in 1 .. Len(held) /\ Len(held') = 0
  <2>1. held \in Seq(Descriptors)
    BY <1>2 DEF TypeInv, QueueType
  <2>2. Len(held) \in Nat \ {0}
    BY <1>1, <2>1, Popped
  <2> QED
    BY <1>1, <2>2, EmptySeq
<1>4. /\ \A i \in 1 .. Len(prq) : NoCommonCell(held[1], prq[i])
      /\ Receiving => NoCommonCell(held[1], Cur)
  BY <1>2, <1>3, Separate
<1>5. ASSUME NEW d \in Descriptors, NoCommonCell(held[1], d)
      PROVE  \A j \in 0 .. d.len - 1 : ram'[(d.idx + j) % BUF_SIZE] = ram[(d.idx + j) % BUF_SIZE]
  <2>1. ASSUME NEW j \in 0 .. d.len - 1 PROVE ram'[(d.idx + j) % BUF_SIZE] = ram[(d.idx + j) % BUF_SIZE]
    <3>1. PICK c \in 0 .. BUF_SIZE - 1 : c = (d.idx + j) % BUF_SIZE
      BY CellInRing
    <3>2. c \notin Cells(held[1])
      BY <1>5, <3>1 DEF NoCommonCell, Cells
    <3>3. ram'[c] = ram[c]
      BY <1>1, <3>2
    <3> QED
      BY <3>1, <3>3
  <2> QED
    BY <2>1
<1>6. ASSUME NEW d \in Descriptors, Waiting(d)'
      PROVE  Waiting(d) /\ NoCommonCell(held[1], d)
  <2>1. (\E i \in 1 .. Len(prq) : prq[i] = d) \/ (prq_stb = 1 /\ Cur = d)
    BY <1>1, <1>3, <1>6 DEF Waiting, Cur
  <2> QED
    BY <1>4, <2>1 DEF Waiting, Receiving
<1>7. ASSUME NEW d \in Descriptors, Waiting(d)' PROVE \E f \in Frames : Fits(d, f)'
  <2>1. Waiting(d) /\ NoCommonCell(held[1], d)
    BY <1>6, <1>7
  <2>2. PICK f \in Frames : Fits(d, f)
    BY <2>1 DEF ContentInv
  <2>3. Fits(d, f)'
    BY <1>5, <2>1, <2>2, FitsKept
  <2> QED
    BY <2>3
<1>8. ASSUME NEW f \in Frames, state \in {"PKT", "FCS"}, PartHolds(f) PROVE PartHolds(f)'
  <2>1. PICK d \in Descriptors : d = Cur
    BY <1>2, CurIs
  <2>2. d.len = prq_len /\ d.idx = prq_idx
    BY <2>1 DEF Cur
  <2>3. \A j \in 0 .. d.len - 1 : ram'[(d.idx + j) % BUF_SIZE] = ram[(d.idx + j) % BUF_SIZE]
    BY <1>4, <1>5, <1>8, <2>1 DEF Receiving
  <2>4. \A j \in 0 .. prq_len - 1 : ram'[(prq_idx + j) % BUF_SIZE] = ram[(prq_idx + j) % BUF_SIZE]
    BY <2>2, <2>3
  <2> QED
    BY <1>1, <1>8, <2>4 DEF PartHolds, Holds, Whole
<1>9. PartInv'
  <2>1. ASSUME NEW f \in Frames, NEW k \in Nat, pipe'[5] = Byte(f, k)
        PROVE  /\ state' = "PRE" => PreAt(f, k)'
               /\ state' \in {"PKT", "FCS"} => PartFlags(f, k)' /\ PartHolds(f)'
    <3>1. /\ state = "PRE" => PreAt(f, k)
          /\ state \in {"PKT", "FCS"} => PartFlags(f, k) /\ PartHolds(f)
      BY <1>1, <2>1 DEF ContentInv, PartInv
    <3>2. state' = "PRE" => PreAt(f, k)'
      BY <1>1, <3>1 DEF PreAt
    <3>3. state' \in {"PKT", "FCS"} => PartFlags(f, k)'
      BY <1>1, <3>1 DEF PartFlags, PreFlags
    <3> QED
      BY <1>1, <1>8, <3>1, <3>2, <3>3
  <2> QED
    BY <2>1 DEF PartInv
<1> QED
  BY <1>7, <1>9 DEF ContentInv

Inv7 == Inv6 /\ ContentInv

LEMMA ContentInit == Init => ContentInv
<1> SUFFICES ASSUME Init PROVE ContentInv
  OBVIOUS
<1>1. prq = <<>> /\ held = <<>> /\ prq_stb = 0 /\ state = "STARTUP"
  BY DEF Init
<1>2. Len(prq) = 0 /\ Len(held) = 0
  BY <1>1, EmptySeq
<1>3. \A d : ~Waiting(d)
  BY <1>1, <1>2 DEF Waiting
<1>4. PartInv
  BY <1>1 DEF PartInv
<1> QED
  BY <1>3, <1>4 DEF ContentInv

LEMMA ContentStutter == ContentInv /\ UNCHANGED vars => ContentInv'
<1> SUFFICES ASSUME ContentInv, UNCHANGED vars PROVE ContentInv'
  OBVIOUS
<1>1. UNCHANGED <<pipe, ram, prq, held, prq_stb, prq_len, prq_idx, prq_flag, state, count>>
  BY DEF vars, fe
<1>2. \A d : Waiting(d)' => Waiting(d)
  BY <1>1 DEF Waiting, Cur
<1>3. ASSUME NEW d \in Descriptors, Waiting(d)' PROVE \E f \in Frames : Fits(d, f)'
  <2>1. PICK f \in Frames : Fits(d, f)
    BY <1>2, <1>3 DEF ContentInv
  <2>2. Fits(d, f)'
    BY <1>1, <2>1, FitsKept
  <2> QED
    BY <2>2
<1>4. PartInv'
  BY <1>1 DEF ContentInv, PartInv, PreAt, PartFlags, PartHolds, Holds, Whole, PreFlags
<1> QED
  BY <1>3, <1>4 DEF ContentInv

LEMMA Inv7Step ==
  ASSUME GAP >= 2
  PROVE  Inv7 /\ [Next]_vars => Inv7'
<1> SUFFICES ASSUME Inv7, [Next]_vars PROVE Inv7'
  OBVIOUS
<1>1. Inv6'
  BY Inv6Step DEF Inv7
<1>2. CASE Rx
  <2>1. PICK b : Works(b) /\ Cases(b)
    BY <1>2, RxIs
  <2>2. ContentInv'
    BY <2>1, ContentRx DEF Inv7
  <2> QED
    BY <1>1, <2>2 DEF Inv7
<1>3. CASE RxGet \/ RxFree
  BY <1>1, <1>3, ContentGet, ContentFree DEF Inv7
<1>4. CASE UNCHANGED vars
  BY <1>1, <1>4, ContentStutter DEF Inv7
<1> QED
  BY <1>2, <1>3, <1>4 DEF Next

\* What the ring holds and what the descriptors say of it agree, cycle by cycle.
THEOREM SafetyInvariant == ASSUME GAP >= 2 PROVE Spec => []Inv7
<1>1. Inv7 /\ [Next]_vars => Inv7'
  BY Inv7Step
<1>2. Init => Inv7
  BY Inv6Init, ContentInit DEF Inv7
<1> QED
  BY <1>1, <1>2, PTL DEF Spec

LEMMA AnnouncedFits ==
  ASSUME Inv7, NEW n \in 1 .. Len(Announced)
  PROVE  \E d \in Descriptors, f \in Frames : d = Announced[n] /\ Fits(d, f)
<1>1. TypeInv /\ ContentInv
  BY DEF Inv7, Inv6, Inv5, Inv4, Inv3
<1>2. Waiting(Announced[n]) /\ Announced[n] \in Descriptors
  <2>1. CASE \E i \in 1 .. Len(prq) : Announced[n] = prq[i]
    BY <1>1, <2>1, Lengths DEF Waiting
  <2>2. CASE \E i \in 1 .. Len(held) : Announced[n] = held[i]
    BY <1>1, <2>2, Lengths DEF Waiting
  <2> QED
    BY <1>1, <2>1, <2>2, AnnouncedIs
<1> QED
  BY <1>1, <1>2 DEF ContentInv

\* The frame a packet begins with is the frame it fits.
LEMMA FromIs ==
  ASSUME NEW d \in Descriptors, NEW f, NEW g, Fits(d, g), From(d, f)
  PROVE  f = g
<1>1. d.len > 0 /\ ram[d.idx] # Idle /\ ram[d.idx][1] = f
  BY DEF From
<1>2. 0 \in 0 .. d.len - 1 /\ (d.idx + 0) % BUF_SIZE = d.idx
  <2>1. d.len \in Nat /\ d.idx \in 0 .. BUF_SIZE - 1 /\ BUF_SIZE \in Nat \ {0}
    BY Sizes DEF Descriptors
  <2> QED
    BY <1>1, <2>1
<1>3. \E k \in Nat : ram[d.idx] = Byte(g, k)
  BY <1>2 DEF Fits, Holds
<1> QED
  BY <1>1, <1>3, IdleIsNone

\* For a ring and queues of any size, any frames at least two idle cycles
\* apart, and a firmware that may lose free descriptors: a packet announced
\* without the TRUNCATE flag is the whole of one frame, in order and unharmed
\* (IntactUnlessTruncated).
THEOREM PacketsAreWhole == ASSUME GAP >= 2 PROVE Spec => []IntactUnlessTruncated
<1>1. Inv7 => IntactUnlessTruncated
  <2> SUFFICES ASSUME Inv7, NEW n \in 1 .. Len(Announced), "TRUNCATE" \notin Announced[n].flag
               PROVE  \E f \in Frames : /\ Announced[n].len = LastByte(f) - FirstByte(f) + 1
                                        /\ \A i \in 0 .. Announced[n].len-1 :
                                             ram[(Announced[n].idx + i) % BUF_SIZE] = Byte(f, FirstByte(f) + i)
    BY DEF IntactUnlessTruncated
  <2>1. PICK d \in Descriptors, f \in Frames : d = Announced[n] /\ Fits(d, f)
    BY AnnouncedFits
  <2> QED
    BY <2>1 DEF Fits, Whole
<1>2. Spec => []Inv7
  BY SafetyInvariant
<1> QED
  BY <1>1, <1>2, PTL

\* A packet announced without FCS_BAD comes from a frame whose four last bytes
\* were all compared and all matched (GoodMeansChecked).
THEOREM GoodIsChecked == ASSUME GAP >= 2 PROVE Spec => []GoodMeansChecked
<1>1. Inv7 => GoodMeansChecked
  <2> SUFFICES ASSUME Inv7, NEW n \in 1 .. Len(Announced), NEW f \in Frames,
                      From(Announced[n], f), "FCS_BAD" \notin Announced[n].flag
               PROVE  FrameTable[f].wrong = {} /\ len(f) >= FirstByte(f) + 4
    BY DEF GoodMeansChecked
  <2>1. PICK d \in Descriptors, g \in Frames : d = Announced[n] /\ Fits(d, g)
    BY AnnouncedFits
  <2>2. f = g
    BY <2>1, FromIs
  <2> QED
    BY <2>1, <2>2 DEF Fits, Right
<1>2. Spec => []Inv7
  BY SafetyInvariant
<1> QED
  BY <1>1, <1>2, PTL

\* A packet carries DATA_ERR exactly when the PHY reported an error on one of
\* its own bytes before the FCS (ErrorGoesWithItsPacket).
THEOREM ErrorsAreTold == ASSUME GAP >= 2 PROVE Spec => []ErrorGoesWithItsPacket
<1>1. Inv7 => ErrorGoesWithItsPacket
  <2> SUFFICES ASSUME Inv7, NEW n \in 1 .. Len(Announced), NEW f \in Frames, From(Announced[n], f)
               PROVE  "DATA_ERR" \in Announced[n].flag
                        <=> \E i \in FirstByte(f) .. LastCovered(f) : er(Byte(f, i))
    BY DEF ErrorGoesWithItsPacket
  <2>1. PICK d \in Descriptors, g \in Frames : d = Announced[n] /\ Fits(d, g)
    BY AnnouncedFits
  <2>2. f = g
    BY <2>1, FromIs
  <2> QED
    BY <2>1, <2>2 DEF Fits, Right
<1>2. Spec => []Inv7
  BY SafetyInvariant
<1> QED
  BY <1>1, <1>2, PTL

\* While no frame begins with more 0x55 bytes than the counter holds, the flags
\* of a packet without its preamble tell what the preamble was
\* (FlagsTellThePreamble).
THEOREM PreamblesAreTold ==
  ASSUME GAP >= 2, \A f \in Frames : pre(f) <= COUNT_MAX
  PROVE  Spec => []FlagsTellThePreamble
<1>1. Inv7 => FlagsTellThePreamble
  <2> SUFFICES ASSUME Inv7, NEW n \in 1 .. Len(Announced), NEW f \in Frames,
                      From(Announced[n], f), pre_inc = 0
               PROVE  LET flag == Announced[n].flag
                          sfd == kind(Byte(f, pre(f) + 1)) IN
                      /\ "PRE_BAD" \in flag <=> sfd # "D5" \/ \E i \in 1 .. pre(f) + 1 : er(Byte(f, i))
                      /\ sfd = "D5" => /\ "PRE_SHORT" \in flag <=> pre(f) < 7
                                       /\ "PRE_LONG" \in flag <=> pre(f) > 7
    BY DEF FlagsTellThePreamble
  <2>1. PICK d \in Descriptors, g \in Frames : d = Announced[n] /\ Fits(d, g)
    BY AnnouncedFits
  <2>2. f = g
    BY <2>1, FromIs
  <2>3. kind(Byte(f, pre(f) + 1)) = FrameTable[f].sfd
    <3>1. PICK k \in Nat : k = pre(f) + 1
      BY FrameType
    <3>2. k <= pre(f) + 1
      BY <3>1
    <3> QED
      BY <3>1, <3>2, KindIs
  <2>4. PreFlags(f, d.flag)
    BY <2>1, <2>2 DEF Fits, Right, Preambles
  <2> QED
    BY <2>1, <2>3, <2>4 DEF PreFlags
<1>2. Spec => []Inv7
  BY SafetyInvariant
<1> QED
  BY <1>1, <1>2, PTL
(***************************************************************************)
(* Sums.  Induction over the numbers is stated of a set of them, since     *)
(* the least element of what is missing is found by WFMin.                 *)
(***************************************************************************)
LEMMA SetInduction ==
  ASSUME NEW T, T \subseteq Nat, 0 \in T, \A n \in T : n + 1 \in T
  PROVE  T = Nat
<1> SUFFICES ASSUME Nat \ T # {} PROVE FALSE
  OBVIOUS
<1> DEFINE Less == {p \in Nat \X Nat : p[1] < p[2]}
<1>1. IsWellFoundedOn(Less, Nat)
  BY NatLessThanWellFounded DEF OpToRel
<1> HIDE DEF Less
<1>2. PICK m \in Nat \ T : \A k \in Nat \ T : <<k, m>> \notin Less
  BY <1>1, WFMin
<1>3. m # 0 /\ m - 1 \in Nat
  OBVIOUS
<1>4. <<m - 1, m>> \in Less
  BY <1>3 DEF Less
<1>5. m - 1 \in T /\ (m - 1) + 1 = m
  BY <1>2, <1>3, <1>4
<1> QED
  BY <1>2, <1>5

\* The function over sets of indices that the fold of a sum is made of.
Folds(q, n, g) ==
  g = [s \in SUBSET (1 .. n) |-> IF s = {} THEN 0 ELSE g[s \ {Max(s)}] + q[Max(s)]]

LEMMA SumIsFold ==
  ASSUME NEW q, NEW n, DOMAIN q = 1 .. n
  PROVE  SumOf(q) = (CHOOSE g : Folds(q, n, g))[1 .. n]
BY DEF SumOf, FoldLeft, MapThenFoldSet, Folds

LEMMA MaxIs ==
  ASSUME NEW n \in Nat, NEW s, s \subseteq 1 .. n, n \in s
  PROVE  Max(s) = n
<1>1. \A y \in s : n >= y
  OBVIOUS
<1>2. Max(s) \in s /\ \A y \in s : Max(s) >= y
  BY <1>1 DEF Max
<1>3. Max(s) \in 1 .. n /\ Max(s) >= n
  BY <1>2
<1> QED
  BY <1>3

LEMMA FoldExists ==
  ASSUME NEW q, NEW n \in Nat
  PROVE  \E g : Folds(q, n, g)
<1> DEFINE T == {m \in Nat : \E g : Folds(q, m, g)}
<1>1. 0 \in T
  <2>1. SUBSET (1 .. 0) = {{}}
    OBVIOUS
  <2>2. PICK g : g = [s \in SUBSET (1 .. 0) |-> 0]
    OBVIOUS
  <2>3. g = [s \in SUBSET (1 .. 0) |-> IF s = {} THEN 0 ELSE g[s \ {Max(s)}] + q[Max(s)]]
    BY <2>1, <2>2
  <2>4. Folds(q, 0, g)
    BY <2>3 DEF Folds
  <2> QED
    BY <2>4
<1>2. ASSUME NEW m \in T PROVE m + 1 \in T
  <2>1. PICK g : Folds(q, m, g)
    OBVIOUS
  <2>2. m \in Nat /\ m + 1 \in Nat
    OBVIOUS
  <2>3. PICK h : h = [s \in SUBSET (1 .. m + 1) |-> IF m + 1 \in s THEN g[s \ {m + 1}] + q[m + 1] ELSE g[s]]
    OBVIOUS
  <2>4. ASSUME NEW s \in SUBSET (1 .. m + 1)
        PROVE  h[s] = IF s = {} THEN 0 ELSE h[s \ {Max(s)}] + q[Max(s)]
    <3>1. CASE m + 1 \in s
      <4>1. Max(s) = m + 1
        BY <2>2, <3>1, MaxIs
      <4>2. m + 1 \notin s \ {m + 1} /\ s \ {m + 1} \in SUBSET (1 .. m + 1)
        OBVIOUS
      <4>3. h[s] = g[s \ {m + 1}] + q[m + 1] /\ h[s \ {m + 1}] = g[s \ {m + 1}]
        BY <2>3, <3>1, <4>2
      <4> QED
        BY <3>1, <4>1, <4>3
    <3>2. CASE m + 1 \notin s
      <4>0. \A i \in 1 .. m + 1 : i # m + 1 => i \in 1 .. m
        BY <2>2
      <4>1. s \in SUBSET (1 .. m) /\ s \ {Max(s)} \in SUBSET (1 .. m + 1) /\ m + 1 \notin s \ {Max(s)}
        BY <3>2, <4>0
      <4>2. h[s] = g[s] /\ h[s \ {Max(s)}] = g[s \ {Max(s)}]
        BY <2>3, <3>2, <4>1
      <4>3. g[s] = IF s = {} THEN 0 ELSE g[s \ {Max(s)}] + q[Max(s)]
        BY <2>1, <4>1 DEF Folds
      <4> QED
        BY <4>2, <4>3
    <3> QED
      BY <3>1, <3>2
  <2>5. h = [s \in SUBSET (1 .. m + 1) |-> IF s = {} THEN 0 ELSE h[s \ {Max(s)}] + q[Max(s)]]
    <3>1. h = [s \in SUBSET (1 .. m + 1) |-> h[s]]
      BY <2>3
    <3> QED
      BY <2>4, <3>1
  <2>6. Folds(q, m + 1, h)
    BY <2>5 DEF Folds
  <2> QED
    BY <2>2, <2>6
<1> HIDE DEF T
<1>3. T = Nat
  <2>1. T \subseteq Nat
    BY DEF T
  <2> QED
    BY <1>1, <1>2, <2>1, SetInduction
<1> QED
  BY <1>3 DEF T

\* P adds up the sequence: P[i] is the sum of the first i.
Adds(P, q) ==
  /\ P \in [0 .. Len(q) -> Nat] /\ P[0] = 0
  /\ \A i \in 1 .. Len(q) : P[i] = P[i-1] + q[i]

LEMMA SumSteps ==
  ASSUME NEW q \in Seq(Nat)
  PROVE  \E P : Adds(P, q) /\ SumOf(q) = P[Len(q)]
<1>1. PICK n \in Nat : n = Len(q)
  BY LenProperties
<1>2. DOMAIN q = 1 .. n /\ \A i \in 1 .. n : q[i] \in Nat
  BY <1>1, InSeq, LenProperties
<1>3. PICK g : Folds(q, n, g) /\ SumOf(q) = g[1 .. n]
  BY <1>2, FoldExists, SumIsFold
<1> DEFINE P == [i \in 0 .. n |-> g[1 .. i]]
<1>4. P[0] = 0
  <2>1. 1 .. 0 = {}
    OBVIOUS
  <2>2. g[{}] = 0
    BY <1>3 DEF Folds
  <2>3. 0 \in 0 .. n
    OBVIOUS
  <2> QED
    BY <2>1, <2>2, <2>3
<1>5. ASSUME NEW i \in 1 .. n PROVE P[i] = P[i-1] + q[i]
  <2>0. i \in 1 .. i /\ i \in Nat /\ i - 1 \in 0 .. n /\ i \in 0 .. n /\ \A j \in 1 .. i : j \in 1 .. n
    OBVIOUS
  <2>1. 1 .. i \in SUBSET (1 .. n) /\ 1 .. i # {} /\ i \in 1 .. i /\ i \in Nat /\ i - 1 \in 0 .. n /\ i \in 0 .. n
    BY <2>0
  <2>2. Max(1 .. i) = i
    BY <2>1, MaxIs
  <2>3. (1 .. i) \ {i} = 1 .. i - 1
    BY <2>1
  <2>4. g[1 .. i] = g[(1 .. i) \ {Max(1 .. i)}] + q[Max(1 .. i)]
    BY <1>3, <2>1 DEF Folds
  <2> QED
    BY <2>1, <2>2, <2>3, <2>4
<1>6. \A i \in 0 .. n : P[i] \in Nat
  <2> HIDE DEF P
  <2> DEFINE T == {m \in Nat : m <= n => P[m] \in Nat}
  <2>1. 0 \in T /\ T \subseteq Nat
    BY <1>4
  <2>2. ASSUME NEW m \in T PROVE m + 1 \in T
    <3>1. CASE m + 1 <= n
      <4>1. m + 1 \in 1 .. n /\ P[m] \in Nat /\ (m + 1) - 1 = m
        BY <3>1
      <4> QED
        BY <1>2, <1>5, <4>1
    <3> QED
      BY <3>1
  <2> HIDE DEF T
  <2>3. T = Nat
    BY <2>1, <2>2, SetInduction
  <2> QED
    BY <2>3 DEF T
<1>7. P = [i \in 0 .. n |-> P[i]]
  OBVIOUS
<1>8. P[n] = g[1 .. n]
  OBVIOUS
<1> HIDE DEF P
<1>9. P \in [0 .. n -> Nat]
  BY <1>6, <1>7
<1> QED
  BY <1>1, <1>3, <1>4, <1>5, <1>8, <1>9 DEF Adds

LEMMA SumIs ==
  ASSUME NEW q \in Seq(Nat), NEW P, Adds(P, q)
  PROVE  SumOf(q) = P[Len(q)] /\ SumOf(q) \in Nat
<1>1. PICK n \in Nat : n = Len(q)
  BY LenProperties
<1>2. PICK R : Adds(R, q) /\ SumOf(q) = R[n]
  BY <1>1, SumSteps
<1> DEFINE T == {m \in Nat : m <= n => P[m] = R[m]}
<1>3. 0 \in T /\ T \subseteq Nat
  BY <1>2 DEF Adds
<1>4. ASSUME NEW m \in T PROVE m + 1 \in T
  <2>1. CASE m + 1 <= n
    <3>1. m + 1 \in 1 .. n /\ P[m] = R[m] /\ (m + 1) - 1 = m
      BY <2>1
    <3> QED
      BY <1>1, <1>2, <3>1 DEF Adds
  <2> QED
    BY <2>1
<1> HIDE DEF T
<1>5. T = Nat
  BY <1>3, <1>4, SetInduction
<1>6. P[n] = R[n]
  BY <1>5 DEF T
<1>7. n \in 0 .. n
  OBVIOUS
<1> QED
  BY <1>1, <1>2, <1>6, <1>7 DEF Adds

LEMMA SumEmpty == SumOf(<<>>) = 0
<1>1. <<>> \in Seq(Nat) /\ Len(<<>>) = 0
  BY EmptySeq
<1>2. PICK P : P = [i \in 0 .. 0 |-> 0]
  OBVIOUS
<1>3. Adds(P, <<>>)
  BY <1>1, <1>2 DEF Adds
<1> QED
  BY <1>1, <1>2, <1>3, SumIs

LEMMA SumPush ==
  ASSUME NEW q \in Seq(Nat), NEW x \in Nat
  PROVE  SumOf(Append(q, x)) = SumOf(q) + x
<1>1. PICK n \in Nat : n = Len(q)
  BY LenProperties
<1>2. PICK P : Adds(P, q) /\ SumOf(q) = P[n]
  BY <1>1, SumSteps
<1>3. PICK r : r = Append(q, x)
  OBVIOUS
<1>4. r \in Seq(Nat) /\ Len(r) = n + 1 /\ (\A i \in 1 .. n : r[i] = q[i]) /\ r[n + 1] = x
  BY <1>1, <1>3, Pushed
<1>5. PICK R : R = [i \in 0 .. n + 1 |-> IF i <= n THEN P[i] ELSE P[n] + x]
  OBVIOUS
<1>6. /\ \A i \in 0 .. n : P[i] \in Nat
      /\ P[0] = 0 /\ \A i \in 1 .. n : P[i] = P[i-1] + q[i]
  BY <1>1, <1>2 DEF Adds
<1>7. (\A i \in 0 .. n : R[i] = P[i]) /\ R[n + 1] = P[n] + x
  BY <1>5
<1>8. ASSUME NEW i \in 1 .. n + 1 PROVE R[i] = R[i-1] + r[i]
  <2>1. CASE i = n + 1
    BY <1>4, <1>7, <2>1
  <2>2. CASE i <= n
    BY <1>4, <1>6, <1>7, <2>2
  <2> QED
    BY <2>1, <2>2
<1>9. R \in [0 .. n + 1 -> Nat]
  <2>1. \A i \in 0 .. n + 1 : i \in 0 .. n \/ i = n + 1
    OBVIOUS
  <2>2. P[n] + x \in Nat
    BY <1>6
  <2>3. \A i \in 0 .. n + 1 : R[i] \in Nat
    BY <1>6, <1>7, <2>1, <2>2
  <2>4. R = [i \in 0 .. n + 1 |-> R[i]]
    BY <1>5
  <2> QED
    BY <2>3, <2>4
<1>10. Adds(R, r)
  BY <1>4, <1>6, <1>7, <1>8, <1>9 DEF Adds
<1>11. SumOf(r) = R[n + 1]
  BY <1>4, <1>10, SumIs
<1> QED
  BY <1>2, <1>3, <1>7, <1>11

LEMMA SumPop ==
  ASSUME NEW q \in Seq(Nat), q # <<>>
  PROVE  SumOf(q) = q[1] + SumOf(Tail(q))
<1>1. /\ Tail(q) \in Seq(Nat) /\ Len(Tail(q)) = Len(q) - 1 /\ Len(q) \in Nat \ {0}
      /\ \A i \in 1 .. Len(q) - 1 : Tail(q)[i] = q[i + 1]
      /\ q[1] \in Nat
  BY Popped
<1>2. PICK n \in Nat : Len(q) = n + 1
  <2>1. Len(q) - 1 \in Nat /\ Len(q) = (Len(q) - 1) + 1
    BY <1>1
  <2> QED
    BY <2>1
<1>3. PICK P : Adds(P, q) /\ SumOf(q) = P[n + 1]
  BY <1>2, SumSteps
<1>4. /\ \A i \in 0 .. n + 1 : P[i] \in Nat
      /\ P[0] = 0 /\ \A i \in 1 .. n + 1 : P[i] = P[i-1] + q[i]
  BY <1>2, <1>3 DEF Adds
<1>5. P[1] = q[1]
  BY <1>1, <1>2, <1>4
<1>6. \A i \in 0 .. n : P[i + 1] - q[1] \in Nat
  <2> DEFINE T == {m \in Nat : m <= n => P[m + 1] - q[1] \in Nat}
  <2>1. 0 \in T /\ T \subseteq Nat
    BY <1>1, <1>5
  <2>2. ASSUME NEW m \in T PROVE m + 1 \in T
    <3>1. CASE m + 1 <= n
      <4>1. (m + 1) + 1 \in 1 .. n + 1 /\ P[m + 1] - q[1] \in Nat /\ ((m + 1) + 1) - 1 = m + 1 /\ m + 1 \in 0 .. n + 1
        BY <3>1
      <4>2. q[(m + 1) + 1] \in Nat
        BY <1>2, <4>1, InSeq
      <4>3. P[(m + 1) + 1] = P[m + 1] + q[(m + 1) + 1] /\ P[m + 1] \in Nat
        BY <1>4, <4>1
      <4> QED
        BY <1>1, <4>1, <4>2, <4>3
    <3> QED
      BY <3>1
  <2> HIDE DEF T
  <2>3. T = Nat
    BY <2>1, <2>2, SetInduction
  <2>4. \A m \in Nat : m <= n => P[m + 1] - q[1] \in Nat
    BY <2>3 DEF T
  <2> QED
    BY <2>4
<1>7. PICK r : r = Tail(q)
  OBVIOUS
<1>8. r \in Seq(Nat) /\ Len(r) = n /\ \A i \in 1 .. n : r[i] = q[i + 1]
  BY <1>1, <1>2, <1>7
<1>9. PICK R : R = [i \in 0 .. n |-> P[i + 1] - q[1]]
  OBVIOUS
<1>10. R \in [0 .. n -> Nat] /\ R[0] = 0
  BY <1>1, <1>5, <1>6, <1>9
<1>11. ASSUME NEW i \in 1 .. n PROVE R[i] = R[i-1] + r[i]
  <2>1. i + 1 \in 1 .. n + 1 /\ i \in 0 .. n /\ i - 1 \in 0 .. n /\ (i - 1) + 1 = i /\ (i + 1) - 1 = i
        /\ i \in 0 .. n + 1
    OBVIOUS
  <2>2. R[i] = P[i + 1] - q[1] /\ R[i - 1] = P[i] - q[1] /\ P[i + 1] = P[i] + q[i + 1]
    BY <1>4, <1>9, <2>1
  <2>3. q[i + 1] \in Nat /\ P[i] \in Nat /\ r[i] = q[i + 1]
    BY <1>2, <1>4, <1>8, <2>1, InSeq
  <2> QED
    BY <1>1, <2>2, <2>3
<1>12. Adds(R, r)
  BY <1>8, <1>10, <1>11 DEF Adds
<1>13. SumOf(r) = R[n]
  BY <1>8, <1>12, SumIs
<1>14. R[n] = P[n + 1] - q[1] /\ P[n + 1] \in Nat
  BY <1>4, <1>9
<1> QED
  BY <1>1, <1>3, <1>7, <1>13, <1>14
\* The lengths of a queue of descriptors.
LEMMA LengthsAre ==
  ASSUME NEW q \in Seq(Descriptors)
  PROVE  /\ LengthsOf(q) \in Seq(Nat) /\ Len(LengthsOf(q)) = Len(q) /\ Len(q) \in Nat
         /\ \A i \in 1 .. Len(q) : LengthsOf(q)[i] = q[i].len
<1>1. Len(q) \in Nat /\ DOMAIN q = 1 .. Len(q) /\ \A i \in 1 .. Len(q) : q[i] \in Descriptors
  BY LenProperties, InSeq
<1>2. PICK n \in Nat : n = Len(q)
  BY <1>1
<1>3. LengthsOf(q) = [i \in 1 .. n |-> q[i].len]
  BY <1>1, <1>2 DEF LengthsOf
<1>4. \A i \in 1 .. n : q[i].len \in Nat
  BY <1>1, <1>2, Sizes DEF Descriptors
<1>5. LengthsOf(q) \in [1 .. n -> Nat]
  BY <1>3, <1>4
<1>6. LengthsOf(q) \in Seq(Nat)
  BY <1>5, SeqDef
<1>7. DOMAIN LengthsOf(q) = 1 .. n /\ DOMAIN LengthsOf(q) = 1 .. Len(LengthsOf(q)) /\ Len(LengthsOf(q)) \in Nat
  BY <1>3, <1>6, LenProperties
<1>8. Len(LengthsOf(q)) = n
  BY <1>7
<1> QED
  BY <1>1, <1>2, <1>3, <1>6, <1>8

LEMMA LengthsPush ==
  ASSUME NEW q \in Seq(Descriptors), NEW d \in Descriptors
  PROVE  SumOf(LengthsOf(Append(q, d))) = SumOf(LengthsOf(q)) + d.len /\ d.len \in Nat
<1>1. d.len \in Nat
  BY Sizes DEF Descriptors
<1>2. PICK r : r = Append(q, d)
  OBVIOUS
<1>3. PICK n \in Nat : n = Len(q)
  BY LenProperties
<1>4. r \in Seq(Descriptors) /\ Len(r) = n + 1 /\ (\A i \in 1 .. n : r[i] = q[i]) /\ r[n + 1] = d
  BY <1>2, <1>3, Pushed
<1>5. PICK u, v : u = LengthsOf(r) /\ v = Append(LengthsOf(q), d.len)
  OBVIOUS
<1>6. u \in Seq(Nat) /\ Len(u) = n + 1 /\ \A i \in 1 .. n + 1 : u[i] = r[i].len
  BY <1>4, <1>5, LengthsAre
<1>7. /\ LengthsOf(q) \in Seq(Nat) /\ Len(LengthsOf(q)) = n
      /\ \A i \in 1 .. n : LengthsOf(q)[i] = q[i].len
  BY <1>3, LengthsAre
<1>8. /\ v \in Seq(Nat) /\ Len(v) = n + 1 /\ \A i \in 1 .. n : v[i] = LengthsOf(q)[i]
      /\ v[n + 1] = d.len
  BY <1>1, <1>5, <1>7, Pushed
<1>9. ASSUME NEW i \in 1 .. n + 1 PROVE u[i] = v[i]
  <2>1. CASE i = n + 1
    BY <1>4, <1>6, <1>8, <2>1
  <2>2. CASE i \in 1 .. n
    BY <1>4, <1>6, <1>7, <1>8, <2>2
  <2> QED
    BY <2>1, <2>2
<1>10. u = v
  BY <1>6, <1>8, <1>9, SeqEqual
<1> QED
  BY <1>1, <1>2, <1>5, <1>7, <1>10, SumPush

LEMMA LengthsPop ==
  ASSUME NEW q \in Seq(Descriptors), q # <<>>
  PROVE  SumOf(LengthsOf(q)) = q[1].len + SumOf(LengthsOf(Tail(q))) /\ q[1] \in Descriptors
<1>1. PICK r : r = Tail(q)
  OBVIOUS
<1>2. /\ r \in Seq(Descriptors) /\ Len(r) = Len(q) - 1 /\ Len(q) \in Nat \ {0}
      /\ (\A i \in 1 .. Len(q) - 1 : r[i] = q[i + 1]) /\ q[1] \in Descriptors
  BY <1>1, Popped
<1>3. PICK n \in Nat : n = Len(r)
  BY <1>2, LenProperties
<1>4. Len(q) = n + 1
  BY <1>2, <1>3
<1>5. PICK w : w = LengthsOf(q)
  OBVIOUS
<1>6. w \in Seq(Nat) /\ Len(w) = n + 1 /\ \A i \in 1 .. n + 1 : w[i] = q[i].len
  BY <1>4, <1>5, LengthsAre
<1>7. w # <<>>
  BY <1>6, EmptySeq
<1>8. PICK u, v : u = LengthsOf(r) /\ v = Tail(w)
  OBVIOUS
<1>9. u \in Seq(Nat) /\ Len(u) = n /\ \A i \in 1 .. n : u[i] = r[i].len
  BY <1>2, <1>3, <1>8, LengthsAre
<1>10. v \in Seq(Nat) /\ Len(v) = Len(w) - 1 /\ \A i \in 1 .. Len(w) - 1 : v[i] = w[i + 1]
  BY <1>6, <1>7, <1>8, Popped
<1>11. Len(v) = n /\ \A i \in 1 .. n : v[i] = w[i + 1]
  BY <1>6, <1>10
<1>12. ASSUME NEW i \in 1 .. n PROVE u[i] = v[i]
  <2>1. i + 1 \in 1 .. n + 1 /\ i \in 1 .. Len(q) - 1
    BY <1>4
  <2> QED
    BY <1>2, <1>6, <1>9, <1>11, <2>1
<1>13. u = v
  BY <1>9, <1>10, <1>11, <1>12, SeqEqual
<1>14. SumOf(w) = w[1] + SumOf(Tail(w))
  BY <1>6, <1>7, SumPop
<1>15. w[1] = q[1].len
  BY <1>6
<1> QED
  BY <1>1, <1>2, <1>5, <1>8, <1>13, <1>14, <1>15

LEMMA LengthsNone == SumOf(LengthsOf(<<>>)) = 0
<1>1. <<>> \in Seq(Descriptors) /\ Len(<<>>) = 0
  BY EmptySeq
<1>2. LengthsOf(<<>>) \in Seq(Nat) /\ Len(LengthsOf(<<>>)) = 0
  BY <1>1, LengthsAre
<1>3. LengthsOf(<<>>) = <<>>
  BY <1>2, EmptySeq
<1> QED
  BY <1>3, SumEmpty

\* The one packet that the firmware holds.
LEMMA LengthsOne ==
  ASSUME NEW d \in Descriptors
  PROVE  SumOf(LengthsOf(<<d>>)) = d.len
<1>1. <<>> \in Seq(Descriptors) /\ Append(<<>>, d) = <<d>>
  BY EmptySeq
<1>2. d.len \in Nat
  BY Sizes DEF Descriptors
<1>3. SumOf(LengthsOf(Append(<<>>, d))) = SumOf(LengthsOf(<<>>)) + d.len
  BY <1>1, LengthsPush
<1> QED
  BY <1>1, <1>2, <1>3, LengthsNone

LEMMA SumType ==
  ASSUME NEW q \in Seq(Nat)
  PROVE  SumOf(q) \in Nat
<1>1. PICK P : Adds(P, q)
  BY SumSteps
<1> QED
  BY <1>1, SumIs

(***************************************************************************)
(* The space of the ring, added up: what is announced, held, on its way    *)
(* back, lost and being taken is what lies between the pointers.           *)
(***************************************************************************)
Used == SumOf(LengthsOf(prq)) + SumOf(LengthsOf(held)) + SumOf(pfq) + lost + Taking

SpaceInv ==
  /\ lost \in Nat /\ Used <= BUF_SIZE
  /\ (buf_rptr + Used) % BUF_SIZE = buf_wptr
  /\ buf_ff = 0 => Used < BUF_SIZE
  /\ buf_ff = 1 /\ buf_wptr = buf_rptr => Used = BUF_SIZE

LEMMA PfqIsNat == TypeInv => pfq \in Seq(Nat)
<1> SUFFICES ASSUME TypeInv PROVE pfq \in Seq(Nat)
  OBVIOUS
<1>1. 0 .. LEN_MOD - 1 \subseteq Nat
  BY Sizes
<1>2. pfq \in Seq(0 .. LEN_MOD - 1)
  BY DEF TypeInv, QueueType
<1> QED
  BY <1>1, <1>2, SeqMonotonic

LEMMA SumTypes ==
  ASSUME TypeInv
  PROVE  /\ SumOf(LengthsOf(prq)) \in Nat /\ SumOf(LengthsOf(held)) \in Nat /\ SumOf(pfq) \in Nat
         /\ Taking \in Nat /\ (lost \in Nat => Used \in Nat)
<1>1. prq \in Seq(Descriptors) /\ held \in Seq(Descriptors) /\ pfq \in Seq(Nat)
  BY PfqIsNat DEF TypeInv, QueueType
<1>2. LengthsOf(prq) \in Seq(Nat) /\ LengthsOf(held) \in Seq(Nat)
  BY <1>1, LengthsAre
<1>3. SumOf(LengthsOf(prq)) \in Nat /\ SumOf(LengthsOf(held)) \in Nat /\ SumOf(pfq) \in Nat
  BY <1>1, <1>2, SumType
<1>4. Taking \in Nat
  BY TakingType
<1> QED
  BY <1>3, <1>4 DEF Used

\* A stretch of at most the whole ring ends where it begins only if it is
\* nothing or all.
LEMMA SamePlace ==
  ASSUME NEW B \in Nat \ {0}, NEW r \in 0 .. B - 1, NEW o \in Nat, o <= B
  PROVE  (r + o) % B = r <=> o = 0 \/ o = B
<1>1. r \in Nat /\ r % B = r
  OBVIOUS
<1>2. CASE o = 0
  BY <1>1, <1>2
<1>3. CASE o = B
  <2>1. 1 * B + r = r + o
    BY <1>3
  <2>2. (1 * B + r) % B = r
    BY Residue
  <2> QED
    BY <1>3, <2>1, <2>2
<1>4. CASE o # 0 /\ o # B
  <2>1. PICK y \in Nat : y = r + o
    BY <1>1
  <2>2. r < y /\ y < r + B
    BY <1>4, <2>1
  <2>3. r % B # y % B
    BY <1>1, <2>2, Apart
  <2> QED
    BY <1>1, <1>4, <2>1, <2>3
<1> QED
  BY <1>2, <1>3, <1>4

\* The pointers after n bytes have come back and m have been taken.
LEMMA BothMove ==
  ASSUME NEW B \in Nat \ {0}, NEW r \in 0 .. B - 1, NEW w, NEW o \in Nat, NEW n \in Nat,
         NEW m \in {0, 1}, NEW p \in Nat, p = o + m - n, (r + o) % B = w
  PROVE  (((r + n) % B) + p) % B = (w + m) % B
<1>1. PICK x \in Nat, y \in Nat : x = r + n /\ y = r + o
  OBVIOUS
<1>2. ((x % B) + p) % B = (x + p) % B
  BY Wraps
<1>3. m \in Nat
  OBVIOUS
<1>4. ((y % B) + m) % B = (y + m) % B
  BY <1>3, Wraps
<1>5. x + p = y + m
  BY <1>1
<1> QED
  BY <1>1, <1>2, <1>4, <1>5

\* What a cycle takes, posts and gets back.
LEMMA UsedStep ==
  ASSUME Inv5, GAP >= 2, NEW b, Works(b), Cases(b), lost \in Nat
  PROVE  \E n \in Nat : /\ n <= Used /\ n < BUF_SIZE /\ Used' = Used + Written - n
                        /\ buf_rptr' = (buf_rptr + n) % BUF_SIZE
<1>1. TypeInv /\ RoomInv /\ ReclaimInv /\ Queues /\ Reclaim /\ held' = held /\ lost' = lost
  BY DEF Works, Inv5, Inv4, Inv3
<1>2. PICK x \in Nat, h \in Nat, q \in Nat, t \in Nat :
        x = SumOf(LengthsOf(prq)) /\ h = SumOf(LengthsOf(held)) /\ q = SumOf(pfq) /\ t = Taking
  BY <1>1, SumTypes
<1>3. Written \in {0, 1} /\ prq_stb \in {0, 1} /\ pfq_stb \in {0, 1} /\ buf_rptr \in 0 .. BUF_SIZE - 1
      /\ prq_len \in 0 .. LEN_MOD - 1
  BY <1>1, TakingType DEF TypeInv, CaseType, ReclaimType
<1>4. /\ SumOf(LengthsOf(prq')) + Taking' = x + t + Written
      /\ SumOf(LengthsOf(prq')) \in Nat /\ Taking' \in Nat
  <2>1. CASE prq_stb = 1
    <3>1. Len(prq) < PRQ_SIZE
      BY <1>1, <2>1 DEF RoomInv
    <3>2. prq' = Append(prq, Cur)
      BY <1>1, <2>1, <3>1 DEF Queues, Cur
    <3>3. Cur \in Descriptors /\ Cur.len = prq_len
      BY <1>1, CurIs DEF Cur
    <3>4. prq \in Seq(Descriptors)
      BY <1>1 DEF TypeInv, QueueType
    <3>5. SumOf(LengthsOf(prq')) = x + prq_len
      BY <1>2, <3>2, <3>3, <3>4, LengthsPush
    <3>6. ~buf_we /\ Taking' = 0 /\ t = prq_len
      BY <1>2, <2>1, Advance
    <3>7. prq_len \in Nat
      BY <1>3, Sizes
    <3> QED
      BY <1>2, <3>5, <3>6, <3>7 DEF Written
  <2>2. CASE prq_stb = 0
    <3>1. prq' = prq
      BY <1>1, <2>2 DEF Queues
    <3>2. Taking' = t + Written
      BY <1>2, <2>2, Advance
    <3> QED
      BY <1>2, <1>3, <3>1, <3>2
  <2> QED
    BY <1>3, <2>1, <2>2
<1>5. PICK n \in Nat : n <= q /\ n < BUF_SIZE /\ SumOf(pfq') = q - n /\ buf_rptr' = (buf_rptr + n) % BUF_SIZE
  <2>1. CASE pfq_stb = 1
    <3>1. pfq # <<>> /\ pfq_len_r = pfq[1]
      BY <1>1, <2>1 DEF ReclaimInv
    <3>2. pfq' = Tail(pfq) /\ buf_rptr' = (buf_rptr + pfq_len_r) % BUF_SIZE
      BY <1>1, <2>1, <3>1 DEF Queues, Reclaim
    <3>3. pfq \in Seq(Nat) /\ pfq \in Seq(0 .. LEN_MOD - 1)
      BY <1>1, PfqIsNat DEF TypeInv, QueueType
    <3>4. SumOf(pfq) = pfq[1] + SumOf(Tail(pfq))
      BY <3>1, <3>3, SumPop
    <3>5. Tail(pfq) \in Seq(Nat) /\ pfq[1] \in 0 .. LEN_MOD - 1
      BY <3>1, <3>3, Popped
    <3>6. SumOf(Tail(pfq)) \in Nat
      BY <3>5, SumType
    <3>7. PICK n \in Nat, m \in Nat : n = pfq[1] /\ n < BUF_SIZE /\ m = SumOf(Tail(pfq))
      BY <3>5, <3>6, Sizes
    <3>8. q = n + m /\ SumOf(pfq') = m
      BY <1>2, <3>2, <3>4, <3>7
    <3>9. n <= q /\ SumOf(pfq') = q - n
      BY <3>8
    <3> QED
      BY <3>1, <3>2, <3>7, <3>9
  <2>2. CASE pfq_stb = 0
    <3>1. pfq' = pfq /\ buf_rptr' = buf_rptr
      BY <1>1, <2>2 DEF Queues, Reclaim
    <3>2. (buf_rptr + 0) % BUF_SIZE = buf_rptr
      BY <1>3, Sizes
    <3>3. 0 <= q /\ 0 < BUF_SIZE /\ q = q - 0
      BY <1>2, Sizes
    <3> QED
      BY <1>2, <3>1, <3>2, <3>3
  <2> QED
    BY <1>3, <2>1, <2>2
<1>6. Used = x + h + q + lost + t
  BY <1>2 DEF Used
<1>7. Used' = SumOf(LengthsOf(prq')) + h + (q - n) + lost + Taking'
  <2>1. SumOf(LengthsOf(held')) = h
    BY <1>1, <1>2
  <2> QED
    BY <1>1, <1>5, <2>1 DEF Used
<1>8. Used' = Used + Written - n /\ n <= Used
  BY <1>2, <1>3, <1>4, <1>5, <1>6, <1>7
<1> QED
  BY <1>5, <1>8

LEMMA SpaceRx ==
  ASSUME Inv5, SpaceInv, GAP >= 2, NEW b, Works(b), Cases(b)
  PROVE  SpaceInv'
<1>0. PICK B \in Nat \ {0} : B = BUF_SIZE
  BY Sizes
<1>1. TypeInv /\ Ring /\ lost' = lost
  BY DEF Works, Inv5, Inv4, Inv3
<1>2. PICK r \in 0 .. B - 1, w \in 0 .. B - 1 : r = buf_rptr /\ w = buf_wptr
  BY <1>0, <1>1, Sizes DEF TypeInv, RingType, ReclaimType
<1>3. PICK o \in Nat : o = Used
  BY <1>1, SumTypes DEF SpaceInv
<1>4. PICK m \in {0, 1} : m = Written
  BY <1>1, TakingType
<1>5. PICK n \in Nat : n <= o /\ n < B /\ Used' = o + m - n /\ buf_rptr' = (r + n) % B
  <2>1. PICK n \in Nat : /\ n <= Used /\ n < BUF_SIZE /\ Used' = Used + Written - n
                          /\ buf_rptr' = (buf_rptr + n) % BUF_SIZE
    BY UsedStep DEF SpaceInv
  <2> QED
    BY <1>0, <1>2, <1>3, <1>4, <2>1
<1>6. PICK p \in Nat : p = o + m - n
  BY <1>5
<1>7. /\ (r + o) % B = w /\ o <= B /\ (buf_ff = 0 => o < B) /\ (buf_ff = 1 /\ w = r => o = B)
      /\ lost \in Nat /\ buf_ff \in {0, 1} /\ buf_wr \in {0, 1}
  BY <1>0, <1>1, <1>2, <1>3 DEF SpaceInv, TypeInv, RingType, CaseType
<1>8. /\ buf_ff' = IF buf_ff = 0
                   THEN IF buf_wr = 1 /\ Next1(buf_wptr) = buf_rptr THEN 1 ELSE 0
                   ELSE IF buf_rptr # buf_wptr THEN 0 ELSE 1
      /\ buf_wptr' = IF buf_we THEN Next1(buf_wptr) ELSE buf_wptr
  BY <1>1 DEF Ring
<1>9. m = (IF buf_wr = 1 /\ buf_ff = 0 THEN 1 ELSE 0) /\ (buf_we <=> buf_wr = 1 /\ buf_ff = 0)
  BY <1>4 DEF Written, buf_we
<1>10. buf_wptr' = (w + m) % B
  <2>1. CASE buf_we
    BY <1>0, <1>2, <1>8, <1>9, <2>1 DEF Next1
  <2>2. CASE ~buf_we
    BY <1>2, <1>8, <1>9, <2>2
  <2> QED
    BY <2>1, <2>2
<1>11. (((r + n) % B) + p) % B = (w + m) % B
  <2>1. (r + o) % B = w
    BY <1>7
  <2> QED
    BY <1>0, <1>2, <1>3, <1>4, <1>5, <1>6, <2>1, BothMove
<1>12. (r + o) % B = r <=> o = 0 \/ o = B
  BY <1>7, SamePlace
<1>13. ASSUME m = 1 PROVE (w + 1) % B = r <=> o + 1 = B
  <2>1. o < B /\ o + 1 \in Nat /\ o + 1 # 0
    BY <1>7, <1>9, <1>13
  <2>2. (r + (o + 1)) % B = r <=> o + 1 = B
    BY <2>1, SamePlace
  <2>3. PICK y \in Nat : y = r + o
    OBVIOUS
  <2>4. ((y % B) + 1) % B = (y + 1) % B /\ y + 1 = r + (o + 1)
    <3>1. 1 \in Nat
      OBVIOUS
    <3>2. ((y % B) + 1) % B = (y + 1) % B
      BY <3>1, Wraps, Zenon
    <3> QED
      BY <2>3, <3>2
  <2> QED
    BY <1>7, <2>2, <2>3, <2>4
<1>14. /\ buf_ff' = 0 => p < B
       /\ buf_ff' = 1 => o + m = B
       /\ p <= B
  <2>1. CASE m = 1
    <3>1. o < B /\ buf_ff = 0 /\ buf_wr = 1
      BY <1>7, <1>9, <2>1
    <3>2. buf_ff' = IF o + 1 = B THEN 1 ELSE 0
      BY <1>0, <1>2, <1>8, <1>13, <2>1, <3>1 DEF Next1
    <3> QED
      BY <1>5, <1>6, <2>1, <3>1, <3>2
  <2>2. CASE m = 0 /\ buf_ff = 0
    BY <1>5, <1>6, <1>7, <1>8, <1>9, <2>2
  <2>3. CASE m = 0 /\ buf_ff = 1
    <3>1. buf_ff' = IF r # w THEN 0 ELSE 1
      BY <1>2, <1>8, <2>3
    <3>2. r # w => o # B
      BY <1>7, <1>12
    <3> QED
      BY <1>5, <1>6, <1>7, <2>3, <3>1, <3>2
  <2> QED
    BY <1>7, <2>1, <2>2, <2>3
<1>15. ASSUME buf_ff' = 1, buf_wptr' = buf_rptr' PROVE p = B
  <2>1. PICK r2 \in 0 .. B - 1 : r2 = (r + n) % B
    OBVIOUS
  <2>2. (r2 + p) % B = r2
    BY <1>5, <1>10, <1>11, <1>15, <2>1
  <2>3. p = 0 \/ p = B
    BY <1>14, <2>2, SamePlace
  <2> QED
    BY <1>5, <1>6, <1>14, <1>15, <2>3
<1> QED
  <2>1. Used' = p /\ lost' \in Nat /\ p <= BUF_SIZE
    BY <1>0, <1>1, <1>5, <1>6, <1>7, <1>14
  <2>2. (buf_rptr' + Used') % BUF_SIZE = buf_wptr'
    BY <1>0, <1>5, <1>10, <1>11, <2>1
  <2>3. buf_ff' = 0 => Used' < BUF_SIZE
    BY <1>0, <1>14, <2>1
  <2>4. buf_ff' = 1 /\ buf_wptr' = buf_rptr' => Used' = BUF_SIZE
    BY <1>0, <1>15, <2>1
  <2> QED
    BY <2>1, <2>2, <2>3, <2>4 DEF SpaceInv

LEMMA SpaceFirmware ==
  ASSUME TypeInv, SpaceInv, RxGet \/ RxFree
  PROVE  SpaceInv'
<1>1. prq \in Seq(Descriptors) /\ held \in Seq(Descriptors) /\ pfq \in Seq(Nat)
  BY PfqIsNat DEF TypeInv, QueueType
<1>2. UNCHANGED <<buf_rptr, buf_wptr, buf_ff, state, prq_stb, prq_len>>
  BY DEF RxGet, RxFree, fe
<1>3. Taking' = Taking
  BY <1>2 DEF Taking, Receiving
<1>4. PICK x \in Nat, h \in Nat, q \in Nat, t \in Nat :
        x = SumOf(LengthsOf(prq)) /\ h = SumOf(LengthsOf(held)) /\ q = SumOf(pfq) /\ t = Taking
  BY SumTypes
<1>5. lost \in Nat /\ Used = x + h + q + lost + t
  BY <1>4 DEF Used, SpaceInv
<1>6. CASE RxGet
  <2>1. held = <<>> /\ prq # <<>> /\ held' = <<prq[1]>> /\ prq' = Tail(prq) /\ pfq' = pfq /\ lost' = lost
    BY <1>6 DEF RxGet
  <2>2. x = prq[1].len + SumOf(LengthsOf(prq')) /\ prq[1] \in Descriptors
    BY <1>1, <1>4, <2>1, LengthsPop
  <2>3. SumOf(LengthsOf(held')) = prq[1].len /\ h = 0
    BY <1>4, <2>1, <2>2, LengthsOne, LengthsNone
  <2>4. prq' \in Seq(Descriptors)
    BY <1>1, <2>1, Popped
  <2>5. SumOf(LengthsOf(prq')) \in Nat /\ prq[1].len \in Nat
    <3>1. LengthsOf(prq') \in Seq(Nat)
      BY <2>4, LengthsAre
    <3> QED
      BY <2>2, <3>1, SumType, Sizes DEF Descriptors
  <2>6. Used' = SumOf(LengthsOf(prq')) + SumOf(LengthsOf(held')) + q + lost + t
    BY <1>3, <1>4, <2>1 DEF Used
  <2>7. Used' = Used
    BY <1>4, <1>5, <2>2, <2>3, <2>5, <2>6
  <2> QED
    BY <1>2, <2>1, <2>7 DEF SpaceInv
<1>7. CASE RxFree
  <2>1. /\ held # <<>> /\ held' = <<>> /\ prq' = prq
        /\ \/ pfq' = Append(pfq, held[1].len) /\ lost' = lost
           \/ pfq' = pfq /\ lost' = lost + held[1].len
    BY <1>7 DEF RxFree
  <2>2. Len(held) <= 1
    BY DEF TypeInv, QueueType
  <2>3. h = held[1].len + SumOf(LengthsOf(Tail(held))) /\ held[1] \in Descriptors
    BY <1>1, <1>4, <2>1, LengthsPop
  <2>4. held[1].len \in Nat
    BY <2>3, Sizes DEF Descriptors
  <2>5. Tail(held) = <<>>
    <3>1. Tail(held) \in Seq(Descriptors) /\ Len(Tail(held)) = Len(held) - 1 /\ Len(held) \in Nat \ {0}
      BY <1>1, <2>1, Popped
    <3>2. Len(Tail(held)) = 0
      BY <2>2, <3>1
    <3> QED
      BY <3>1, <3>2, EmptySeq
  <2>6. h = held[1].len /\ SumOf(LengthsOf(held')) = 0
    <3>1. h = held[1].len + SumOf(LengthsOf(<<>>))
      BY <2>3, <2>5
    <3>2. SumOf(LengthsOf(held')) = SumOf(LengthsOf(<<>>))
      BY <2>1
    <3> QED
      BY <2>4, <3>1, <3>2, LengthsNone
  <2>7. SumOf(pfq') + lost' = q + lost + h /\ lost' \in Nat /\ SumOf(pfq') \in Nat
    <3>1. CASE pfq' = Append(pfq, held[1].len) /\ lost' = lost
      <4>1. SumOf(pfq') = q + held[1].len
        BY <1>1, <1>4, <2>4, <3>1, SumPush
      <4>2. PICK k \in Nat : k = held[1].len
        BY <2>4
      <4>3. SumOf(pfq') = q + k /\ h = k /\ lost' = lost
        BY <2>6, <3>1, <4>1, <4>2
      <4> QED
        BY <1>4, <1>5, <4>3
    <3>2. CASE pfq' = pfq /\ lost' = lost + held[1].len
      <4>1. PICK k \in Nat : k = held[1].len
        BY <2>4
      <4>2. SumOf(pfq') = q /\ h = k /\ lost' = lost + k
        BY <1>4, <2>6, <3>2, <4>1
      <4> QED
        BY <1>5, <4>2
    <3> QED
      BY <2>1, <3>1, <3>2
  <2>8. Used' = x + SumOf(LengthsOf(held')) + SumOf(pfq') + lost' + t
    BY <1>3, <1>4, <2>1 DEF Used
  <2>9. Used' = Used
    BY <1>4, <1>5, <2>6, <2>7, <2>8
  <2> QED
    BY <1>2, <2>7, <2>9 DEF SpaceInv
<1> QED
  BY <1>6, <1>7

LEMMA SpaceInit == Init => SpaceInv
<1> SUFFICES ASSUME Init PROVE SpaceInv
  OBVIOUS
<1>1. /\ prq = <<>> /\ pfq = <<>> /\ held = <<>> /\ lost = 0 /\ buf_wptr = 0 /\ buf_rptr = 0
      /\ buf_ff = 0 /\ state = "STARTUP" /\ prq_stb = 0
  BY DEF Init
<1>2. Used = 0
  BY <1>1, LengthsNone, SumEmpty DEF Used, Taking, Receiving
<1>3. BUF_SIZE \in Nat \ {0} /\ (0 + 0) % BUF_SIZE = 0
  BY Sizes
<1> QED
  BY <1>1, <1>2, <1>3 DEF SpaceInv

LEMMA SpaceStep ==
  ASSUME GAP >= 2
  PROVE  Inv6 /\ SpaceInv /\ [Next]_vars => SpaceInv'
<1> SUFFICES ASSUME Inv6, SpaceInv, [Next]_vars PROVE SpaceInv'
  OBVIOUS
<1>1. Inv5 /\ TypeInv
  BY DEF Inv6, Inv5, Inv4, Inv3
<1>2. CASE Rx
  <2>1. PICK b : Works(b) /\ Cases(b)
    BY <1>2, RxIs
  <2> QED
    BY <1>1, <2>1, SpaceRx
<1>3. CASE RxGet \/ RxFree
  BY <1>1, <1>3, SpaceFirmware
<1>4. CASE UNCHANGED vars
  <2>1. UNCHANGED <<pfq, prq, held, lost, buf_rptr, buf_wptr, buf_ff, prq_len, prq_stb, state>>
    BY <1>4 DEF vars, fe
  <2>2. Used' = Used
    BY <2>1 DEF Used, Taking, Receiving
  <2> QED
    BY <2>1, <2>2 DEF SpaceInv
<1> QED
  BY <1>2, <1>3, <1>4 DEF Next

LEMMA OutstandingIs ==
  ASSUME TypeInv
  PROVE  Outstanding = Used
<1>1. prq \in Seq(Descriptors) /\ held \in Seq(Descriptors) /\ Len(held) <= 1
  BY DEF TypeInv, QueueType
<1>2. PICK x \in Nat, h \in Nat : x = SumOf(LengthsOf(prq)) /\ h = SumOf(LengthsOf(held))
  BY SumTypes
<1>3. SumOf(LengthsOf(Announced)) = x + h
  <2>1. CASE held = <<>>
    <3>1. Announced = prq
      BY <1>1, <2>1, ConcatEmptySeq DEF Announced
    <3> QED
      BY <1>2, <2>1, <3>1, LengthsNone
  <2>2. CASE held # <<>>
    <3>0. Len(held) \in Nat \ {0} /\ held[1] \in Descriptors /\ Len(held) <= 1
      BY <1>1, <2>2, Popped
    <3>1. Len(held) = 1 /\ held[1] \in Descriptors
      <4>1. PICK k \in Nat \ {0} : k = Len(held)
        BY <3>0
      <4>2. k <= 1
        BY <3>0, <4>1
      <4> QED
        BY <3>0, <4>1, <4>2
    <3>2. PICK d \in Descriptors : d = held[1]
      BY <3>1
    <3>3. held = <<d>>
      <4>1. <<d>> \in Seq(Descriptors) /\ Len(<<d>>) = 1 /\ <<d>>[1] = d
        OBVIOUS
      <4>2. \A i \in 1 .. Len(held) : held[i] = <<d>>[i]
        BY <3>1, <3>2, <4>1
      <4> QED
        BY <1>1, <3>1, <4>1, <4>2, SeqEqual
    <3>4. Announced = Append(prq, d)
      <4>1. PICK u, v, n : u = Announced /\ v = Append(prq, d) /\ n = Len(prq)
        OBVIOUS
      <4>2. v \in Seq(Descriptors) /\ Len(v) = n + 1 /\ n \in Nat /\ (\A i \in 1 .. n : v[i] = prq[i]) /\ v[n + 1] = d
        BY <1>1, <4>1, Pushed
      <4>3. /\ u \in Seq(Descriptors) /\ Len(u) = n + 1
            /\ \A i \in 1 .. n + 1 : u[i] = IF i <= n THEN prq[i] ELSE held[i - n]
        <5>1. /\ u \in Seq(Descriptors) /\ Len(u) = Len(prq) + Len(held)
              /\ \A i \in 1 .. Len(prq) + Len(held) : u[i] = IF i <= Len(prq) THEN prq[i] ELSE held[i - Len(prq)]
          BY <1>1, <4>1, ConcatProperties DEF Announced
        <5> QED
          BY <3>1, <4>1, <5>1
      <4>4. ASSUME NEW i \in 1 .. n + 1 PROVE u[i] = v[i]
        <5>1. CASE i \in 1 .. n
          BY <4>2, <4>3, <5>1
        <5>2. CASE i = n + 1
          <6>1. ~(i <= n) /\ i - n = 1
            BY <4>2, <5>2
          <6> QED
            BY <3>2, <4>2, <4>3, <5>2, <6>1
        <5> QED
          BY <4>2, <5>1, <5>2
      <4>5. u = v
        BY <4>2, <4>3, <4>4, SeqEqual
      <4> QED
        BY <4>1, <4>5
    <3>5. h = d.len
      BY <1>2, <3>2, <3>3, LengthsOne
    <3> QED
      BY <1>1, <1>2, <3>4, <3>5, LengthsPush
  <2> QED
    BY <2>1, <2>2
<1>4. Taking = IF state \in {"PKT", "FCS"} \/ prq_stb = 1 THEN prq_len ELSE 0
  BY DEF Taking, Receiving
<1> QED
  BY <1>2, <1>3, <1>4 DEF Outstanding, Used

\* With gaps of two cycles and more, and for a ring and queues of any size, the
\* ring neither forgets nor invents space: its pointers differ by exactly what
\* is announced, held, on its way back, lost or being received, and the full
\* flag tells full from empty (SpaceIsAccounted).
THEOREM NoSpaceIsForgotten == ASSUME GAP >= 2 PROVE Spec => []SpaceIsAccounted
<1>1. Inv6 /\ SpaceInv => SpaceIsAccounted
  <2> SUFFICES ASSUME Inv6, SpaceInv PROVE SpaceIsAccounted
    OBVIOUS
  <2>0. PICK B \in Nat \ {0} : B = BUF_SIZE
    BY Sizes
  <2>1. TypeInv
    BY DEF Inv6, Inv5, Inv4, Inv3
  <2>2. PICK r \in 0 .. B - 1, w \in 0 .. B - 1 : r = buf_rptr /\ w = buf_wptr
    BY <2>0, <2>1, Sizes DEF TypeInv, RingType, ReclaimType
  <2>3. PICK o \in Nat : o = Outstanding /\ o = Used
    BY <2>1, OutstandingIs, SumTypes DEF SpaceInv
  <2>4. /\ o <= B /\ (r + o) % B = w /\ (buf_ff = 0 => o < B) /\ (buf_ff = 1 /\ w = r => o = B)
        /\ buf_ff \in {0, 1}
    BY <2>0, <2>1, <2>2, <2>3 DEF SpaceInv, TypeInv, RingType
  <2>5. (w - r - o) % B = 0
    <3>1. PICK y \in Nat : y = r + o
      OBVIOUS
    <3>2. PICK q \in Nat : \E s \in 0 .. B - 1 : y = q * B + s /\ y % B = s
      BY Quotient
    <3>3. y = q * B + w
      BY <2>4, <3>1, <3>2
    <3>4. PICK k \in Int : k = -q
      OBVIOUS
    <3>5. k * B = -(q * B)
      BY <3>4
    <3>6. w - r - o = k * B
      BY <3>1, <3>3, <3>5
    <3>7. (k * B) % B = 0
      OBVIOUS
    <3> QED
      BY <3>6, <3>7
  <2>6. w = r => (buf_ff = 1 <=> o = B)
    <3>1. w = r => o = 0 \/ o = B
      BY <2>4, SamePlace
    <3> QED
      BY <2>4, <3>1
  <2> QED
    BY <2>0, <2>2, <2>3, <2>4, <2>5, <2>6 DEF SpaceIsAccounted
<1>2. Spec => []Inv6
  BY RingOrder
<1>3. Inv6 /\ SpaceInv /\ [Next]_vars => SpaceInv'
  BY SpaceStep
<1> QED
  BY <1>1, <1>2, <1>3, SpaceInit, PTL DEF Spec
=============================================================================
