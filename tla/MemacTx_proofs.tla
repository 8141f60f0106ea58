---------------------------- MODULE MemacTx_proofs ----------------------------
(***************************************************************************)
(* The transmit path, for any number of services, any layout of their      *)
(* rooms in the buffer, any depth of the two queues and replies of any     *)
(* length, also of those that are longer than their room.                  *)
(***************************************************************************)
EXTENDS MemacTx, SequenceTheorems, TLAPS

(***************************************************************************)
(* What the queues carry: the index tells the service; the length need not *)
(* fit.  A proper one does.                                                *)
(***************************************************************************)
Desc == {d \in [idx : Nat, len : 0 .. QUEUE_LEN-1] : \E s \in Services : d.idx = idx[s]}
Proper(d) == d.len >= 1 /\ d.idx + d.len <= BUF_SIZE

\* A queue after a push: the new element is behind the others.
LEMMA Pushed ==
  ASSUME NEW S, NEW q \in Seq(S), NEW x \in S
  PROVE  /\ Append(q, x) \in Seq(S) /\ Len(Append(q, x)) = Len(q) + 1 /\ Len(q) \in Nat
         /\ \A i \in 1 .. Len(q) : Append(q, x)[i] = q[i]
         /\ Append(q, x)[Len(q) + 1] = x
BY AppendProperties, LenProperties

\* A queue after a pop: every other element is one place nearer.
LEMMA Popped ==
  ASSUME NEW S, NEW q \in Seq(S), q # <<>>
  PROVE  /\ Tail(q) \in Seq(S) /\ Len(Tail(q)) = Len(q) - 1 /\ Len(q) \in Nat \ {0}
         /\ \A i \in 1 .. Len(q) - 1 : Tail(q)[i] = q[i + 1]
         /\ q[1] \in S
BY HeadTailProperties, EmptySeq, LenProperties, ElementOfSeq

LEMMA InSeq ==
  ASSUME NEW S, NEW q \in Seq(S)
  PROVE  Len(q) \in Nat /\ \A i \in 1 .. Len(q) : q[i] \in S
BY LenProperties, ElementOfSeq

LEMMA ModRange ==
  ASSUME NEW B \in Nat \ {0}, NEW x \in Int
  PROVE  x % B \in 0 .. B - 1
OBVIOUS

LEMMA ModSmall ==
  ASSUME NEW B \in Nat \ {0}, NEW x \in 0 .. B - 1
  PROVE  x % B = x
OBVIOUS

LEMMA Sizes ==
  /\ BUF_SIZE \in Nat \ {0} /\ QUEUE_LEN \in Nat \ {0} /\ DESC_LEN \in Nat \ {0}
  /\ QUEUE_LEN <= DESC_LEN
  /\ \A s \in Services : /\ idx[s] \in 0 .. BUF_SIZE - 1 /\ room[s] \in 1 .. QUEUE_LEN - 1
                         /\ idx[s] + room[s] <= BUF_SIZE
<1>1. ASSUME NEW s \in Services
      PROVE  /\ idx[s] \in 0 .. BUF_SIZE - 1 /\ room[s] \in 1 .. QUEUE_LEN - 1
             /\ idx[s] + room[s] <= BUF_SIZE
  <2>1. /\ idx[s] \in Nat /\ room[s] \in Nat \ {0} /\ idx[s] + room[s] <= BUF_SIZE
        /\ room[s] < QUEUE_LEN /\ BUF_SIZE \in Nat /\ QUEUE_LEN \in Nat
    BY TxAssumption
  <2> QED
    BY <2>1
<1>2. 1 \in Services
  BY TxAssumption DEF Services
<1>3. BUF_SIZE \in Nat /\ QUEUE_LEN \in Nat /\ DESC_LEN \in Nat /\ QUEUE_LEN <= DESC_LEN
  BY TxAssumption
<1> QED
  BY <1>1, <1>2, <1>3

\* The rooms of two replies never share a place of the buffer.
LEMMA Apart ==
  ASSUME NEW s \in Services, NEW t \in Services, s # t, NEW n \in 1 .. room[s], NEW m \in 1 .. room[t],
         NEW i \in idx[s] .. idx[s] + n - 1
  PROVE  i \notin idx[t] .. idx[t] + m - 1
<1>1. /\ idx[s] \in Nat /\ idx[t] \in Nat /\ room[s] \in Nat /\ room[t] \in Nat
      /\ idx[t] \notin idx[s] .. idx[s] + room[s] - 1 /\ idx[s] \notin idx[t] .. idx[t] + room[t] - 1
  BY TxAssumption
<1> QED
  BY <1>1

LEMMA DistinctPlaces ==
  ASSUME NEW s \in Services, NEW t \in Services, idx[s] = idx[t]
  PROVE  s = t
<1>1. /\ idx[s] \in Nat /\ room[s] \in Nat \ {0}
      /\ s # t => idx[t] \notin idx[s] .. idx[s] + room[s] - 1
  BY TxAssumption
<1>2. idx[s] \in idx[s] .. idx[s] + room[s] - 1
  BY <1>1
<1> QED
  BY <1>1, <1>2

LEMMA DescIsReply ==
  ASSUME NEW d \in Desc
  PROVE  /\ d.idx \in 0 .. BUF_SIZE - 1 /\ d.len \in 0 .. QUEUE_LEN - 1
         /\ d = [idx |-> d.idx, len |-> d.len]
<1>1. PICK s \in Services : d.idx = idx[s]
  BY DEF Desc
<1>2. idx[s] \in 0 .. BUF_SIZE - 1
  BY Sizes
<1> QED
  BY <1>1, <1>2 DEF Desc

LEMMA DescOf ==
  ASSUME NEW s \in Services, len[s] \in Nat
  PROVE  D(s) \in Desc /\ D(s).idx = idx[s] /\ D(s).len = len[s] % QUEUE_LEN
<1>1. QUEUE_LEN \in Nat \ {0} /\ idx[s] \in Nat /\ len[s] \in Int
  BY Sizes
<1>2. len[s] % QUEUE_LEN \in 0 .. QUEUE_LEN - 1
  BY <1>1, ModRange
<1> QED
  BY <1>1, <1>2 DEF D, Desc

\* A reply that keeps to its room.
LEMMA Fits ==
  ASSUME NEW s \in Services, NEW n \in 1 .. room[s]
  PROVE  /\ n \in Nat \ {0} /\ idx[s] + n <= BUF_SIZE /\ idx[s] \in Nat
         /\ n % QUEUE_LEN = n /\ n % DESC_LEN = n
<1>1. PICK q \in Nat \ {0}, d \in Nat \ {0} : q = QUEUE_LEN /\ d = DESC_LEN /\ q <= d
  BY Sizes
<1>2. PICK r \in Nat : r = room[s] /\ r <= q - 1 /\ idx[s] + r <= BUF_SIZE /\ idx[s] \in Nat /\ BUF_SIZE \in Nat
  BY <1>1, Sizes
<1>3. n \in 0 .. q - 1 /\ n \in 0 .. d - 1 /\ n \in Nat \ {0}
  BY <1>1, <1>2
<1>4. n % q = n /\ n % d = n
  BY <1>1, <1>3, ModSmall
<1>5. idx[s] + n <= BUF_SIZE
  BY <1>2
<1> QED
  BY <1>1, <1>2, <1>3, <1>4, <1>5

LEMMA FittingIs ==
  ASSUME NEW s \in Services, NEW n \in Fitting(s)
  PROVE  n \in 1 .. room[s]
<1>1. n \in Nat \ {0} /\ n <= room[s] /\ room[s] \in Nat
  BY TxAssumption DEF Fitting
<1> QED
  BY <1>1

\* The word of the buffer that a byte is read with lies in the buffer.
LEMMA WordFits ==
  ASSUME NEW i \in 0 .. BUF_SIZE - 1, NEW k \in 0 .. 3
  PROVE  4 * (i \div 4) + k \in 0 .. BUF_SIZE - 1
<1>1. BUF_SIZE \in Nat /\ BUF_SIZE % 4 = 0
  BY TxAssumption
<1> QED
  BY <1>1

(***************************************************************************)
(* The first invariant: types, with those of the queues, and the counters  *)
(* of the front end, which keep to the packet of desc if that is proper.   *)
(***************************************************************************)
CountInv ==
  /\ fe_state = "PRE" => count < PRE_LEN
  /\ fe_state = "FCS" => count < 4
  /\ fe_state = "IPG" => count < 10
  /\ fe_state \in {"IDLE", "PKT", "FIN"} => count = 0

ReadInv ==
  /\ buf_re = 1 <=> fe_state = "PKT"
  /\ fe_state \in {"PRE", "PKT"} \/ pfq_stb = 1 => desc \in Desc
  /\ fe_state = "PRE" => buf_len = desc.len /\ buf_idx = desc.idx
  /\ fe_state = "PKT" /\ Proper(desc) =>
       buf_len \in 1 .. desc.len /\ buf_idx = desc.idx + desc.len - buf_len

ByteInv ==
  /\ buf = [i \in 0 .. BUF_SIZE-1 |-> buf[i]]
  /\ \A i \in 0 .. BUF_SIZE-1 : buf[i] # Idle
  /\ \A k \in 0 .. 3 : word[k] # Idle
  /\ bsel \in 0 .. 3 /\ buf_d # Idle /\ crc_q # Idle

QueueType ==
  /\ prq \in Seq(Desc) /\ pfq \in Seq(Desc)
  /\ prq_stb = 1 => fe_state = "PRE" /\ prq # <<>>

TypeInv == TypeOK /\ CountInv /\ ReadInv /\ ByteInv /\ QueueType

LEMMA InitType == Init => TypeInv
<1> SUFFICES ASSUME Init PROVE TypeInv
  OBVIOUS
<1>1. len \in [Services -> 0 .. DESC_LEN-1]
  <2>1. \A s \in Services : room[s] \in 0 .. DESC_LEN-1
    BY Sizes
  <2>2. len = room /\ DOMAIN room = Services /\ room = [s \in Services |-> room[s]]
    BY TxAssumption DEF Init
  <2> QED
    BY <2>1, <2>2
<1>2. /\ unhandled = FALSE /\ spilt = FALSE /\ buf = [i \in 0 .. BUF_SIZE-1 |-> Blank]
      /\ st = [s \in Services |-> "FREE"] /\ build = [s \in Services |-> 0]
      /\ prq = <<>> /\ pfq = <<>>
      /\ fe_state = "IDLE" /\ count = 0 /\ prq_stb = 0 /\ pfq_stb = 0
      /\ desc = NoDesc /\ buf_re = 0 /\ buf_len = 0 /\ buf_idx = 0
      /\ word = [i \in 0 .. 3 |-> Blank] /\ bsel = 0 /\ buf_d = Blank
      /\ crc_q = <<<<>>, 0>> /\ gap = 12
  BY DEF Init
<1>3. TypeOK
  <2>1. 0 \in 0 .. QUEUE_LEN-1 /\ 0 \in 0 .. BUF_SIZE - 1
    BY Sizes
  <2>2. desc.idx \in 0 .. BUF_SIZE-1 /\ desc.len \in 0 .. QUEUE_LEN-1
    BY <1>2, <2>1 DEF NoDesc
  <2>3. buf_len \in 0 .. QUEUE_LEN-1
    BY <1>2, <2>1
  <2>4. Len(prq) <= PRQ_SIZE /\ Len(pfq) <= PFQ_SIZE
    <3>1. Len(prq) = 0 /\ Len(pfq) = 0
      BY <1>2
    <3> QED
      BY <3>1, TxAssumption
  <2>5. st \in [Services -> {"FREE", "PEND", "RSVD"}] /\ build \in [Services -> 0 .. 1]
    BY <1>2
  <2>6. prq_stb \in 0 .. 1 /\ pfq_stb \in 0 .. 1 /\ buf_re \in 0 .. 1
    BY <1>2
  <2>10. unhandled \in BOOLEAN /\ spilt \in BOOLEAN
    BY <1>2, Zenon
  <2>7. fe_state \in {"IDLE", "PRE", "PKT", "FCS", "IPG", "FIN"} /\ count \in 0 .. 15
    BY <1>2
  <2>8. buf_idx \in 0 .. BUF_SIZE-1 /\ gap \in 0 .. 12
    BY <1>2, <2>1
  <2> QED
    BY <1>1, <2>2, <2>3, <2>4, <2>5, <2>6, <2>7, <2>8, <2>10 DEF TypeOK
<1>4. CountInv /\ ReadInv
  BY <1>2 DEF CountInv, ReadInv
<1>5. ByteInv
  BY <1>2 DEF ByteInv, Blank, Idle
<1>6. QueueType
  BY <1>2, EmptySeq DEF QueueType
<1> QED
  BY <1>3, <1>4, <1>5, <1>6 DEF TypeInv

\* What the statements after the case do, in every cycle.
LEMMA PipelineType ==
  ASSUME TypeInv, Pipeline, buf_idx' \in 0 .. BUF_SIZE - 1
  PROVE  /\ ByteInv' /\ gap' \in 0 .. 12
         /\ prq' \in Seq(Desc) /\ pfq' \in Seq(Desc)
         /\ Len(prq') <= PRQ_SIZE /\ Len(pfq') <= PFQ_SIZE
         /\ prq_stb # 1 => prq' = prq
<1>1. /\ buf_idx \in 0 .. BUF_SIZE - 1 /\ gap \in 0 .. 12
      /\ prq \in Seq(Desc) /\ pfq \in Seq(Desc)
      /\ Len(prq) <= PRQ_SIZE /\ Len(pfq) <= PFQ_SIZE
      /\ prq_stb = 1 => prq # <<>>
      /\ pfq_stb = 1 => desc \in Desc
      /\ PRQ_SIZE \in Nat /\ PFQ_SIZE \in Nat
  BY TxAssumption DEF TypeInv, TypeOK, QueueType, ReadInv
<1>2. ByteInv'
  <2>1. buf' = [i \in 0 .. BUF_SIZE-1 |-> buf'[i]] /\ \A i \in 0 .. BUF_SIZE-1 : buf'[i] # Idle
    BY DEF Pipeline, fw, TypeInv, ByteInv
  <2>2. \A k \in 0 .. 3 : word'[k] # Idle
    <3> SUFFICES ASSUME NEW k \in 0 .. 3 PROVE word'[k] # Idle
      OBVIOUS
    <3>1. 4 * (buf_idx \div 4) + k \in 0 .. BUF_SIZE - 1
      BY <1>1, WordFits
    <3>2. buf[4 * (buf_idx \div 4) + k] # Idle
      BY <3>1 DEF TypeInv, ByteInv
    <3> QED
      BY <3>2 DEF Pipeline, Buffer, TypeInv, ByteInv
  <2>3. bsel' \in 0 .. 3
    <3>1. bsel' = buf_idx % 4 \/ bsel' = buf_idx' % 4
      BY DEF Pipeline, Buffer
    <3>2. buf_idx \in Nat /\ buf_idx' \in Nat
      BY <1>1
    <3>3. \A x \in Nat : x % 4 \in 0 .. 3
      OBVIOUS
    <3> QED
      BY <3>1, <3>2, <3>3, Zenon
  <2>4. buf_d' # Idle
    BY DEF Pipeline, Data, TypeInv, ByteInv
  <2>5. crc_q' # Idle
    BY DEF Pipeline, Data, Idle
  <2> QED
    BY <2>1, <2>2, <2>3, <2>4, <2>5 DEF ByteInv
<1>3. gap' \in 0 .. 12
  <2>1. gap' = 0 \/ (gap < 12 /\ gap' = gap + 1) \/ gap' = gap
    <3>1. Data
      BY DEF Pipeline
    <3>2. gap' = IF umi' # Idle THEN 0 ELSE IF gap < 12 THEN gap + 1 ELSE gap
      BY <3>1, Zenon DEF Data
    <3> QED
      BY <3>2
  <2>2. gap \in 0 .. 12
    BY <1>1
  <2>3. 0 \in 0 .. 12 /\ (gap < 12 => gap + 1 \in 0 .. 12)
    BY <2>2
  <2> QED
    BY <2>1, <2>2, <2>3, Zenon
<1>4. prq' \in Seq(Desc) /\ Len(prq') <= PRQ_SIZE /\ (prq_stb # 1 => prq' = prq)
  <2>1. CASE prq_stb = 1
    BY <2>1, <1>1, Popped DEF Pipeline, Queues
  <2>2. CASE prq_stb # 1
    BY <2>2, <1>1 DEF Pipeline, Queues
  <2> QED
    BY <2>1, <2>2
<1>5. pfq' \in Seq(Desc) /\ Len(pfq') <= PFQ_SIZE
  <2>1. CASE pfq_stb = 1 /\ Len(pfq) < PFQ_SIZE
    BY <2>1, <1>1, Pushed DEF Pipeline, Queues
  <2>2. CASE ~(pfq_stb = 1 /\ Len(pfq) < PFQ_SIZE)
    BY <2>2, <1>1 DEF Pipeline, Queues
  <2> QED
    BY <2>1, <2>2
<1> QED
  BY <1>2, <1>3, <1>4, <1>5

\* The registers of P_MAIN.
LEMMA MainType ==
  ASSUME TypeInv, FeIdle \/ FeStay \/ FePre \/ FePkt \/ FeFcs \/ FeIpg \/ FeFin
  PROVE  /\ fe_state' \in {"IDLE", "PRE", "PKT", "FCS", "IPG", "FIN"} /\ count' \in 0 .. 15
         /\ prq_stb' \in 0 .. 1 /\ pfq_stb' \in 0 .. 1 /\ buf_re' \in 0 .. 1
         /\ desc'.idx \in 0 .. BUF_SIZE - 1 /\ desc'.len \in 0 .. QUEUE_LEN - 1
         /\ buf_len' \in 0 .. QUEUE_LEN - 1
         /\ buf_idx' \in 0 .. BUF_SIZE - 1
         /\ CountInv' /\ ReadInv'
         /\ prq_stb' = 1 => fe_state' = "PRE" /\ prq # <<>> /\ prq_stb # 1
<1>1. /\ fe_state \in {"IDLE", "PRE", "PKT", "FCS", "IPG", "FIN"} /\ count \in 0 .. 15
      /\ prq_stb \in 0 .. 1 /\ pfq_stb \in 0 .. 1 /\ buf_re \in 0 .. 1
      /\ desc.idx \in 0 .. BUF_SIZE - 1 /\ desc.len \in 0 .. QUEUE_LEN - 1
      /\ buf_len \in 0 .. QUEUE_LEN - 1
      /\ buf_idx \in 0 .. BUF_SIZE - 1
      /\ PRE_LEN \in 2 .. 15 /\ FCS_AUTO \in {0, 1} /\ BUF_SIZE \in Nat
      /\ prq \in Seq(Desc)
      /\ prq_stb = 1 => fe_state = "PRE"
  BY TxAssumption DEF TypeInv, TypeOK, QueueType
<1>2. CountInv /\ ReadInv
  BY DEF TypeInv
<1>3. CASE FeIdle
  <2>1. prq[1] \in Desc /\ prq # <<>>
    BY <1>1, <1>3, Popped DEF FeIdle
  <2>2. /\ fe_state = "IDLE" /\ fe_state' = "PRE" /\ count' = 0 /\ desc' = prq[1]
        /\ prq_stb' = 1 /\ pfq_stb' = 0 /\ buf_re' = 0
        /\ buf_len' = prq[1].len /\ buf_idx' = prq[1].idx
    BY <1>2, <1>3, <1>1 DEF FeIdle, Go, Read, ReadInv
  <2>3. prq[1].idx \in 0 .. BUF_SIZE - 1 /\ prq[1].len \in 0 .. QUEUE_LEN - 1
    BY <2>1, DescIsReply
  <2>5. CountInv'
    <3>1. 0 < PRE_LEN
      BY <1>1
    <3> QED
      BY <2>2, <3>1 DEF CountInv
  <2>6. ReadInv'
    BY <2>2, <2>1 DEF ReadInv
  <2> QED
    BY <2>1, <2>2, <2>3, <2>5, <2>6, <1>1
<1>4. CASE FeStay \/ FeFin
  <2>1. /\ fe_state \in {"IDLE", "FIN"} /\ fe_state' \in {"IDLE", "FIN"} /\ count' = count /\ desc' = desc
        /\ prq_stb' = 0 /\ pfq_stb' = 0 /\ buf_re' = 0 /\ buf_re # 1
        /\ buf_len' = buf_len /\ buf_idx' = buf_idx
    BY <1>1, <1>2, <1>4 DEF FeStay, FeFin, Go, Keep, Read, ReadInv
  <2>2. CountInv'
    BY <2>1, <1>2 DEF CountInv
  <2>3. ReadInv'
    BY <2>1, <1>2 DEF ReadInv, Proper
  <2> QED
    BY <2>1, <2>2, <2>3, <1>1
<1>5. CASE FePre
  <2>1. /\ fe_state = "PRE" /\ desc' = desc /\ prq_stb' = 0 /\ pfq_stb' = 0 /\ buf_re # 1
        /\ buf_len' = buf_len /\ buf_idx' = buf_idx /\ count < PRE_LEN
        /\ \/ fe_state' = "PRE" /\ count' = count + 1 /\ count # PRE_LEN - 1 /\ buf_re' = buf_re
           \/ fe_state' = "PKT" /\ count' = 0 /\ buf_re' = 1
    <3>1. fe_state = "PRE" /\ desc' = desc /\ prq_stb' = 0 /\ pfq_stb' = 0
      BY <1>5 DEF FePre
    <3>2. buf_re # 1 /\ count < PRE_LEN
      BY <1>2, <3>1 DEF ReadInv, CountInv
    <3>3. buf_len' = buf_len /\ buf_idx' = buf_idx
      BY <1>5, <3>2 DEF FePre, Keep, Read
    <3>4. CASE count = PRE_LEN - 1
      <4>1. fe_state' = "PKT" /\ count' = 0 /\ buf_re' = 1
        BY <1>1, <1>5, <3>4 DEF FePre, Go, Keep, Read
      <4> QED
        BY <3>1, <3>2, <3>3, <4>1
    <3>5. CASE count # PRE_LEN - 1
      <4>1. fe_state' = "PRE" /\ count' = count + 1 /\ buf_re' = buf_re
        BY <1>5, <3>5 DEF FePre, Go, Keep, Read
      <4> QED
        BY <3>1, <3>2, <3>3, <3>5, <4>1
    <3> QED
      BY <3>4, <3>5
  <2>2. CountInv' /\ count' \in 0 .. 15
    <3>1. CASE fe_state' = "PRE" /\ count' = count + 1 /\ count # PRE_LEN - 1
      <4>1. count' \in 0 .. 15 /\ count' < PRE_LEN
        BY <2>1, <1>1, <3>1
      <4> QED
        BY <3>1, <4>1 DEF CountInv
    <3>2. CASE fe_state' = "PKT" /\ count' = 0
      BY <3>2 DEF CountInv
    <3> QED
      BY <2>1, <3>1, <3>2
  <2>3. ReadInv'
    <3>1. desc \in Desc /\ desc.len \in Nat /\ desc.idx \in Nat /\ buf_len = desc.len /\ buf_idx = desc.idx
      BY <1>2, <2>1, DescIsReply DEF ReadInv
    <3>2. Proper(desc) => desc.len \in 1 .. desc.len /\ desc.idx = desc.idx + desc.len - desc.len
      BY <3>1 DEF Proper
    <3> QED
      BY <2>1, <3>1, <3>2, <1>1 DEF ReadInv, Proper
  <2>4. fe_state' \in {"IDLE", "PRE", "PKT", "FCS", "IPG", "FIN"} /\ buf_re' \in 0 .. 1
    BY <2>1, <1>1
  <2>5. /\ desc'.idx \in 0 .. BUF_SIZE - 1 /\ desc'.len \in 0 .. QUEUE_LEN - 1
        /\ prq_stb' = 0 /\ pfq_stb' = 0
        /\ buf_len' \in 0 .. QUEUE_LEN - 1 /\ buf_idx' \in 0 .. BUF_SIZE - 1
    BY <2>1, <1>1, Zenon
  <2> QED
    BY <2>2, <2>3, <2>4, <2>5
<1>6. CASE FePkt
  <2>1. /\ fe_state = "PKT" /\ desc' = desc /\ prq_stb' = 0 /\ buf_re = 1 /\ count = 0 /\ count' = 0
        /\ buf_len' = (buf_len - 1) % QUEUE_LEN /\ buf_idx' = (buf_idx + 1) % BUF_SIZE
        /\ desc \in Desc
        /\ Proper(desc) => buf_len \in 1 .. desc.len /\ buf_idx = desc.idx + desc.len - buf_len
        /\ \/ buf_len = 1 /\ fe_state' \in {"FCS", "IPG"} /\ pfq_stb' = 1 /\ buf_re' = 0
           \/ buf_len # 1 /\ fe_state' = "PKT" /\ pfq_stb' = 0 /\ buf_re' = 1
    BY <1>1, <1>2, <1>6 DEF FePkt, Go, Keep, Read, ReadInv, CountInv
  <2>2. PICK m \in Nat \ {0}, k \in Nat \ {0} : m = BUF_SIZE /\ k = QUEUE_LEN
    BY Sizes
  <2>3. PICK x \in Nat, y \in Nat : x = buf_idx /\ y = buf_len
    BY <1>1
  <2>4. buf_len' \in 0 .. QUEUE_LEN - 1
    <3>1. y - 1 \in Int
      OBVIOUS
    <3>2. (y - 1) % k \in 0 .. k - 1
      BY <3>1, ModRange
    <3> QED
      BY <2>1, <2>2, <2>3, <3>2
  <2>5. buf_idx' \in 0 .. BUF_SIZE - 1
    <3>1. x + 1 \in Int
      OBVIOUS
    <3>2. (x + 1) % m \in 0 .. m - 1
      BY <3>1, ModRange
    <3> QED
      BY <2>1, <2>2, <2>3, <3>2
  <2>6. CountInv'
    BY <2>1, <1>1 DEF CountInv
  <2>7. ReadInv'
    <3>1. CASE buf_len = 1
      BY <2>1, <3>1 DEF ReadInv
    <3>2. CASE buf_len # 1
      <4>1. ASSUME Proper(desc)
            PROVE  buf_len' \in 1 .. desc.len /\ buf_idx' = desc.idx + desc.len - buf_len'
        <5>1. PICK i \in Nat, n \in Nat : i = desc.idx /\ n = desc.len /\ n < k
          BY <1>1, <2>2
        <5>2. y \in 2 .. n /\ x = i + n - y /\ i + n <= m
          BY <2>1, <2>2, <2>3, <3>2, <4>1, <5>1 DEF Proper
        <5>3. x + 1 \in 0 .. m - 1 /\ y - 1 \in 0 .. k - 1
          BY <5>1, <5>2
        <5>4. (x + 1) % m = x + 1 /\ (y - 1) % k = y - 1
          BY <5>3, ModSmall
        <5>5. y - 1 \in 1 .. n /\ x + 1 = i + n - (y - 1)
          BY <5>2
        <5> QED
          BY <2>1, <2>2, <2>3, <5>1, <5>4, <5>5
      <4>2. Proper(desc') => Proper(desc)
        BY <2>1
      <4> QED
        BY <2>1, <3>2, <4>1, <4>2 DEF ReadInv
    <3> QED
      BY <3>1, <3>2
  <2> QED
    BY <2>1, <2>4, <2>5, <2>6, <2>7, <1>1
<1>7. CASE FeFcs \/ FeIpg
  <2>1. /\ fe_state \in {"FCS", "IPG"} /\ fe_state' \in {"FCS", "IPG", "FIN"} /\ desc' = desc
        /\ prq_stb' = 0 /\ pfq_stb' = 0 /\ buf_re' = buf_re /\ buf_re # 1
        /\ buf_len' = buf_len /\ buf_idx' = buf_idx
    BY <1>1, <1>2, <1>7 DEF FeFcs, FeIpg, Go, Keep, Read, ReadInv
  <2>2. CountInv' /\ count' \in 0 .. 15
    <3>1. CASE FeFcs
      <4>1. \/ fe_state' = "IPG" /\ count' = 0
            \/ fe_state' = "FCS" /\ count' = count + 1 /\ count # 3
        BY <3>1 DEF FeFcs, Go
      <4> QED
        <5>1. fe_state = "FCS" /\ count \in 0 .. 15
          BY <1>1, <3>1 DEF FeFcs
        <5>2. count < 4
          BY <1>2, <5>1 DEF CountInv
        <5>3. CASE fe_state' = "IPG" /\ count' = 0
          BY <5>3 DEF CountInv
        <5>4. CASE fe_state' = "FCS" /\ count' = count + 1 /\ count # 3
          <6>1. count' \in 0 .. 3
            BY <5>1, <5>2, <5>4
          <6> QED
            BY <6>1, <5>4 DEF CountInv
        <5> QED
          BY <4>1, <5>3, <5>4
    <3>2. CASE FeIpg
      <4>1. fe_state = "IPG" /\ count \in 0 .. 15 /\ count < 10
        BY <1>1, <1>2, <3>2 DEF FeIpg, CountInv
      <4>2. \/ fe_state' = "FIN" /\ count' = 0
            \/ fe_state' = "IPG" /\ count' = count + 1 /\ count # 9
        BY <3>2 DEF FeIpg, Go
      <4>3. count' \in 0 .. 15 /\ (fe_state' = "IPG" => count' < 10)
        BY <4>1, <4>2
      <4> QED
        BY <4>2, <4>3 DEF CountInv
    <3> QED
      BY <1>7, <3>1, <3>2
  <2>3. ReadInv'
    BY <2>1, <1>2 DEF ReadInv, Proper
  <2> QED
    BY <2>1, <2>2, <2>3, <1>1
<1> QED
  BY <1>3, <1>4, <1>5, <1>6, <1>7

LEMMA FeType == ASSUME TypeInv, Fe PROVE TypeInv'
<1>1. UNCHANGED <<st, len, build, unhandled, spilt>> /\ Pipeline
  BY DEF Fe, Pipeline, fw
<1>2. /\ CountInv' /\ ReadInv' /\ buf_idx' \in 0 .. BUF_SIZE - 1
      /\ prq_stb' = 1 => fe_state' = "PRE" /\ prq # <<>> /\ prq_stb # 1
  BY MainType DEF Fe
<1>3. ByteInv' /\ QueueType'
  BY <1>1, <1>2, PipelineType DEF QueueType
<1>4. TypeOK'
  BY <1>1, <1>2, PipelineType, MainType DEF Fe, TypeInv, TypeOK
<1> QED
  BY <1>2, <1>3, <1>4 DEF TypeInv

\* What Build does to the variables of the firmware.
LEMMA Builds ==
  ASSUME TypeInv, NEW s \in Services, NEW n \in Lens[s], Build(s, n)
  PROVE  /\ st' = [st EXCEPT ![s] = "PEND"] /\ len' = [len EXCEPT ![s] = n % DESC_LEN]
         /\ build' = [build EXCEPT ![s] = 1 - @]
         /\ buf' = [i \in 0 .. BUF_SIZE-1 |-> IF Written(s, n, i) = {} THEN buf[i]
                      ELSE <<s, build'[s], CHOOSE k \in Written(s, n, i) :
                                             \A j \in Written(s, n, i) : j <= k, n>>]
         /\ spilt' = (spilt \/ n > room[s])
         /\ UNCHANGED <<unhandled, prq, pfq, fe>>
         /\ n \in Nat \ {0} /\ n % DESC_LEN \in 0 .. DESC_LEN-1
<1>1. DOMAIN buf = 0 .. BUF_SIZE-1
  <2>1. buf = [i \in 0 .. BUF_SIZE-1 |-> buf[i]]
    BY DEF TypeInv, ByteInv
  <2> QED
    BY <2>1
<1>2. n \in Nat \ {0}
  BY TxAssumption
<1>3. n % DESC_LEN \in 0 .. DESC_LEN-1
  <2>1. n \in Int /\ DESC_LEN \in Nat \ {0}
    BY <1>2, Sizes
  <2> QED
    BY <2>1, ModRange
<1> QED
  BY <1>1, <1>2, <1>3 DEF Build

LEMMA FirmwareType == ASSUME TypeInv, Firmware PROVE TypeInv'
<1>1. /\ st \in [Services -> {"FREE", "PEND", "RSVD"}]
      /\ len \in [Services -> 0 .. DESC_LEN-1]
      /\ build \in [Services -> 0 .. 1]
      /\ prq \in Seq(Desc) /\ pfq \in Seq(Desc)
      /\ Len(prq) <= PRQ_SIZE /\ Len(pfq) <= PFQ_SIZE
      /\ prq_stb = 1 => fe_state = "PRE" /\ prq # <<>>
      /\ PRQ_SIZE \in Nat /\ PFQ_SIZE \in Nat
  BY TxAssumption DEF TypeInv, TypeOK, QueueType
<1>2. unhandled \in BOOLEAN /\ spilt \in BOOLEAN
  BY DEF TypeInv, TypeOK
<1>3. UNCHANGED fe
  BY DEF Firmware, TxFree, TxFreeNone, RxNone, TxSend, TxSendNone, RxRequest, Build
<1>4. CountInv' /\ ReadInv'
  BY <1>3 DEF fe, TypeInv, CountInv, ReadInv, Proper
<1>5. SUFFICES /\ st' \in [Services -> {"FREE", "PEND", "RSVD"}]
               /\ len' \in [Services -> 0 .. DESC_LEN-1]
               /\ build' \in [Services -> 0 .. 1] /\ unhandled' \in BOOLEAN /\ spilt' \in BOOLEAN
               /\ prq' \in Seq(Desc) /\ pfq' \in Seq(Desc)
               /\ Len(prq') <= PRQ_SIZE /\ Len(pfq') <= PFQ_SIZE
               /\ prq_stb = 1 => prq' # <<>>
               /\ buf' = [i \in 0 .. BUF_SIZE-1 |-> buf'[i]]
               /\ \A i \in 0 .. BUF_SIZE-1 : buf'[i] # Idle
  <2>1. TypeOK'
    BY <1>3, <1>5 DEF fe, TypeInv, TypeOK
  <2>2. ByteInv'
    BY <1>3, <1>5 DEF fe, TypeInv, ByteInv
  <2>3. QueueType'
    BY <1>1, <1>3, <1>5 DEF fe, QueueType
  <2> QED
    BY <1>4, <2>1, <2>2, <2>3 DEF TypeInv
<1>6. buf = [i \in 0 .. BUF_SIZE-1 |-> buf[i]] /\ \A i \in 0 .. BUF_SIZE-1 : buf[i] # Idle
  BY DEF TypeInv, ByteInv
<1>7. CASE TxFreeNone \/ RxNone \/ \E s \in Services : TxSendNone(s)
  <2>1. UNCHANGED <<st, len, build, unhandled, spilt, buf, prq, pfq>>
    BY <1>7 DEF TxFreeNone, RxNone, TxSendNone
  <2> QED
    BY <1>1, <1>2, <1>6, <2>1
<1>8. CASE TxFree
  <2>1. unhandled' \in BOOLEAN /\ UNCHANGED <<len, build, spilt, buf, prq>>
    BY <1>2, <1>8 DEF TxFree
  <2>2. pfq' \in Seq(Desc) /\ Len(pfq') <= PFQ_SIZE
    BY <1>1, <1>8, Popped DEF TxFree
  <2>3. st' \in [Services -> {"FREE", "PEND", "RSVD"}]
    BY <1>1, <1>8 DEF TxFree
  <2> QED
    BY <1>1, <1>2, <1>6, <2>1, <2>2, <2>3
<1>9. ASSUME NEW s \in Services, NEW n \in Lens[s], RxRequest(s, n)
      PROVE  /\ st' \in [Services -> {"FREE", "PEND", "RSVD"}]
             /\ len' \in [Services -> 0 .. DESC_LEN-1]
             /\ build' \in [Services -> 0 .. 1] /\ spilt' \in BOOLEAN
             /\ buf' = [i \in 0 .. BUF_SIZE-1 |-> buf'[i]]
             /\ \A i \in 0 .. BUF_SIZE-1 : buf'[i] # Idle
             /\ UNCHANGED <<unhandled, prq, pfq>>
  <2>1. Build(s, n)
    BY <1>9 DEF RxRequest
  <2>2. /\ st' = [st EXCEPT ![s] = "PEND"] /\ len' = [len EXCEPT ![s] = n % DESC_LEN]
        /\ build' = [build EXCEPT ![s] = 1 - @]
        /\ buf' = [i \in 0 .. BUF_SIZE-1 |-> IF Written(s, n, i) = {} THEN buf[i]
                     ELSE <<s, build'[s], CHOOSE k \in Written(s, n, i) :
                                            \A j \in Written(s, n, i) : j <= k, n>>]
        /\ spilt' = (spilt \/ n > room[s])
        /\ UNCHANGED <<unhandled, prq, pfq>>
        /\ n % DESC_LEN \in 0 .. DESC_LEN-1
    BY <2>1, Builds DEF fe
  <2>3. st' \in [Services -> {"FREE", "PEND", "RSVD"}]
    BY <1>1, <2>2
  <2>4. len' \in [Services -> 0 .. DESC_LEN-1]
    BY <1>1, <2>2
  <2>5. build' \in [Services -> 0 .. 1]
    BY <1>1, <2>2
  <2>6. \A i \in 0 .. BUF_SIZE-1 : buf'[i] # Idle
    BY <1>6, <2>2 DEF Idle
  <2>7. spilt' \in BOOLEAN
    BY <2>2, Zenon
  <2> QED
    BY <2>2, <2>3, <2>4, <2>5, <2>6, <2>7
<1>10. ASSUME NEW s \in Services, TxSend(s)
       PROVE  /\ st' \in [Services -> {"FREE", "PEND", "RSVD"}]
              /\ prq' \in Seq(Desc) /\ Len(prq') <= PRQ_SIZE /\ prq' # <<>>
              /\ UNCHANGED <<len, build, unhandled, spilt, buf, pfq>>
  <2>1. D(s) \in Desc
    BY <1>1, DescOf
  <2>2. prq' = Append(prq, D(s)) /\ Len(prq) < PRQ_SIZE
    BY <1>10 DEF TxSend
  <2>3. prq' \in Seq(Desc) /\ Len(prq') = Len(prq) + 1 /\ Len(prq) \in Nat
    BY <1>1, <2>1, <2>2, Pushed
  <2>4. prq' # <<>>
    BY <2>3, EmptySeq
  <2>5. st' \in [Services -> {"FREE", "PEND", "RSVD"}]
    BY <1>1, <1>10 DEF TxSend
  <2> QED
    BY <1>1, <1>10, <2>2, <2>3, <2>4, <2>5 DEF TxSend
<1>11. QED
  <2>1. CASE \E s \in Services : \E n \in Lens[s] : RxRequest(s, n)
    BY <2>1, <1>1, <1>2, <1>9
  <2>2. CASE \E s \in Services : TxSend(s)
    BY <2>2, <1>1, <1>2, <1>6, <1>10
  <2> QED
    BY <2>1, <2>2, <1>7, <1>8 DEF Firmware

(***************************************************************************)
(* The second invariant: a descriptor is in one place at a time (a queue,  *)
(* or the front end), belongs to a reply that is reserved, and there is    *)
(* room for it where it goes next.  One that has come back unclaimed left  *)
(* a reply behind that is too long for the queues' len, and stays so.      *)
(***************************************************************************)
Reserved(d) == \E s \in Services : st[s] = "RSVD" /\ d = D(s)

EachReserved ==
  /\ \A i \in 1 .. Len(prq) : Reserved(prq[i])
  /\ \A i \in 1 .. Len(pfq) : Reserved(pfq[i])
  /\ Holding => Reserved(desc)
EachOnce ==
  /\ \A i, j \in 1 .. Len(prq) : i # j => prq[i] # prq[j]
  /\ \A i, j \in 1 .. Len(pfq) : i # j => pfq[i] # pfq[j]
  /\ \A i \in 1 .. Len(prq), j \in 1 .. Len(pfq) : prq[i] # pfq[j]
  /\ Holding => \A j \in 1 .. Len(pfq) : pfq[j] # desc
  /\ Holding => \A i \in 1 .. Len(prq) : prq[i] = desc => i = 1 /\ prq_stb = 1
StrobeInv ==
  /\ prq_stb = 1 => fe_state = "PRE" /\ prq # <<>> /\ prq[1] = desc
  /\ pfq_stb = 1 => fe_state \in {"FCS", "IPG"}
RoomInv ==
  /\ fe_state \in {"IDLE", "PRE", "PKT"} \/ pfq_stb = 1 => Len(pfq) < PFQ_SIZE
  /\ unhandled => \E s \in Services : st[s] = "RSVD" /\ len[s] >= QUEUE_LEN
TokenInv == EachReserved /\ EachOnce /\ StrobeInv /\ RoomInv

\* Descriptors tell the services apart.
LEMMA DistinctReplies ==
  ASSUME NEW s \in Services, NEW t \in Services, D(s) = D(t)
  PROVE  s = t
<1>1. idx[s] = idx[t]
  BY DEF D
<1> QED
  BY <1>1, DistinctPlaces

\* memac_raw_tx_free knows the reply of a descriptor unless that is too long.
LEMMA OwnerIs ==
  ASSUME TypeInv, NEW s \in Services, st[s] = "RSVD"
  PROVE  /\ len[s] < QUEUE_LEN => Owner(D(s)) = {s}
         /\ len[s] >= QUEUE_LEN => Owner(D(s)) = {}
         /\ len[s] < QUEUE_LEN \/ len[s] >= QUEUE_LEN
<1>1. len[s] \in Nat /\ QUEUE_LEN \in Nat \ {0}
  BY Sizes DEF TypeInv, TypeOK
<1>2. D(s).idx = idx[s] /\ D(s).len = len[s] % QUEUE_LEN /\ D(s) = [idx |-> idx[s], len |-> len[s] % QUEUE_LEN]
  BY DEF D
<1>3. \A t \in Owner(D(s)) : t = s /\ len[s] % QUEUE_LEN = len[s]
  <2> SUFFICES ASSUME NEW t \in Services, D(s) = [idx |-> idx[t], len |-> len[t]]
               PROVE  t = s /\ len[s] % QUEUE_LEN = len[s]
    BY DEF Owner
  <2>1. idx[s] = idx[t] /\ len[t] = len[s] % QUEUE_LEN
    BY <1>2
  <2>2. s = t
    BY <2>1, DistinctPlaces
  <2> QED
    BY <2>1, <2>2
<1>4. ASSUME len[s] < QUEUE_LEN PROVE Owner(D(s)) = {s}
  <2>1. PICK x \in Nat, q \in Nat \ {0} : x = len[s] /\ q = QUEUE_LEN /\ x < q
    BY <1>1, <1>4
  <2>2. x \in 0 .. q - 1
    BY <2>1
  <2>3. x % q = x
    BY <2>2, ModSmall
  <2>4. D(s) = [idx |-> idx[s], len |-> len[s]]
    BY <1>2, <2>1, <2>3
  <2>5. s \in Owner(D(s))
    BY <2>4 DEF Owner
  <2> QED
    BY <1>3, <2>5
<1>5. ASSUME len[s] >= QUEUE_LEN PROVE Owner(D(s)) = {}
  <2>1. PICK x \in Nat, q \in Nat \ {0} : x = len[s] /\ q = QUEUE_LEN /\ x >= q
    BY <1>1, <1>5
  <2>2. x % q \in 0 .. q - 1
    BY ModRange
  <2>3. x % q # x
    BY <2>1, <2>2
  <2> QED
    BY <1>3, <2>1, <2>3
<1> QED
  BY <1>1, <1>4, <1>5

LEMMA InitToken == Init => TokenInv
<1> SUFFICES ASSUME Init PROVE TokenInv
  OBVIOUS
<1>1. /\ unhandled = FALSE /\ prq = <<>> /\ pfq = <<>>
      /\ fe_state = "IDLE" /\ prq_stb = 0 /\ pfq_stb = 0
  BY DEF Init
<1>2. Len(prq) = 0 /\ Len(pfq) = 0
  BY <1>1
<1> QED
  BY <1>1, <1>2, TxAssumption DEF TokenInv, EachReserved, EachOnce, StrobeInv, RoomInv, Holding

LEMMA FeToken == ASSUME TypeInv, TokenInv, Fe PROVE TokenInv'
<1>1. /\ st' = st /\ len' = len /\ unhandled' = unhandled
      /\ prq' = (IF prq_stb = 1 THEN Tail(prq) ELSE prq)
      /\ pfq' = (IF pfq_stb = 1 /\ Len(pfq) < PFQ_SIZE THEN Append(pfq, desc) ELSE pfq)
  BY DEF Fe, Pipeline, Queues, fw
<1>2. /\ prq \in Seq(Desc) /\ pfq \in Seq(Desc) /\ Len(prq) \in Nat /\ Len(pfq) \in Nat
      /\ prq_stb \in 0 .. 1 /\ pfq_stb \in 0 .. 1 /\ PFQ_SIZE \in Nat
      /\ fe_state \in {"IDLE", "PRE", "PKT", "FCS", "IPG", "FIN"}
  BY TxAssumption, LenProperties DEF TypeInv, TypeOK, QueueType
<1>3. EachReserved /\ EachOnce /\ StrobeInv /\ RoomInv
  BY DEF TokenInv
<1>4. \A d : Reserved(d) => \E s \in Services : st'[s] = "RSVD" /\ d = [idx |-> idx[s], len |-> len'[s] % QUEUE_LEN]
  BY <1>1 DEF Reserved, D
<1>5. SUFFICES /\ \A i \in 1 .. Len(prq') : Reserved(prq'[i])
               /\ \A i \in 1 .. Len(pfq') : Reserved(pfq'[i])
               /\ Holding' => Reserved(desc')
               /\ EachOnce' /\ StrobeInv'
               /\ fe_state' \in {"IDLE", "PRE", "PKT"} \/ pfq_stb' = 1 => Len(pfq') < PFQ_SIZE
  BY <1>1, <1>3, <1>4 DEF TokenInv, EachReserved, RoomInv, Reserved, D
<1>6. CASE FeIdle
  <2>1. /\ fe_state = "IDLE" /\ fe_state' = "PRE" /\ desc' = prq[1] /\ prq # <<>>
        /\ prq_stb' = 1 /\ pfq_stb' = 0 /\ prq_stb = 0 /\ pfq_stb = 0
    BY <1>2, <1>3, <1>6 DEF FeIdle, Go, StrobeInv
  <2>2. prq' = prq /\ pfq' = pfq /\ 1 \in 1 .. Len(prq)
    BY <1>1, <1>2, <2>1, Popped
  <2> QED
    BY <1>3, <2>1, <2>2 DEF EachReserved, EachOnce, StrobeInv, RoomInv, Holding
<1>7. CASE FeStay \/ FeFin
  <2>1. /\ fe_state \in {"IDLE", "FIN"} /\ fe_state' \in {"IDLE", "FIN"} /\ desc' = desc
        /\ prq_stb' = 0 /\ pfq_stb' = 0 /\ prq_stb = 0 /\ pfq_stb = 0
        /\ fe_state' = "IDLE" => Len(pfq) < PFQ_SIZE
    BY <1>2, <1>3, <1>7 DEF FeStay, FeFin, Go, StrobeInv, RoomInv
  <2>2. prq' = prq /\ pfq' = pfq
    BY <1>1, <2>1
  <2> QED
    BY <1>3, <2>1, <2>2 DEF EachReserved, EachOnce, StrobeInv, RoomInv, Holding
<1>8. CASE FePre
  <2>1. /\ fe_state = "PRE" /\ fe_state' \in {"PRE", "PKT"} /\ desc' = desc
        /\ prq_stb' = 0 /\ pfq_stb' = 0 /\ pfq_stb = 0
    BY <1>2, <1>3, <1>8 DEF FePre, Go, StrobeInv
  <2>2. pfq' = pfq
    BY <1>1, <2>1
  <2>3. CASE prq_stb = 1
    <3>1. /\ prq # <<>> /\ prq' = Tail(prq) /\ Len(prq') = Len(prq) - 1
          /\ \A i \in 1 .. Len(prq') : prq'[i] = prq[i + 1]
      BY <1>1, <1>2, <1>3, <2>3, Popped DEF StrobeInv
    <3>2. \A i \in 1 .. Len(prq') : i + 1 \in 1 .. Len(prq) /\ i + 1 # 1
      BY <1>2, <3>1
    <3> QED
      BY <1>3, <2>1, <2>2, <3>1, <3>2 DEF EachReserved, EachOnce, StrobeInv, RoomInv, Holding
  <2>4. CASE prq_stb = 0
    BY <1>1, <1>3, <2>1, <2>2, <2>4 DEF EachReserved, EachOnce, StrobeInv, RoomInv, Holding
  <2> QED
    BY <1>2, <2>3, <2>4
<1>9. CASE FePkt
  <2>1. /\ fe_state = "PKT" /\ desc' = desc /\ prq_stb' = 0 /\ prq_stb = 0 /\ pfq_stb = 0
        /\ \/ fe_state' = "PKT" /\ pfq_stb' = 0
           \/ fe_state' \in {"FCS", "IPG"} /\ pfq_stb' = 1
    BY <1>2, <1>3, <1>9 DEF FePkt, Go, StrobeInv
  <2>2. prq' = prq /\ pfq' = pfq
    BY <1>1, <2>1
  <2> QED
    BY <1>3, <2>1, <2>2 DEF EachReserved, EachOnce, StrobeInv, RoomInv, Holding
<1>10. CASE FeFcs \/ FeIpg
  <2>1. /\ fe_state \in {"FCS", "IPG"} /\ fe_state' \in {"FCS", "IPG", "FIN"} /\ desc' = desc
        /\ prq_stb' = 0 /\ prq_stb = 0 /\ pfq_stb' = 0
    BY <1>2, <1>3, <1>10 DEF FeFcs, FeIpg, Go, StrobeInv
  <2>2. prq' = prq
    BY <1>1, <2>1
  <2>3. CASE pfq_stb = 1
    <3>1. Holding /\ Len(pfq) < PFQ_SIZE /\ desc \in Desc
      BY <1>3, <2>3 DEF Holding, RoomInv, TypeInv, ReadInv
    <3>2. /\ Len(pfq') = Len(pfq) + 1 /\ pfq'[Len(pfq) + 1] = desc
          /\ \A i \in 1 .. Len(pfq) : pfq'[i] = pfq[i]
      BY <1>1, <1>2, <2>3, <3>1, Pushed
    <3>3. \A i \in 1 .. Len(pfq') : i \in 1 .. Len(pfq) \/ i = Len(pfq) + 1
      BY <1>2, <3>2
    <3>4. \A i \in 1 .. Len(prq) : prq[i] # desc
      BY <1>3, <2>1, <3>1 DEF EachOnce
    <3> QED
      BY <1>3, <2>1, <2>2, <3>1, <3>2, <3>3, <3>4 DEF EachReserved, EachOnce, StrobeInv, Holding
  <2>4. CASE pfq_stb = 0
    BY <1>1, <1>3, <2>1, <2>2, <2>4 DEF EachReserved, EachOnce, StrobeInv, Holding
  <2> QED
    BY <1>2, <2>3, <2>4
<1> QED
  BY <1>6, <1>7, <1>8, <1>9, <1>10 DEF Fe

LEMMA FirmwareToken == ASSUME TypeInv, TokenInv, Firmware PROVE TokenInv'
<1>1. /\ prq \in Seq(Desc) /\ pfq \in Seq(Desc) /\ Len(prq) \in Nat /\ Len(pfq) \in Nat
      /\ st \in [Services -> {"FREE", "PEND", "RSVD"}]
      /\ DOMAIN len = Services /\ \A s \in Services : len[s] \in Nat
      /\ PFQ_SIZE \in Nat
      /\ fe_state \in {"IDLE", "PRE", "PKT", "FCS", "IPG", "FIN"}
  <2>1. TypeOK /\ QueueType
    BY DEF TypeInv
  <2>2. prq \in Seq(Desc) /\ pfq \in Seq(Desc)
    BY <2>1 DEF QueueType
  <2>3. Len(prq) \in Nat /\ Len(pfq) \in Nat
    BY <2>2, LenProperties
  <2>4. /\ st \in [Services -> {"FREE", "PEND", "RSVD"}]
        /\ len \in [Services -> 0 .. DESC_LEN-1]
        /\ fe_state \in {"IDLE", "PRE", "PKT", "FCS", "IPG", "FIN"}
    BY <2>1 DEF TypeOK
  <2>5. PFQ_SIZE \in Nat
    BY TxAssumption
  <2> QED
    BY <2>2, <2>3, <2>4, <2>5
<1>2. EachReserved /\ EachOnce /\ StrobeInv /\ RoomInv
  BY DEF TokenInv
<1>3. UNCHANGED fe
  BY DEF Firmware, TxFree, TxFreeNone, RxNone, TxSend, TxSendNone, RxRequest, Build
<1>4. UNCHANGED <<fe_state, prq_stb, pfq_stb, desc>>
  BY <1>3 DEF fe
<1>5. CASE TxFreeNone \/ RxNone \/ \E s \in Services : TxSendNone(s)
  <2>1. UNCHANGED <<st, len, unhandled, prq, pfq>>
    BY <1>5 DEF TxFreeNone, RxNone, TxSendNone
  <2> QED
    BY <1>2, <1>4, <2>1 DEF TokenInv, EachReserved, EachOnce, StrobeInv, RoomInv, Reserved, D, Holding
<1>6. CASE TxFree
  <2>1. /\ pfq # <<>> /\ len' = len /\ prq' = prq /\ pfq' = Tail(pfq)
        /\ st' = [s \in Services |-> IF s \in Owner(pfq[1]) THEN "FREE" ELSE st[s]]
        /\ unhandled' = (unhandled \/ Owner(pfq[1]) = {})
    BY <1>6 DEF TxFree
  <2>2. /\ Len(pfq') = Len(pfq) - 1 /\ 1 \in 1 .. Len(pfq)
        /\ \A i \in 1 .. Len(pfq') : pfq'[i] = pfq[i + 1] /\ i + 1 \in 1 .. Len(pfq) /\ i + 1 # 1
    BY <1>1, <2>1, Popped
  <2>3. PICK s \in Services : st[s] = "RSVD" /\ pfq[1] = D(s)
    BY <1>2, <2>2 DEF EachReserved, Reserved
  <2>4. /\ len[s] < QUEUE_LEN => Owner(pfq[1]) = {s}
        /\ len[s] >= QUEUE_LEN => Owner(pfq[1]) = {}
        /\ len[s] < QUEUE_LEN \/ len[s] >= QUEUE_LEN
    BY <2>3, OwnerIs
  <2>5. \A d : Reserved(d) /\ d # pfq[1] =>
          \E t \in Services : st'[t] = "RSVD" /\ d = [idx |-> idx[t], len |-> len'[t] % QUEUE_LEN]
    <3> SUFFICES ASSUME NEW t \in Services, st[t] = "RSVD", D(t) # pfq[1]
                 PROVE  st'[t] = "RSVD" /\ D(t) = [idx |-> idx[t], len |-> len'[t] % QUEUE_LEN]
      BY DEF Reserved
    <3>1. t # s
      BY <2>3
    <3>2. t \notin Owner(pfq[1])
      BY <2>4, <3>1
    <3> QED
      BY <2>1, <3>2 DEF D
  <2>6. EachReserved'
    <3>1. \A i \in 1 .. Len(prq') : prq'[i] # pfq[1] /\ Reserved(prq'[i])
      BY <1>2, <2>1, <2>2 DEF EachReserved, EachOnce
    <3>2. \A i \in 1 .. Len(pfq') : pfq'[i] # pfq[1] /\ Reserved(pfq'[i])
      BY <1>2, <2>2 DEF EachReserved, EachOnce
    <3>3. Holding' => desc' # pfq[1] /\ Reserved(desc')
      BY <1>2, <1>4, <2>2 DEF EachReserved, EachOnce, Holding
    <3> QED
      BY <2>5, <3>1, <3>2, <3>3 DEF EachReserved, Reserved, D
  <2>7. EachOnce'
    BY <1>2, <1>4, <2>1, <2>2 DEF EachOnce, Holding
  <2>8. StrobeInv'
    BY <1>2, <1>4, <2>1 DEF StrobeInv
  <2>9. RoomInv'
    <3>1. ASSUME unhandled' PROVE \E t \in Services : st'[t] = "RSVD" /\ len'[t] >= QUEUE_LEN
      <4>1. CASE unhandled
        <5>1. PICK t \in Services : st[t] = "RSVD" /\ len[t] >= QUEUE_LEN
          BY <1>2, <4>1 DEF RoomInv
        <5>2. t \notin Owner(pfq[1])
          BY <2>4, <5>1
        <5> QED
          BY <2>1, <5>1, <5>2
      <4>2. CASE Owner(pfq[1]) = {}
        <5>1. len[s] >= QUEUE_LEN /\ s \notin Owner(pfq[1])
          BY <2>4, <4>2
        <5> QED
          BY <2>1, <2>3, <5>1
      <4> QED
        BY <2>1, <3>1, <4>1, <4>2, Zenon
    <3>2. Len(pfq) < PFQ_SIZE => Len(pfq') < PFQ_SIZE
      BY <1>1, <2>2
    <3> QED
      BY <1>2, <1>4, <3>1, <3>2 DEF RoomInv
  <2> QED
    BY <2>6, <2>7, <2>8, <2>9 DEF TokenInv
<1>7. ASSUME NEW s \in Services, NEW n \in Lens[s], RxRequest(s, n)
      PROVE  TokenInv'
  <2>1. /\ st[s] = "FREE" /\ st' = [st EXCEPT ![s] = "PEND"] /\ len' = [len EXCEPT ![s] = n % DESC_LEN]
        /\ prq' = prq /\ pfq' = pfq /\ unhandled' = unhandled
    BY <1>7 DEF RxRequest, Build
  <2>2. \A t \in Services : st[t] = "RSVD" => st'[t] = "RSVD" /\ len'[t] = len[t]
    BY <1>1, <2>1
  <2>3. \A d : Reserved(d) =>
          \E t \in Services : st'[t] = "RSVD" /\ d = [idx |-> idx[t], len |-> len'[t] % QUEUE_LEN]
    BY <2>2 DEF Reserved, D
  <2>4. EachReserved'
    <3>1. /\ \A i \in 1 .. Len(prq') : Reserved(prq'[i])
          /\ \A i \in 1 .. Len(pfq') : Reserved(pfq'[i])
          /\ Holding' => Reserved(desc')
      BY <1>2, <1>4, <2>1 DEF EachReserved, Holding
    <3> QED
      BY <2>3, <3>1 DEF EachReserved, Reserved, D
  <2>5. RoomInv'
    BY <1>2, <1>4, <2>1, <2>2 DEF RoomInv
  <2> QED
    BY <1>2, <1>4, <2>1, <2>4, <2>5 DEF TokenInv, EachOnce, StrobeInv, Holding
<1>8. ASSUME NEW s \in Services, TxSend(s)
      PROVE  TokenInv'
  <2>1. /\ st[s] = "PEND" /\ st' = [st EXCEPT ![s] = "RSVD"] /\ len' = len
        /\ prq' = Append(prq, D(s)) /\ pfq' = pfq /\ unhandled' = unhandled
    BY <1>8 DEF TxSend
  <2>2. D(s) \in Desc
    BY <1>1, DescOf
  <2>3. /\ Len(prq') = Len(prq) + 1 /\ prq'[Len(prq) + 1] = D(s)
        /\ \A i \in 1 .. Len(prq) : prq'[i] = prq[i]
    BY <1>1, <2>1, <2>2, Pushed
  <2>4. \A i \in 1 .. Len(prq') : i \in 1 .. Len(prq) \/ i = Len(prq) + 1
    BY <1>1, <2>3
  <2>5. \A d : Reserved(d) => d # D(s)
    BY <2>1, DistinctReplies DEF Reserved
  <2>6. \A d : Reserved(d) \/ d = D(s) =>
          \E t \in Services : st'[t] = "RSVD" /\ d = [idx |-> idx[t], len |-> len'[t] % QUEUE_LEN]
    BY <1>1, <2>1 DEF Reserved, D
  <2>7. EachReserved'
    <3>1. \A i \in 1 .. Len(prq') : Reserved(prq'[i]) \/ prq'[i] = D(s)
      BY <1>2, <2>3, <2>4 DEF EachReserved
    <3>2. \A i \in 1 .. Len(pfq') : Reserved(pfq'[i])
      BY <1>2, <2>1 DEF EachReserved
    <3>3. Holding' => Reserved(desc')
      BY <1>2, <1>4 DEF EachReserved, Holding
    <3> QED
      BY <2>6, <3>1, <3>2, <3>3 DEF EachReserved, Reserved, D
  <2>8. EachOnce'
    <3>1. \A i \in 1 .. Len(prq) : prq[i] # D(s)
      BY <1>2, <2>5 DEF EachReserved
    <3>2. \A i \in 1 .. Len(pfq) : pfq[i] # D(s)
      BY <1>2, <2>5 DEF EachReserved
    <3>3. Holding => desc # D(s)
      BY <1>2, <2>5 DEF EachReserved
    <3>4. \A i, j \in 1 .. Len(prq') : i # j => prq'[i] # prq'[j]
      BY <1>2, <2>3, <2>4, <3>1 DEF EachOnce
    <3>5. \A i \in 1 .. Len(prq'), j \in 1 .. Len(pfq) : prq'[i] # pfq[j]
      BY <1>2, <2>3, <2>4, <3>2 DEF EachOnce
    <3>6. Holding => \A i \in 1 .. Len(prq') : prq'[i] = desc => i = 1 /\ prq_stb = 1
      BY <1>2, <2>3, <2>4, <3>3 DEF EachOnce
    <3> QED
      BY <1>2, <1>4, <2>1, <3>4, <3>5, <3>6 DEF EachOnce, Holding
  <2>9. StrobeInv'
    <3>1. prq # <<>> => prq'[1] = prq[1] /\ prq' # <<>>
      BY <1>1, <2>3, EmptySeq
    <3> QED
      BY <1>2, <1>4, <3>1 DEF StrobeInv
  <2>10. RoomInv'
    <3>1. \A t \in Services : st[t] = "RSVD" => st'[t] = "RSVD" /\ len'[t] = len[t]
      BY <1>1, <2>1
    <3> QED
      BY <1>2, <1>4, <2>1, <3>1 DEF RoomInv
  <2> QED
    BY <2>7, <2>8, <2>9, <2>10 DEF TokenInv
<1> QED
  BY <1>5, <1>6, <1>7, <1>8 DEF Firmware

SafeInv == TypeInv /\ TokenInv

LEMMA SafeStep == SafeInv /\ [Next]_vars => SafeInv'
<1> SUFFICES ASSUME SafeInv, [Next]_vars PROVE SafeInv'
  OBVIOUS
<1>1. CASE Fe
  BY <1>1, FeType, FeToken DEF SafeInv
<1>2. CASE Firmware
  BY <1>2, FirmwareType, FirmwareToken DEF SafeInv
<1>3. CASE UNCHANGED vars
  <2>1. TypeInv'
    BY <1>3 DEF SafeInv, TypeInv, TypeOK, CountInv, ReadInv, Proper, ByteInv, QueueType, vars, fw, fe
  <2>2. TokenInv'
    <3>1. /\ UNCHANGED <<st, len, unhandled, prq, pfq, fe_state, prq_stb, pfq_stb, desc>>
          /\ EachReserved /\ EachOnce /\ StrobeInv /\ RoomInv
      BY <1>3 DEF SafeInv, TokenInv, vars, fw, fe
    <3>2. Holding' <=> Holding
      BY <3>1 DEF Holding
    <3>3. EachReserved'
      BY <3>1, <3>2 DEF EachReserved, Reserved, D
    <3>4. EachOnce'
      BY <3>1, <3>2 DEF EachOnce
    <3>5. StrobeInv' /\ RoomInv'
      BY <3>1 DEF StrobeInv, RoomInv
    <3> QED
      BY <3>3, <3>4, <3>5 DEF TokenInv
  <2> QED
    BY <2>1, <2>2 DEF SafeInv
<1> QED
  BY <1>1, <1>2, <1>3 DEF Next

\* The two invariants together: SafetyInvariant is what the theorems rest on.
THEOREM SafetyInvariant == Spec => []SafeInv
<1>1. Init => SafeInv
  BY InitType, InitToken DEF SafeInv
<1> QED
  BY <1>1, SafeStep, PTL DEF Spec

\* Every variable keeps to its type, and no queue holds more than it has room
\* for (TypeOK), however the front end and the firmware take turns.
THEOREM TypeCorrect == Spec => []TypeOK
<1>1. SafeInv => TypeOK
  BY DEF SafeInv, TypeInv
<1> QED
  BY <1>1, SafetyInvariant, PTL

\* memac_tx_fe.vhd reads from the buffer only for a reply that is reserved for
\* it, and only bytes of it if that reply keeps to its room, whatever length the
\* others have.
THEOREM OnlyReservedIsRead == Spec => []ReadsOnlyReserved
<1>1. SafeInv => ReadsOnlyReserved
  <2> SUFFICES ASSUME SafeInv, buf_re = 1
               PROVE  \E s \in Services :
                        /\ st[s] = "RSVD" /\ desc = D(s)
                        /\ len[s] \in 1 .. room[s] => buf_idx \in idx[s] .. idx[s] + len[s] - 1
    BY DEF ReadsOnlyReserved
  <2>1. /\ fe_state = "PKT" /\ desc \in Desc
        /\ Proper(desc) => buf_len \in 1 .. desc.len /\ buf_idx = desc.idx + desc.len - buf_len
    BY DEF SafeInv, TypeInv, ReadInv
  <2>2. PICK s \in Services : st[s] = "RSVD" /\ desc = D(s)
    BY <2>1 DEF SafeInv, TokenInv, EachReserved, Holding, Reserved
  <2>3. ASSUME len[s] \in 1 .. room[s] PROVE buf_idx \in idx[s] .. idx[s] + len[s] - 1
    <3>1. PICK n \in Nat \ {0}, i \in Nat :
            /\ n = len[s] /\ i = idx[s] /\ i + n <= BUF_SIZE /\ n % QUEUE_LEN = n
      BY <2>3, Fits
    <3>2. desc.idx = i /\ desc.len = n
      BY <2>2, <3>1 DEF D
    <3>3. Proper(desc)
      BY <3>1, <3>2 DEF Proper
    <3>4. buf_len \in 1 .. n /\ buf_idx = i + n - buf_len
      BY <2>1, <3>2, <3>3
    <3>5. buf_idx \in i .. i + n - 1
      BY <3>1, <3>4
    <3> QED
      BY <3>1, <3>5
  <2> QED
    BY <2>2, <2>3
<1> QED
  BY <1>1, SafetyInvariant, PTL

\* memac_raw_tx_free finds the service of every descriptor that comes back, but
\* of those of replies too long for the queues' len, which then stay reserved;
\* and the front end gives it back only to a queue with room.
THEOREM EveryFreeIsKnown == Spec => []FreesAreKnown
<1>1. SafeInv => FreesAreKnown
  BY DEF SafeInv, TokenInv, RoomInv, FreesAreKnown
<1> QED
  BY <1>1, SafetyInvariant, PTL

(***************************************************************************)
(* The refinement: a reply goes round idle, accepted, queued, sent.  One   *)
(* too long for the queues' len stays sent.                                *)
(***************************************************************************)
P == [s \in Services |-> Phase(s)]

\* The answers of Phase, and that it follows st and what is pending.
LEMMA PhaseIs ==
  ASSUME NEW s \in Services
  PROVE  /\ st[s] = "FREE" => P[s] = "idle"
         /\ st[s] = "PEND" => P[s] = "accepted"
         /\ st[s] = "RSVD" /\ Pending(s) => P[s] = "queued"
         /\ st[s] = "RSVD" /\ ~Pending(s) => P[s] = "sent"
BY DEF P, Phase

LEMMA PhaseIsNext ==
  ASSUME NEW s \in Services
  PROVE  /\ st'[s] = "FREE" => P'[s] = "idle"
         /\ st'[s] = "PEND" => P'[s] = "accepted"
         /\ st'[s] = "RSVD" /\ Pending(s)' => P'[s] = "queued"
         /\ st'[s] = "RSVD" /\ ~Pending(s)' => P'[s] = "sent"
BY DEF P, Phase

LEMMA PhaseStays ==
  ASSUME TypeInv, NEW s \in Services, st'[s] = st[s],
         st[s] = "RSVD" => (Pending(s)' <=> Pending(s))
  PROVE  P'[s] = P[s]
<1>1. st[s] \in {"FREE", "PEND", "RSVD"}
  BY DEF TypeInv, TypeOK
<1>2. CASE st[s] = "FREE"
  BY <1>2, PhaseIs, PhaseIsNext
<1>3. CASE st[s] = "PEND"
  BY <1>3, PhaseIs, PhaseIsNext
<1>4. CASE st[s] = "RSVD"
  <2>1. Pending(s) \/ ~Pending(s)
    OBVIOUS
  <2> QED
    BY <1>4, <2>1, PhaseIs, PhaseIsNext
<1> QED
  BY <1>1, <1>2, <1>3, <1>4

\* A step of one service and of no other, and a step of none.
LEMMA OneStep ==
  ASSUME NEW s \in Services, NEW from, NEW to, P[s] = from, P'[s] = to,
         \A t \in Services : t # s => P'[t] = P[t]
  PROVE  Service!Step(s, from, to)
<1>1. P' = [P EXCEPT ![s] = to]
  BY DEF P
<1> QED
  BY <1>1 DEF Service!Step, P

LEMMA NoStep ==
  ASSUME \A t \in Services : P'[t] = P[t]
  PROVE  P' = P
BY DEF P

\* A reply is pending until the front end gives its descriptor back.
LEMMA FePending ==
  ASSUME SafeInv, Fe, NEW t \in Services
  PROVE  /\ pfq_stb # 1 => (Pending(t)' <=> Pending(t))
         /\ pfq_stb = 1 => (Pending(t)' <=> \E i \in 1 .. Len(prq) : prq[i] = D(t))
         /\ pfq_stb = 1 => prq_stb # 1
<1>1. /\ st' = st /\ D(t)' = D(t)
      /\ prq' = (IF prq_stb = 1 THEN Tail(prq) ELSE prq)
  BY DEF Fe, Pipeline, Queues, fw, D
<1>2. /\ prq \in Seq(Desc) /\ Len(prq) \in Nat /\ StrobeInv
  BY LenProperties DEF SafeInv, TypeInv, TokenInv, QueueType
<1>3. /\ Pending(t)' <=> (\E i \in 1 .. Len(prq') : prq'[i] = D(t)) \/ (Holding' /\ desc' = D(t))
      /\ Pending(t) <=> (\E i \in 1 .. Len(prq) : prq[i] = D(t)) \/ (Holding /\ desc = D(t))
  BY <1>1 DEF Pending
<1>4. CASE FeIdle
  <2>1. /\ fe_state = "IDLE" /\ pfq_stb # 1 /\ prq_stb # 1 /\ ~Holding /\ Holding'
        /\ prq # <<>> /\ desc' = prq[1]
    BY <1>2, <1>4 DEF FeIdle, Go, StrobeInv, Holding
  <2>2. prq' = prq /\ 1 \in 1 .. Len(prq)
    BY <1>1, <1>2, <2>1, Popped
  <2> QED
    BY <1>3, <2>1, <2>2
<1>5. CASE FeStay \/ FeFin
  <2>1. prq_stb # 1 /\ pfq_stb # 1 /\ ~Holding /\ ~Holding'
    BY <1>2, <1>5 DEF FeStay, FeFin, Go, StrobeInv, Holding
  <2> QED
    BY <1>1, <1>3, <2>1
<1>6. CASE FePre
  <2>1. pfq_stb # 1 /\ Holding /\ Holding' /\ desc' = desc
    BY <1>2, <1>6 DEF FePre, Go, StrobeInv, Holding
  <2>2. CASE prq_stb = 1
    <3>1. /\ Len(prq') = Len(prq) - 1 /\ prq[1] = desc
          /\ \A i \in 1 .. Len(prq') : prq'[i] = prq[i + 1] /\ i + 1 \in 1 .. Len(prq)
      BY <1>1, <1>2, <2>2, Popped DEF StrobeInv
    <3>2. \A i \in 1 .. Len(prq) : i = 1 \/ (i - 1 \in 1 .. Len(prq') /\ prq'[i - 1] = prq[i])
      <4> SUFFICES ASSUME NEW i \in 1 .. Len(prq), i # 1
                   PROVE  i - 1 \in 1 .. Len(prq') /\ prq'[i - 1] = prq[i]
        OBVIOUS
      <4>1. i - 1 \in 1 .. Len(prq') /\ (i - 1) + 1 = i
        BY <1>2, <3>1
      <4> QED
        BY <3>1, <4>1
    <3> QED
      BY <1>3, <2>1, <3>1, <3>2
  <2>3. CASE prq_stb # 1
    BY <1>1, <1>3, <2>1, <2>3
  <2> QED
    BY <2>2, <2>3
<1>7. CASE FePkt
  <2>1. pfq_stb # 1 /\ prq_stb # 1 /\ Holding /\ Holding' /\ desc' = desc
    BY <1>2, <1>7 DEF FePkt, Go, StrobeInv, Holding
  <2> QED
    BY <1>1, <1>3, <2>1
<1>8. CASE FeFcs \/ FeIpg
  <2>1. prq_stb # 1 /\ ~Holding' /\ (pfq_stb # 1 => ~Holding)
    BY <1>2, <1>8 DEF FeFcs, FeIpg, Go, StrobeInv, Holding
  <2> QED
    BY <1>1, <1>3, <2>1
<1> QED
  BY <1>4, <1>5, <1>6, <1>7, <1>8 DEF Fe

LEMMA FeRefines == ASSUME SafeInv, Fe PROVE [Service!Next]_P
<1>1. st' = st
  BY DEF Fe, Pipeline, fw
<1>2. TypeInv /\ TokenInv
  BY DEF SafeInv
<1>3. CASE pfq_stb = 1
  <2>1. PICK s \in Services : st[s] = "RSVD" /\ desc = D(s)
    BY <1>2, <1>3 DEF TokenInv, EachReserved, Reserved, Holding
  <2>2. Pending(s)
    BY <1>3, <2>1 DEF Pending, Holding
  <2>3. ~Pending(s)'
    <3>1. prq_stb # 1 /\ (Pending(s)' <=> \E i \in 1 .. Len(prq) : prq[i] = D(s))
      BY <1>3, FePending
    <3>2. \A i \in 1 .. Len(prq) : prq[i] = desc => prq_stb = 1
      BY <1>2, <1>3 DEF TokenInv, EachOnce, Holding
    <3> QED
      BY <2>1, <3>1, <3>2
  <2>4. P[s] = "queued" /\ P'[s] = "sent"
    BY <1>1, <2>1, <2>2, <2>3, PhaseIs, PhaseIsNext
  <2>5. \A t \in Services : t # s => P'[t] = P[t]
    <3> SUFFICES ASSUME NEW t \in Services, t # s PROVE P'[t] = P[t]
      OBVIOUS
    <3>1. desc # D(t)
      BY <2>1, DistinctReplies
    <3>2. Pending(t)' <=> \E i \in 1 .. Len(prq) : prq[i] = D(t)
      BY <1>3, FePending
    <3>3. Pending(t)' <=> Pending(t)
      BY <3>1, <3>2 DEF Pending
    <3> QED
      BY <1>1, <1>2, <3>3, PhaseStays
  <2>6. Service!Step(s, "queued", "sent")
    BY <2>4, <2>5, OneStep
  <2> QED
    BY <2>6 DEF Service!Next, Service!Send
<1>4. CASE pfq_stb # 1
  <2>1. \A t \in Services : Pending(t)' <=> Pending(t)
    BY <1>4, FePending
  <2>2. \A t \in Services : P'[t] = P[t]
    BY <1>1, <1>2, <2>1, PhaseStays
  <2>3. P' = P
    BY <2>2, NoStep
  <2> QED
    BY <2>3
<1> QED
  BY <1>3, <1>4

LEMMA FirmwareRefines == ASSUME SafeInv, Firmware PROVE [Service!Next]_P
<1>1. TypeInv /\ TokenInv
  BY DEF SafeInv
<1>2. /\ prq \in Seq(Desc) /\ pfq \in Seq(Desc) /\ Len(prq) \in Nat /\ Len(pfq) \in Nat
      /\ DOMAIN len = Services /\ (\A s \in Services : len[s] \in Nat)
      /\ st \in [Services -> {"FREE", "PEND", "RSVD"}]
  BY <1>1, LenProperties DEF TypeInv, TypeOK, QueueType
<1>3. UNCHANGED <<fe_state, pfq_stb, desc>> /\ (Holding' <=> Holding)
  <2>1. UNCHANGED fe
    BY DEF Firmware, TxFree, TxFreeNone, RxNone, TxSend, TxSendNone, RxRequest, Build
  <2> QED
    BY <2>1 DEF fe, Holding
<1>4. ASSUME NEW t \in Services, len'[t] = len[t], prq' = prq
      PROVE  Pending(t)' <=> Pending(t)
  BY <1>3, <1>4 DEF Pending, D
<1>5. CASE TxFreeNone \/ RxNone \/ \E s \in Services : TxSendNone(s)
  <2>1. UNCHANGED <<st, len, prq>>
    BY <1>5 DEF TxFreeNone, RxNone, TxSendNone
  <2>2. \A t \in Services : P'[t] = P[t]
    BY <1>1, <1>4, <2>1, PhaseStays
  <2>3. P' = P
    BY <2>2, NoStep
  <2> QED
    BY <2>3
<1>6. CASE TxFree
  <2>1. /\ pfq # <<>> /\ len' = len /\ prq' = prq
        /\ st' = [s \in Services |-> IF s \in Owner(pfq[1]) THEN "FREE" ELSE st[s]]
    BY <1>6 DEF TxFree
  <2>2. 1 \in 1 .. Len(pfq)
    BY <1>2, <2>1, Popped
  <2>3. PICK s \in Services : st[s] = "RSVD" /\ pfq[1] = D(s)
    BY <1>1, <2>2 DEF TokenInv, EachReserved, Reserved
  <2>4. Owner(pfq[1]) = {s} \/ Owner(pfq[1]) = {}
    BY <1>1, <2>3, OwnerIs
  <2>5. \A t \in Services : t \notin Owner(pfq[1]) => P'[t] = P[t]
    BY <1>1, <1>4, <2>1, PhaseStays
  <2>6. CASE Owner(pfq[1]) = {s}
    <3>1. ~Pending(s)
      <4>1. \A i \in 1 .. Len(prq) : prq[i] # pfq[1]
        BY <1>1, <2>2 DEF TokenInv, EachOnce
      <4>2. Holding => pfq[1] # desc
        BY <1>1, <2>2 DEF TokenInv, EachOnce
      <4> QED
        BY <2>3, <4>1, <4>2 DEF Pending
    <3>2. P[s] = "sent" /\ P'[s] = "idle"
      BY <2>1, <2>3, <2>6, <3>1, PhaseIs, PhaseIsNext
    <3>3. \A t \in Services : t # s => P'[t] = P[t]
      BY <2>5, <2>6
    <3>4. Service!Step(s, "sent", "idle")
      BY <3>2, <3>3, OneStep
    <3> QED
      BY <3>4 DEF Service!Next, Service!Release
  <2>7. CASE Owner(pfq[1]) = {}
    <3>1. P' = P
      BY <2>5, <2>7, NoStep
    <3> QED
      BY <3>1
  <2> QED
    BY <2>4, <2>6, <2>7
<1>7. ASSUME NEW s \in Services, NEW n \in Lens[s], RxRequest(s, n)
      PROVE  [Service!Next]_P
  <2>1. /\ st[s] = "FREE" /\ st' = [st EXCEPT ![s] = "PEND"]
        /\ len' = [len EXCEPT ![s] = n % DESC_LEN] /\ prq' = prq
    BY <1>7 DEF RxRequest, Build
  <2>2. st'[s] = "PEND" /\ \A t \in Services : t # s => st'[t] = st[t] /\ len'[t] = len[t]
    BY <1>2, <2>1
  <2>3. P[s] = "idle" /\ P'[s] = "accepted"
    BY <2>1, <2>2, PhaseIs, PhaseIsNext
  <2>4. \A t \in Services : t # s => P'[t] = P[t]
    BY <1>1, <1>4, <2>1, <2>2, PhaseStays
  <2>5. Service!Step(s, "idle", "accepted")
    BY <2>3, <2>4, OneStep
  <2> QED
    BY <2>5 DEF Service!Next, Service!Accept
<1>8. ASSUME NEW s \in Services, TxSend(s)
      PROVE  [Service!Next]_P
  <2>1. st[s] = "PEND" /\ st' = [st EXCEPT ![s] = "RSVD"] /\ len' = len /\ prq' = Append(prq, D(s))
    BY <1>8 DEF TxSend
  <2>2. st'[s] = "RSVD" /\ \A t \in Services : t # s => st'[t] = st[t]
    BY <1>2, <2>1
  <2>3. /\ Len(prq') = Len(prq) + 1 /\ prq'[Len(prq) + 1] = D(s)
        /\ \A i \in 1 .. Len(prq) : prq'[i] = prq[i]
    <3>1. D(s) \in Desc
      BY <1>2, DescOf
    <3> QED
      BY <1>2, <2>1, <3>1, Pushed
  <2>4. /\ \A i \in 1 .. Len(prq') : i \in 1 .. Len(prq) \/ i = Len(prq) + 1
        /\ \A i \in 1 .. Len(prq) : i \in 1 .. Len(prq')
        /\ Len(prq) + 1 \in 1 .. Len(prq')
    BY <1>2, <2>3
  <2>5. Pending(s)'
    BY <2>1, <2>3, <2>4 DEF Pending, D
  <2>6. P[s] = "accepted" /\ P'[s] = "queued"
    BY <2>1, <2>2, <2>5, PhaseIs, PhaseIsNext
  <2>7. \A t \in Services : t # s => P'[t] = P[t]
    <3> SUFFICES ASSUME NEW t \in Services, t # s PROVE P'[t] = P[t]
      OBVIOUS
    <3>1. D(s) # D(t) /\ D(t)' = D(t)
      BY <2>1, DistinctReplies DEF D
    <3>2. /\ Pending(t)' <=> (\E i \in 1 .. Len(prq') : prq'[i] = D(t)) \/ (Holding /\ desc = D(t))
          /\ Pending(t) <=> (\E i \in 1 .. Len(prq) : prq[i] = D(t)) \/ (Holding /\ desc = D(t))
      BY <1>3, <3>1 DEF Pending
    <3>3. (\E i \in 1 .. Len(prq') : prq'[i] = D(t)) <=> (\E i \in 1 .. Len(prq) : prq[i] = D(t))
      BY <2>3, <2>4, <3>1
    <3> QED
      BY <1>1, <2>2, <3>2, <3>3, PhaseStays
  <2>8. Service!Step(s, "accepted", "queued")
    BY <2>6, <2>7, OneStep
  <2> QED
    BY <2>8 DEF Service!Next, Service!Handover
<1> QED
  BY <1>5, <1>6, <1>7, <1>8 DEF Firmware

\* The transmit path gives each protocol the service of ReplyService: a reply
\* is accepted, handed over, sent and released, one after the other, whatever
\* the other protocols do, and one that is never released stays sent.
THEOREM TransmitImplementsService == Spec => ImplementsReplyService
<1>1. Init => Service!Init
  <2> SUFFICES ASSUME Init PROVE Service!Init
    OBVIOUS
  <2>1. st = [s \in Services |-> "FREE"]
    BY DEF Init
  <2>2. P = [s \in Services |-> "idle"]
    BY <2>1 DEF P, Phase
  <2> QED
    BY <2>2 DEF Service!Init, P
<1>2. SafeInv /\ [Next]_vars => [Service!Next]_P
  <2> SUFFICES ASSUME SafeInv, [Next]_vars PROVE [Service!Next]_P
    OBVIOUS
  <2>1. CASE UNCHANGED vars
    BY <2>1 DEF vars, fw, fe, P, Phase, Pending, Holding, D
  <2> QED
    BY <2>1, FeRefines, FirmwareRefines DEF Next
<1> QED
  BY <1>1, <1>2, SafetyInvariant, PTL DEF Spec, ImplementsReplyService, Service!Spec, P

(***************************************************************************)
(* The gap: an octet that is selected reaches the wire three octets later, *)
(* and the states IPG (ten), FIN and IDLE (one each at least) select idle. *)
(***************************************************************************)
GapInv ==
  /\ sel[1] = "IPG" <=> fe_state \in {"IPG", "FIN", "IDLE"}
  /\ fe_state = "IPG" => /\ count >= 1 => sel[2] = "IPG"
                         /\ count >= 2 => sel[3] = "IPG"
                         /\ gap >= count - 2
  /\ fe_state \in {"FIN", "IDLE"} => sel[2] = "IPG" /\ sel[3] = "IPG"
  /\ fe_state = "FIN" => gap >= 8
  /\ fe_state = "IDLE" => gap >= 9
  /\ sel[1] # "IPG" /\ sel[2] = "IPG" => sel[3] = "IPG" /\ gap >= 10
  /\ sel[2] # "IPG" /\ sel[3] = "IPG" => gap >= 11
  /\ sel[3] # "IPG" /\ umi = Idle => gap = 12

LEMMA InitGap == Init => GapInv
BY DEF Init, GapInv

\* What the output does to the gap.
LEMMA GapCounts ==
  ASSUME TypeInv, Data
  PROVE  /\ gap \in 0 .. 12
         /\ sel[3] = "IPG" => umi' = Idle /\ gap' = IF gap < 12 THEN gap + 1 ELSE 12
         /\ sel[3] # "IPG" => umi' # Idle /\ gap' = 0
<1>1. gap \in 0 .. 12 /\ buf_d # Idle /\ crc_q # Idle
  BY DEF TypeInv, TypeOK, ByteInv
<1>2. sel[3] = "IPG" => umi' = Idle
  BY DEF Data
<1>3. sel[3] # "IPG" => umi' # Idle
  BY <1>1 DEF Data, Idle
<1>4. umi' = Idle => gap' = IF gap < 12 THEN gap + 1 ELSE 12
  BY <1>1 DEF Data
<1>5. umi' # Idle => gap' = 0
  BY DEF Data
<1> QED
  BY <1>1, <1>2, <1>3, <1>4, <1>5

LEMMA FeGap == ASSUME TypeInv, GapInv, Fe PROVE GapInv'
<1>1. /\ gap \in 0 .. 12
      /\ sel[3] = "IPG" => umi' = Idle /\ gap' = IF gap < 12 THEN gap + 1 ELSE 12
      /\ sel[3] # "IPG" => umi' # Idle /\ gap' = 0
  BY GapCounts DEF Fe, Pipeline
<1>2. /\ fe_state \in {"IDLE", "PRE", "PKT", "FCS", "IPG", "FIN"} /\ count \in 0 .. 15
      /\ FCS_AUTO \in {0, 1} /\ PRE_LEN \in 2 .. 15
  BY TxAssumption DEF TypeInv, TypeOK
<1>3. CASE FeIdle \/ FePre \/ (FePkt /\ ~(buf_len = 1 /\ FCS_AUTO = 0)) \/ (FePkt /\ buf_len = 1 /\ FCS_AUTO = 1)
              \/ (FeFcs /\ count # 3)
  <2>1. /\ fe_state' \in {"PRE", "PKT", "FCS"} /\ fe_state \in {"IDLE", "PRE", "PKT", "FCS"}
        /\ sel'[1] # "IPG" /\ sel'[2] = sel[1] /\ sel'[3] = sel[2]
    <3>1. CASE FeIdle
      BY <3>1 DEF FeIdle, Go
    <3>2. CASE FePre
      BY <1>2, <3>2 DEF FePre, Go, GapInv
    <3>3. CASE FePkt /\ ~(buf_len = 1 /\ FCS_AUTO = 0)
      BY <1>2, <3>3 DEF FePkt, Go, GapInv
    <3>4. CASE FeFcs /\ count # 3
      <4>1. count \in 0 .. 2
        BY <1>2, <3>4 DEF FeFcs, TypeInv, CountInv
      <4>2. <<"FCS2", "FCS3", "FCS4">>[count + 1] # "IPG"
        <5>1. count = 0 \/ count = 1 \/ count = 2
          BY <4>1
        <5> QED
          BY <5>1
      <4>3. fe_state' = "FCS" /\ fe_state = "FCS" /\ sel' = <<<<"FCS2", "FCS3", "FCS4">>[count + 1], sel[1], sel[2]>>
        BY <3>4 DEF FeFcs, Go
      <4> QED
        BY <4>2, <4>3
    <3> QED
      BY <1>2, <1>3, <3>1, <3>2, <3>3, <3>4
  <2> QED
    BY <1>1, <2>1 DEF GapInv
<1>4. CASE (FePkt /\ buf_len = 1 /\ FCS_AUTO = 0) \/ (FeFcs /\ count = 3)
  <2>1. /\ fe_state' = "IPG" /\ count' = 0 /\ sel[1] # "IPG"
        /\ sel'[1] = "IPG" /\ sel'[2] = sel[1] /\ sel'[3] = sel[2]
    BY <1>4 DEF FePkt, FeFcs, Go, GapInv
  <2> QED
    BY <1>1, <2>1 DEF GapInv
<1>5. CASE FeIpg
  <2>1. /\ fe_state = "IPG" /\ sel[1] = "IPG"
        /\ \/ fe_state' = "FIN" /\ count = 9
           \/ fe_state' = "IPG" /\ count' = count + 1
        /\ sel'[1] = "IPG" /\ sel'[2] = "IPG" /\ sel'[3] = sel[2]
    BY <1>5 DEF FeIpg, Go, GapInv
  <2>2. /\ count >= 1 => sel[2] = "IPG"
        /\ count >= 2 => sel[3] = "IPG"
        /\ gap >= count - 2
        /\ sel[2] # "IPG" /\ sel[3] = "IPG" => gap >= 11
    BY <2>1 DEF GapInv
  <2>3. sel'[3] # "IPG" /\ umi' = Idle => gap' = 12
    BY <1>1, <2>1, <2>2
  <2>4. CASE fe_state' = "FIN" /\ count = 9
    <3>1. sel[2] = "IPG" /\ sel[3] = "IPG" /\ gap >= 7
      BY <2>2, <2>4
    <3>2. gap' >= 8
      BY <1>1, <3>1
    <3> QED
      BY <2>1, <2>3, <2>4, <3>1, <3>2 DEF GapInv
  <2>5. CASE fe_state' = "IPG" /\ count' = count + 1
    <3>1. /\ count + 1 >= 2 => sel[2] = "IPG"
          /\ count + 1 >= 1
      BY <1>2, <2>2
    <3>2. gap' >= count + 1 - 2
      <4>1. CASE count <= 1
        BY <1>1, <1>2, <4>1
      <4>2. CASE count >= 2
        <5>1. sel[3] = "IPG" /\ gap >= count - 2
          BY <2>2, <4>2
        <5>2. count < 10
          BY <2>1 DEF TypeInv, CountInv
        <5> QED
          BY <1>1, <1>2, <5>1, <5>2
      <4> QED
        BY <1>2, <4>1, <4>2
    <3>3. /\ count' >= 2 => sel'[3] = "IPG"
          /\ gap' >= count' - 2
      <4>1. count' = count + 1 /\ sel'[3] = sel[2] /\ count \in Int
        BY <1>2, <2>1, <2>5
      <4> QED
        BY <3>1, <3>2, <4>1
    <3> QED
      BY <2>1, <2>3, <2>5, <3>3 DEF GapInv
  <2> QED
    BY <2>1, <2>4, <2>5
<1>6. CASE FeStay \/ FeFin
  <2>1. /\ fe_state \in {"FIN", "IDLE"} /\ fe_state' \in {"FIN", "IDLE"}
        /\ fe_state' = "FIN" => fe_state = "FIN"
        /\ sel'[1] = "IPG" /\ sel'[2] = "IPG" /\ sel'[3] = "IPG" /\ sel[3] = "IPG"
    BY <1>6 DEF FeStay, FeFin, Go, GapInv
  <2> QED
    BY <1>1, <2>1 DEF GapInv
<1> QED
  BY <1>2, <1>3, <1>4, <1>5, <1>6 DEF Fe

LEMMA GapStep == SafeInv /\ GapInv /\ [Next]_vars => GapInv'
<1> SUFFICES ASSUME SafeInv, GapInv, [Next]_vars PROVE GapInv'
  OBVIOUS
<1>1. CASE Fe
  BY <1>1, FeGap DEF SafeInv
<1>2. CASE UNCHANGED fe
  BY <1>2 DEF fe, GapInv
<1>3. Firmware => UNCHANGED fe
  BY DEF Firmware, TxFree, TxFreeNone, RxNone, TxSend, TxSendNone, RxRequest, Build
<1> QED
  BY <1>1, <1>2, <1>3 DEF Next, vars

\* No frame of memac_tx_fe.vhd follows another before twelve idle octets,
\* however soon its descriptor comes.
THEOREM TheGapIsEnough == Spec => GapIsEnough
<1>1. SafeInv /\ GapInv /\ [Next]_vars => [umi = Idle /\ umi' # Idle => gap = 12]_vars
  <2> SUFFICES ASSUME SafeInv, GapInv, Next, umi = Idle, umi' # Idle PROVE gap = 12
    BY DEF vars
  <2>1. Firmware => UNCHANGED fe
    BY DEF Firmware, TxFree, TxFreeNone, RxNone, TxSend, TxSendNone, RxRequest, Build
  <2>2. Data
    BY <2>1 DEF Next, fe, Fe, Pipeline
  <2>3. sel[3] # "IPG"
    BY <2>2, GapCounts DEF SafeInv
  <2> QED
    BY <2>3 DEF GapInv
<1> QED
  BY <1>1, InitGap, GapStep, SafetyInvariant, PTL DEF Spec, GapIsEnough

(***************************************************************************)
(* The contents of the buffer: a reply that is not free is there whole,    *)
(* while all replies keep to their rooms.                                  *)
(***************************************************************************)
FitInv == \A s \in Services : st[s] # "FREE" => len[s] \in Fitting(s)

BufInv ==
  \A s \in Services : st[s] # "FREE" =>
    \A i \in 0 .. len[s] - 1 : buf[idx[s] + i] = <<s, build[s], i + 1, len[s]>>

LEMMA InitBuf == Init => FitInv /\ BufInv
BY DEF Init, FitInv, BufInv

LEMMA StillFits == ASSUME [Next]_vars, ~spilt' PROVE ~spilt
BY DEF Next, Fe, Pipeline, Firmware, TxFree, TxFreeNone, RxNone, TxSend, TxSendNone,
       RxRequest, Build, vars, fw

\* A reply that keeps to its room is written once to each of its places.
LEMMA WrittenIs ==
  ASSUME NEW s \in Services, NEW n \in 1 .. room[s], NEW i \in 0 .. BUF_SIZE - 1
  PROVE  Written(s, n, i) = IF i \in idx[s] .. idx[s] + n - 1 THEN {i - idx[s] + 1} ELSE {}
<1>1. PICK x \in Nat, B \in Nat \ {0} : x = idx[s] /\ B = BUF_SIZE /\ x + n <= B /\ n \in Nat \ {0}
  BY Fits, Sizes
<1>2. \A k \in 1 .. n : (x + k - 1) % B = x + k - 1
  <2> SUFFICES ASSUME NEW k \in 1 .. n PROVE (x + k - 1) % B = x + k - 1
    OBVIOUS
  <2>1. x + k - 1 \in 0 .. B - 1
    BY <1>1
  <2> QED
    BY <2>1, ModSmall
<1>3. Written(s, n, i) = {k \in 1 .. n : x + k - 1 = i}
  BY <1>1, <1>2 DEF Written
<1>4. CASE i \in x .. x + n - 1
  <2>1. i - x + 1 \in 1 .. n /\ \A k \in 1 .. n : x + k - 1 = i <=> k = i - x + 1
    BY <1>1, <1>4
  <2> QED
    BY <1>1, <1>3, <1>4, <2>1
<1>5. CASE i \notin x .. x + n - 1
  <2>1. \A k \in 1 .. n : x + k - 1 # i
    BY <1>1, <1>5
  <2> QED
    BY <1>1, <1>3, <1>5, <2>1
<1> QED
  BY <1>4, <1>5

LEMMA BufStep == SafeInv /\ FitInv /\ BufInv /\ [Next]_vars /\ ~spilt' => FitInv' /\ BufInv'
<1> SUFFICES ASSUME SafeInv, FitInv, BufInv, [Next]_vars, ~spilt' PROVE FitInv' /\ BufInv'
  OBVIOUS
<1>1. /\ st \in [Services -> {"FREE", "PEND", "RSVD"}] /\ build \in [Services -> 0 .. 1]
      /\ DOMAIN len = Services
  BY DEF SafeInv, TypeInv, TypeOK
<1>2. CASE UNCHANGED <<st, len, build, buf>>
  BY <1>2 DEF BufInv, FitInv
<1>3. CASE TxFree
  <2>1. /\ st' = [s \in Services |-> IF s \in Owner(pfq[1]) THEN "FREE" ELSE st[s]]
        /\ UNCHANGED <<len, build, buf>>
    BY <1>3 DEF TxFree
  <2> QED
    BY <2>1 DEF BufInv, FitInv
<1>4. ASSUME NEW s \in Services, TxSend(s) PROVE FitInv' /\ BufInv'
  <2>1. st[s] = "PEND" /\ st' = [st EXCEPT ![s] = "RSVD"] /\ UNCHANGED <<len, build, buf>>
    BY <1>4 DEF TxSend
  <2>2. \A t \in Services : st'[t] # "FREE" => st[t] # "FREE"
    BY <1>1, <2>1
  <2> QED
    BY <2>1, <2>2 DEF BufInv, FitInv
<1>5. ASSUME NEW s \in Services, NEW n \in Lens[s], RxRequest(s, n) PROVE FitInv' /\ BufInv'
  <2>1. /\ st' = [st EXCEPT ![s] = "PEND"] /\ len' = [len EXCEPT ![s] = n % DESC_LEN]
        /\ build' = [build EXCEPT ![s] = 1 - @]
        /\ buf' = [i \in 0 .. BUF_SIZE-1 |-> IF Written(s, n, i) = {} THEN buf[i]
                     ELSE <<s, build'[s], CHOOSE k \in Written(s, n, i) :
                                            \A j \in Written(s, n, i) : j <= k, n>>]
        /\ spilt' = (spilt \/ n > room[s])
        /\ n \in Nat \ {0}
    <3>1. Build(s, n) /\ TypeInv
      BY <1>5 DEF RxRequest, SafeInv
    <3> QED
      BY <3>1, Builds
  <2>2. n \in 1 .. room[s] /\ n \in Fitting(s)
    <3>1. ~(n > room[s])
      BY <2>1, Zenon
    <3>2. room[s] \in Nat
      BY TxAssumption
    <3> QED
      BY <2>1, <3>1, <3>2 DEF Fitting
  <2>3. PICK x \in Nat : x = idx[s] /\ x + n <= BUF_SIZE /\ n % DESC_LEN = n
    BY <2>2, Fits
  <2>4. /\ st'[s] = "PEND" /\ len'[s] = n
        /\ \A t \in Services : t # s => st'[t] = st[t] /\ len'[t] = len[t] /\ build'[t] = build[t]
    BY <1>1, <2>1, <2>3
  <2>5. FitInv'
    BY <2>2, <2>4 DEF FitInv, Fitting
  <2>6. ASSUME NEW i \in 0 .. BUF_SIZE - 1
        PROVE  buf'[i] = IF i \in x .. x + n - 1 THEN <<s, build'[s], i - x + 1, n>> ELSE buf[i]
    <3>1. CASE i \in x .. x + n - 1
      <4>1. PICK k \in Nat : k = i - x + 1 /\ Written(s, n, i) = {k}
        BY <2>2, <2>3, <3>1, WrittenIs
      <4>2. (CHOOSE j \in {k} : \A h \in {k} : h <= j) = k
        <5>1. k <= k
          OBVIOUS
        <5>2. k \in {k} /\ \A h \in {k} : h <= k
          BY <5>1
        <5>3. \A j \in {k} : j = k
          OBVIOUS
        <5> QED
          BY <5>2, <5>3
      <4>3. buf'[i] = IF Written(s, n, i) = {} THEN buf[i]
                      ELSE <<s, build'[s], CHOOSE j \in Written(s, n, i) :
                                             \A h \in Written(s, n, i) : h <= j, n>>
        BY <2>1, Zenon
      <4>4. Written(s, n, i) # {}
        BY <4>1
      <4>5. (CHOOSE j \in Written(s, n, i) : \A h \in Written(s, n, i) : h <= j) = k
        BY <4>1, <4>2, Zenon
      <4> QED
        BY <3>1, <4>1, <4>3, <4>4, <4>5
    <3>2. CASE i \notin x .. x + n - 1
      <4>1. Written(s, n, i) = {}
        BY <2>2, <2>3, <3>2, WrittenIs
      <4> QED
        BY <2>1, <3>2, <4>1
    <3> QED
      BY <3>1, <3>2
  <2>7. BufInv'
    <3> SUFFICES ASSUME NEW t \in Services, st'[t] # "FREE", NEW i \in 0 .. len'[t] - 1
                 PROVE  buf'[idx[t] + i] = <<t, build'[t], i + 1, len'[t]>>
      BY DEF BufInv
    <3>1. CASE t = s
      <4>1. i \in 0 .. n - 1 /\ x + n <= BUF_SIZE /\ BUF_SIZE \in Nat
        BY <2>3, <2>4, <3>1, Sizes
      <4>2. /\ x + i \in x .. x + n - 1 /\ x + i \in 0 .. BUF_SIZE - 1
            /\ (x + i) - x + 1 = i + 1
        BY <2>1, <4>1
      <4>3. buf'[x + i] = <<s, build'[s], (x + i) - x + 1, n>>
        BY <2>6, <4>2
      <4> QED
        BY <2>3, <2>4, <3>1, <4>2, <4>3
    <3>2. CASE t # s
      <4>1. len'[t] = len[t] /\ build'[t] = build[t] /\ st[t] # "FREE" /\ i \in 0 .. len[t] - 1
        BY <2>4, <3>2
      <4>2. len[t] \in 1 .. room[t]
        BY <4>1, FittingIs DEF FitInv
      <4>3. PICK y \in Nat, m \in Nat \ {0} : y = idx[t] /\ m = len[t] /\ y + m <= BUF_SIZE
        BY <4>2, Fits
      <4>4. y + i \in y .. y + m - 1 /\ y + i \in 0 .. BUF_SIZE - 1
        <5>1. BUF_SIZE \in Nat /\ i \in 0 .. m - 1
          BY <4>1, <4>3, Sizes
        <5> QED
          BY <4>3, <5>1
      <4>5. y + i \notin x .. x + n - 1
        BY <2>2, <2>3, <3>2, <4>2, <4>3, <4>4, Apart
      <4>6. buf'[y + i] = buf[y + i]
        BY <2>6, <4>4, <4>5
      <4>7. buf[idx[t] + i] = <<t, build[t], i + 1, len[t]>>
        BY <4>1 DEF BufInv
      <4> QED
        BY <4>1, <4>3, <4>6, <4>7
    <3> QED
      BY <3>1, <3>2
  <2> QED
    BY <2>5, <2>7
<1>6. Fe \/ TxFreeNone \/ RxNone \/ (\E s \in Services : TxSendNone(s)) \/ UNCHANGED vars
        => UNCHANGED <<st, len, build, buf>>
  BY DEF Fe, Pipeline, TxFreeNone, RxNone, TxSendNone, vars, fw
<1> QED
  BY <1>2, <1>3, <1>4, <1>5, <1>6 DEF Next, Firmware

(***************************************************************************)
(* The frame as it passes through the stages.  When q symbols of it are    *)
(* out, crc has the bytes among them, buf_d is the byte of symbol q+1 and  *)
(* the buffer's output that of q+2, and symbol q+3, which Pos counts, is   *)
(* selected; q is below 1 before the frame, and counts on through the gap. *)
(***************************************************************************)
Prefix(s, b, n, k) == [i \in 1 .. k |-> <<s, b, i, n>>]
Total(n) == PRE_LEN + n + 4 * FCS_AUTO
Symbol(s, b, n, i) ==
  IF i < PRE_LEN THEN <<"55">>
  ELSE IF i = PRE_LEN THEN <<"D5">>
  ELSE IF i <= PRE_LEN + n THEN <<s, b, i - PRE_LEN, n>>
  ELSE <<Prefix(s, b, n, n), i - PRE_LEN - n>>
Sent(s, b, n, q) == [i \in 1 .. q |-> Symbol(s, b, n, i)]
Kind(n, i) ==
  IF i < 1 \/ i > Total(n) THEN "IPG"
  ELSE IF i < PRE_LEN THEN "PRE"
  ELSE IF i = PRE_LEN THEN "SFD"
  ELSE IF i <= PRE_LEN + n THEN "DATA"
  ELSE IF i = PRE_LEN + n + 1 THEN "FCS1"
  ELSE IF i = PRE_LEN + n + 2 THEN "FCS2"
  ELSE IF i = PRE_LEN + n + 3 THEN "FCS3"
  ELSE "FCS4"
Pos == CASE fe_state = "PRE" -> count + 1
         [] fe_state = "PKT" -> PRE_LEN + 1 + desc.len - buf_len
         [] fe_state = "FCS" -> PRE_LEN + desc.len + 1 + count
         [] fe_state = "IPG" -> Total(desc.len) + 1 + count
         [] OTHER -> Total(desc.len) + 11

Complete ==
  frame = <<>> \/ \E s \in Services, b \in 0 .. 1 : \E n \in Fitting(s) : frame = Sent(s, b, n, Total(n))
CrcAfter(s, b, n, q) ==
  /\ crc = IF q <= PRE_LEN \/ q >= PRE_LEN + n + 4 THEN Clean
           ELSE IF q <= PRE_LEN + n THEN [of |-> Prefix(s, b, n, q - PRE_LEN), shifted |-> 0]
           ELSE [of |-> Prefix(s, b, n, n), shifted |-> q - PRE_LEN - n]
  /\ q \in PRE_LEN + n .. PRE_LEN + n + 3 => crc_q = <<Prefix(s, b, n, n), q - PRE_LEN - n + 1>>
OutAfter(s, b, n, q) ==
  IF q < 1 THEN umi = Idle /\ Complete
  ELSE IF q <= Total(n) THEN umi = Symbol(s, b, n, q) /\ frame = Sent(s, b, n, q)
  ELSE umi = Idle /\ frame = Sent(s, b, n, Total(n))
Sending(s, b, n, q) ==
  /\ desc = [idx |-> idx[s], len |-> n]
  /\ Holding => st[s] = "RSVD" /\ build[s] = b
  /\ sel = <<Kind(n, q + 3), Kind(n, q + 2), Kind(n, q + 1)>>
  /\ sel[2] = "DATA" => word[bsel] = <<s, b, q + 2 - PRE_LEN, n>>
  /\ sel[3] = "DATA" => buf_d = <<s, b, q + 1 - PRE_LEN, n>>
  /\ CrcAfter(s, b, n, q)
  /\ OutAfter(s, b, n, q)
\* Nothing is under way.
Quiet == sel = <<"IPG", "IPG", "IPG">> /\ crc = Clean /\ umi = Idle /\ Complete
PipeInv ==
  /\ fe_state = "FCS" => FCS_AUTO = 1
  /\ IF fe_state \in {"IDLE", "FIN"} THEN Quiet
     ELSE \E s \in Services, b \in 0 .. 1 : \E n \in Fitting(s) :
            \E q \in Int : Pos = q + 3 /\ Sending(s, b, n, q)

LEMMA LenTypes ==
  ASSUME NEW s \in Services, NEW n \in Fitting(s)
  PROVE  /\ n \in Nat \ {0} /\ PRE_LEN \in 2 .. 15 /\ FCS_AUTO \in {0, 1} /\ idx[s] \in Nat
         /\ Total(n) \in Nat
<1>1. n \in Nat \ {0} /\ idx[s] \in Nat
  BY FittingIs, Fits
<1>2. PRE_LEN \in 2 .. 15 /\ FCS_AUTO \in {0, 1}
  BY TxAssumption
<1> QED
  BY <1>1, <1>2 DEF Total

LEMMA PosIs ==
  /\ fe_state = "PRE" => Pos = count + 1
  /\ fe_state = "PKT" => Pos = PRE_LEN + 1 + desc.len - buf_len
  /\ fe_state = "FCS" => Pos = PRE_LEN + desc.len + 1 + count
  /\ fe_state = "IPG" => Pos = Total(desc.len) + 1 + count
  /\ fe_state \in {"FIN", "IDLE"} => Pos = Total(desc.len) + 11
BY DEF Pos

LEMMA PosIsNext ==
  /\ fe_state' = "PRE" => Pos' = count' + 1
  /\ fe_state' = "PKT" => Pos' = PRE_LEN + 1 + desc'.len - buf_len'
  /\ fe_state' = "FCS" => Pos' = PRE_LEN + desc'.len + 1 + count'
  /\ fe_state' = "IPG" => Pos' = Total(desc'.len) + 1 + count'
  /\ fe_state' \in {"FIN", "IDLE"} => Pos' = Total(desc'.len) + 11
BY DEF Pos

LEMMA HeldIsProper ==
  ASSUME NEW s \in Services, NEW n \in Fitting(s), desc = [idx |-> idx[s], len |-> n]
  PROVE  Proper(desc)
<1>1. n \in Nat \ {0} /\ idx[s] + n <= BUF_SIZE
  BY FittingIs, Fits
<1>2. desc.idx = idx[s] /\ desc.len = n
  OBVIOUS
<1> QED
  BY <1>1, <1>2 DEF Proper

\* In the four states of a packet the next symbol of its frame is selected.
LEMMA Advances ==
  ASSUME SafeInv, fe_state = "FCS" => FCS_AUTO = 1, FePre \/ FePkt \/ FeFcs \/ FeIpg,
         NEW s \in Services, NEW n \in Fitting(s), desc = [idx |-> idx[s], len |-> n],
         sel[1] = Kind(n, Pos)
  PROVE  /\ Pos \in 1 .. Total(n) + 10 /\ Pos' = Pos + 1 /\ desc' = desc
         /\ sel' = <<Kind(n, Pos + 1), sel[1], sel[2]>>
         /\ fe_state = "PKT" <=> Pos \in PRE_LEN + 1 .. PRE_LEN + n
         /\ fe_state' = "FCS" => FCS_AUTO = 1
         /\ Holding' => Holding
<1>1. /\ n \in Nat \ {0} /\ PRE_LEN \in 2 .. 15 /\ FCS_AUTO \in {0, 1} /\ Total(n) = PRE_LEN + n + 4 * FCS_AUTO
      /\ count \in 0 .. 15
  BY LenTypes DEF Total, SafeInv, TypeInv, TypeOK
<1>2. CountInv /\ ReadInv /\ StrobeInv /\ desc.len = n
  BY DEF SafeInv, TypeInv, TokenInv
<1>3. CASE FePre
  <2>1. /\ fe_state = "PRE" /\ Pos = count + 1 /\ count < PRE_LEN /\ desc' = desc
        /\ buf_len = n /\ buf_len' = buf_len
    BY <1>2, <1>3, PosIs DEF FePre, CountInv, ReadInv, Keep, Read, Go
  <2>2. CASE count = PRE_LEN - 1
    <3>1. fe_state' = "PKT" /\ count' = 0 /\ sel' = <<"DATA", sel[1], sel[2]>>
      BY <1>1, <1>3, <2>2 DEF FePre, Go
    <3>2. Pos' = PRE_LEN + 1 + n - n /\ Pos = PRE_LEN
      BY <1>1, <2>1, <2>2, <3>1, PosIsNext
    <3>3. Kind(n, Pos + 1) = "DATA"
      BY <1>1, <3>2 DEF Kind
    <3> QED
      BY <1>1, <2>1, <3>1, <3>2, <3>3 DEF Holding
  <2>3. CASE count # PRE_LEN - 1
    <3>1. /\ fe_state' = "PRE" /\ count' = count + 1
          /\ sel' = <<IF count = PRE_LEN - 2 THEN "SFD" ELSE sel[1], sel[1], sel[2]>>
      BY <1>3, <2>3 DEF FePre, Go
    <3>2. Pos' = Pos + 1
      BY <2>1, <3>1, PosIsNext
    <3>3. Kind(n, Pos + 1) = IF count = PRE_LEN - 2 THEN "SFD" ELSE sel[1]
      BY <1>1, <2>1, <2>3 DEF Kind
    <3> QED
      BY <1>1, <2>1, <2>3, <3>1, <3>2, <3>3 DEF Holding
  <2> QED
    BY <2>2, <2>3
<1>4. CASE FePkt
  <2>1. /\ fe_state = "PKT" /\ buf_re = 1 /\ buf_len \in 1 .. n /\ buf_len' = buf_len - 1 /\ desc' = desc
    <3>1. fe_state = "PKT" /\ buf_re = 1 /\ buf_len' = (buf_len - 1) % QUEUE_LEN /\ desc' = desc
      BY <1>2, <1>4 DEF FePkt, ReadInv, Keep, Read
    <3>2. buf_len \in 1 .. n
      BY <1>2, <3>1, HeldIsProper DEF ReadInv
    <3>3. PICK k \in Nat \ {0}, y \in Nat : k = QUEUE_LEN /\ y = buf_len /\ y - 1 \in 0 .. k - 1
      <4>1. QUEUE_LEN \in Nat \ {0} /\ buf_len \in 0 .. QUEUE_LEN - 1 /\ buf_len >= 1
        BY <1>1, <3>2, Sizes DEF SafeInv, TypeInv, TypeOK
      <4> QED
        BY <4>1
    <3>4. (y - 1) % k = y - 1
      BY <3>3, ModSmall
    <3> QED
      BY <3>1, <3>2, <3>3, <3>4
  <2>2. Pos = PRE_LEN + 1 + n - buf_len /\ Pos \in PRE_LEN + 1 .. PRE_LEN + n
    BY <1>1, <2>1, PosIs
  <2>3. sel[1] = "DATA"
    BY <1>1, <2>2 DEF Kind
  <2>4. CASE buf_len # 1
    <3>1. fe_state' = "PKT" /\ sel' = <<"DATA", sel[1], sel[2]>>
      BY <1>4, <2>3, <2>4 DEF FePkt, Go
    <3>2. Pos' = Pos + 1
      BY <1>1, <2>1, <2>2, <3>1, PosIsNext
    <3>3. Kind(n, Pos + 1) = "DATA"
      BY <1>1, <2>1, <2>2, <2>4 DEF Kind
    <3> QED
      BY <1>1, <2>1, <2>2, <3>1, <3>2, <3>3 DEF Holding
  <2>5. CASE buf_len = 1 /\ FCS_AUTO = 1
    <3>1. fe_state' = "FCS" /\ count' = 0 /\ sel' = <<"FCS1", sel[1], sel[2]>>
      BY <1>4, <2>5 DEF FePkt, Go
    <3>2. Pos = PRE_LEN + n /\ Pos' = PRE_LEN + n + 1
      BY <1>1, <2>1, <2>2, <2>5, <3>1, PosIsNext
    <3>3. Kind(n, Pos + 1) = "FCS1"
      BY <1>1, <2>5, <3>2 DEF Kind
    <3> QED
      BY <1>1, <2>1, <2>2, <2>5, <3>1, <3>2, <3>3 DEF Holding
  <2>6. CASE buf_len = 1 /\ FCS_AUTO = 0
    <3>1. fe_state' = "IPG" /\ count' = 0 /\ sel' = <<"IPG", sel[1], sel[2]>>
      BY <1>4, <2>6 DEF FePkt, Go
    <3>2. Pos = PRE_LEN + n /\ Pos' = PRE_LEN + n + 1
      BY <1>1, <2>1, <2>2, <2>6, <3>1, PosIsNext
    <3>3. Kind(n, Pos + 1) = "IPG"
      BY <1>1, <2>6, <3>2 DEF Kind
    <3> QED
      BY <1>1, <2>1, <2>2, <3>1, <3>2, <3>3 DEF Holding
  <2> QED
    BY <1>1, <2>4, <2>5, <2>6
<1>5. CASE FeFcs
  <2>1. fe_state = "FCS" /\ FCS_AUTO = 1 /\ desc' = desc /\ pfq_stb' = 0 /\ count \in 0 .. 3
    BY <1>1, <1>2, <1>5 DEF FeFcs, CountInv
  <2>2. Pos = PRE_LEN + n + 1 + count /\ Pos \in PRE_LEN + n + 1 .. PRE_LEN + n + 4
    BY <1>1, <2>1, PosIs
  <2>3. CASE count = 3
    <3>1. fe_state' = "IPG" /\ count' = 0 /\ sel' = <<"IPG", sel[1], sel[2]>>
      BY <1>5, <2>3 DEF FeFcs, Go
    <3>2. Pos' = Pos + 1
      BY <1>1, <2>1, <2>2, <2>3, <3>1, PosIsNext
    <3>3. Kind(n, Pos + 1) = "IPG"
      BY <1>1, <2>1, <2>2, <2>3 DEF Kind
    <3> QED
      BY <1>1, <2>1, <2>2, <3>1, <3>2, <3>3 DEF Holding
  <2>4. CASE count # 3
    <3>1. fe_state' = "FCS" /\ count' = count + 1 /\ sel' = <<<<"FCS2", "FCS3", "FCS4">>[count + 1], sel[1], sel[2]>>
      BY <1>5, <2>4 DEF FeFcs, Go
    <3>2. Pos' = Pos + 1
      BY <1>1, <2>1, <2>2, <3>1, PosIsNext
    <3>3. Kind(n, Pos + 1) = <<"FCS2", "FCS3", "FCS4">>[count + 1]
      <4>1. CASE count = 0
        BY <1>1, <2>1, <2>2, <4>1 DEF Kind
      <4>2. CASE count = 1
        BY <1>1, <2>1, <2>2, <4>2 DEF Kind
      <4>3. CASE count = 2
        BY <1>1, <2>1, <2>2, <4>3 DEF Kind
      <4> QED
        BY <2>1, <2>4, <4>1, <4>2, <4>3
    <3> QED
      BY <1>1, <2>1, <2>2, <3>1, <3>2, <3>3 DEF Holding
  <2> QED
    BY <2>3, <2>4
<1>6. CASE FeIpg
  <2>1. /\ fe_state = "IPG" /\ desc' = desc /\ pfq_stb' = 0 /\ count \in 0 .. 9
        /\ sel' = <<sel[1], sel[1], sel[2]>>
        /\ \/ fe_state' = "FIN" /\ count = 9
           \/ fe_state' = "IPG" /\ count' = count + 1
    BY <1>1, <1>2, <1>6 DEF FeIpg, Go, CountInv
  <2>2. Pos = Total(n) + 1 + count /\ Pos' = Pos + 1
    BY <1>1, <2>1, PosIs, PosIsNext
  <2>3. sel[1] = "IPG" /\ Kind(n, Pos + 1) = "IPG"
    BY <1>1, <2>1, <2>2 DEF Kind
  <2> QED
    BY <1>1, <2>1, <2>2, <2>3 DEF Holding
<1> QED
  BY <1>3, <1>4, <1>5, <1>6

(***************************************************************************)
(* The sequences of the pipeline, symbol by symbol.                        *)
(***************************************************************************)
LEMMA SeqOf ==
  ASSUME NEW k \in Nat, NEW S, NEW f \in [1 .. k -> S]
  PROVE  f \in Seq(S) /\ Len(f) = k
OBVIOUS

\* A sequence with one more element is known from its elements.
LEMMA Extended ==
  ASSUME NEW k \in Nat, NEW S, NEW f \in [1 .. k -> S], NEW g \in [1 .. k + 1 -> S],
         \A i \in 1 .. k : f[i] = g[i]
  PROVE  Append(f, g[k + 1]) = g
<1>1. f \in Seq(S) /\ Len(f) = k /\ g \in Seq(S) /\ Len(g) = k + 1 /\ k + 1 \in 1 .. k + 1
  BY SeqOf
<1>2. g[k + 1] \in S
  BY <1>1
<1>3. /\ Append(f, g[k + 1]) \in Seq(S) /\ Len(Append(f, g[k + 1])) = k + 1
      /\ \A i \in 1 .. k : Append(f, g[k + 1])[i] = g[i]
      /\ Append(f, g[k + 1])[k + 1] = g[k + 1]
  BY <1>1, <1>2, AppendProperties
<1>4. \A i \in 1 .. k + 1 : Append(f, g[k + 1])[i] = g[i]
  BY <1>3
<1> QED
  BY <1>1, <1>3, <1>4, SeqEqual

LEMMA PrefixGrows ==
  ASSUME NEW s, NEW b, NEW n, NEW k \in Nat
  PROVE  /\ Append(Prefix(s, b, n, k), <<s, b, k + 1, n>>) = Prefix(s, b, n, k + 1)
         /\ Prefix(s, b, n, 0) = <<>>
<1> DEFINE S == {<<s, b, i, n>> : i \in 1 .. k + 1}
<1>1. Prefix(s, b, n, k) \in [1 .. k -> S] /\ Prefix(s, b, n, k + 1) \in [1 .. k + 1 -> S]
  BY DEF Prefix
<1>2. \A i \in 1 .. k : Prefix(s, b, n, k)[i] = Prefix(s, b, n, k + 1)[i]
  BY DEF Prefix
<1>3. k + 1 \in 1 .. k + 1 /\ Prefix(s, b, n, k + 1)[k + 1] = <<s, b, k + 1, n>>
  BY DEF Prefix
<1>4. Append(Prefix(s, b, n, k), Prefix(s, b, n, k + 1)[k + 1]) = Prefix(s, b, n, k + 1)
  <2> HIDE DEF S
  <2> QED
    BY <1>1, <1>2, Extended
<1>5. Prefix(s, b, n, 0) = <<>>
  BY DEF Prefix
<1> QED
  BY <1>3, <1>4, <1>5

LEMMA SentGrows ==
  ASSUME NEW s, NEW b, NEW n, NEW q \in Nat
  PROVE  /\ Append(Sent(s, b, n, q), Symbol(s, b, n, q + 1)) = Sent(s, b, n, q + 1)
         /\ Sent(s, b, n, 1) = <<Symbol(s, b, n, 1)>>
<1> DEFINE S == {Symbol(s, b, n, i) : i \in 1 .. q + 1}
<1>1. Sent(s, b, n, q) \in [1 .. q -> S] /\ Sent(s, b, n, q + 1) \in [1 .. q + 1 -> S]
  BY DEF Sent
<1>2. \A i \in 1 .. q : Sent(s, b, n, q)[i] = Sent(s, b, n, q + 1)[i]
  BY DEF Sent
<1>3. q + 1 \in 1 .. q + 1 /\ Sent(s, b, n, q + 1)[q + 1] = Symbol(s, b, n, q + 1)
  BY DEF Sent
<1>4. Append(Sent(s, b, n, q), Sent(s, b, n, q + 1)[q + 1]) = Sent(s, b, n, q + 1)
  <2> HIDE DEF S
  <2> QED
    BY <1>1, <1>2, Extended
<1>5. Sent(s, b, n, 1) = <<Symbol(s, b, n, 1)>>
  BY DEF Sent
<1> QED
  BY <1>3, <1>4, <1>5

\* All the symbols are the frame the property asks for.
LEMMA SentIsFrame ==
  ASSUME NEW s \in Services, NEW b, NEW n \in Fitting(s)
  PROVE  Sent(s, b, n, Total(n)) = Frame(Contents(s, b, n))
<1> DEFINE C == Prefix(s, b, n, n)
           A == [i \in 1 .. PRE_LEN - 1 |-> <<"55">>]
           B == <<<<"D5">>>>
           T == Trailer(C)
           S == {Symbol(s, b, n, i) : i \in 1 .. Total(n)}
<1>1. /\ n \in Nat \ {0} /\ PRE_LEN \in 2 .. 15 /\ FCS_AUTO \in {0, 1}
      /\ Total(n) = PRE_LEN + n + 4 * FCS_AUTO
  BY LenTypes DEF Total
<1>2. A \in Seq(S) /\ Len(A) = PRE_LEN - 1 /\ \A i \in 1 .. PRE_LEN - 1 : A[i] = Symbol(s, b, n, i)
  <2>1. \A i \in 1 .. PRE_LEN - 1 : A[i] = Symbol(s, b, n, i) /\ i \in 1 .. Total(n)
    BY <1>1 DEF Symbol
  <2>2. A \in [1 .. PRE_LEN - 1 -> S] /\ PRE_LEN - 1 \in Nat
    BY <1>1, <2>1
  <2> HIDE DEF A, S
  <2> QED
    BY <2>1, <2>2, SeqOf
<1>3. B \in Seq(S) /\ Len(B) = 1 /\ B[1] = Symbol(s, b, n, PRE_LEN)
  <2>1. B[1] = Symbol(s, b, n, PRE_LEN) /\ PRE_LEN \in 1 .. Total(n)
    BY <1>1 DEF Symbol
  <2>2. <<"D5">> \in S
    BY <2>1
  <2> HIDE DEF S
  <2> QED
    BY <2>1, <2>2
<1>4. C \in Seq(S) /\ Len(C) = n /\ \A i \in 1 .. n : C[i] = Symbol(s, b, n, PRE_LEN + i)
  <2>1. ASSUME NEW i \in 1 .. n
        PROVE  C[i] = Symbol(s, b, n, PRE_LEN + i) /\ PRE_LEN + i \in 1 .. Total(n)
    <3>1. C[i] = <<s, b, i, n>>
      BY DEF Prefix
    <3>2. /\ ~(PRE_LEN + i < PRE_LEN) /\ PRE_LEN + i # PRE_LEN /\ PRE_LEN + i <= PRE_LEN + n
          /\ PRE_LEN + i - PRE_LEN = i /\ PRE_LEN + i \in 1 .. Total(n)
      BY <1>1
    <3>3. Symbol(s, b, n, PRE_LEN + i) = <<s, b, i, n>>
      BY <1>1, <3>2 DEF Symbol
    <3> QED
      BY <3>1, <3>2, <3>3
  <2>2. C \in [1 .. n -> S]
    BY <1>1, <2>1 DEF Prefix
  <2> HIDE DEF C, S
  <2> QED
    BY <1>1, <2>1, <2>2, SeqOf
<1>5. /\ T \in Seq(S) /\ Len(T) = 4 * FCS_AUTO
      /\ \A i \in 1 .. 4 * FCS_AUTO : T[i] = Symbol(s, b, n, PRE_LEN + n + i)
  <2>1. CASE FCS_AUTO = 0
    <3>1. T = <<>>
      BY <2>1 DEF Trailer
    <3> HIDE DEF S, T
    <3> QED
      BY <2>1, <3>1
  <2>2. CASE FCS_AUTO = 1
    <3>1. T = [i \in 1 .. 4 |-> <<C, i>>]
      BY <2>2 DEF Trailer
    <3>2. \A i \in 1 .. 4 : T[i] = Symbol(s, b, n, PRE_LEN + n + i) /\ PRE_LEN + n + i \in 1 .. Total(n)
      BY <1>1, <2>2, <3>1 DEF Symbol
    <3>3. T \in [1 .. 4 -> S]
      BY <3>1, <3>2
    <3>4. 4 * FCS_AUTO = 4
      BY <2>2
    <3> HIDE DEF S, T
    <3>5. T \in Seq(S) /\ Len(T) = 4
      BY <3>3, SeqOf
    <3> QED
      BY <3>2, <3>4, <3>5
  <2> QED
    BY <1>1, <2>1, <2>2
<1>6. Frame(Contents(s, b, n)) = A \o B \o C \o T
  BY DEF Frame, Contents, Prefix
<1>7. Sent(s, b, n, Total(n)) \in Seq(S) /\ Len(Sent(s, b, n, Total(n))) = Total(n)
      /\ \A i \in 1 .. Total(n) : Sent(s, b, n, Total(n))[i] = Symbol(s, b, n, i)
  <2>1. Sent(s, b, n, Total(n)) \in [1 .. Total(n) -> S] /\ Total(n) \in Nat
    BY <1>1 DEF Sent
  <2>2. \A i \in 1 .. Total(n) : Sent(s, b, n, Total(n))[i] = Symbol(s, b, n, i)
    BY DEF Sent
  <2> HIDE DEF S
  <2> QED
    BY <2>1, <2>2, SeqOf
<1> HIDE DEF A, B, C, T, S
<1>8. /\ A \o B \in Seq(S) /\ Len(A \o B) = PRE_LEN
      /\ \A i \in 1 .. PRE_LEN : (A \o B)[i] = Symbol(s, b, n, i)
  <2>1. /\ A \o B \in Seq(S) /\ Len(A \o B) = PRE_LEN
        /\ \A i \in 1 .. PRE_LEN : (A \o B)[i] = IF i <= PRE_LEN - 1 THEN A[i] ELSE B[i - (PRE_LEN - 1)]
    <3>1. /\ A \o B \in Seq(S) /\ Len(A \o B) = Len(A) + Len(B)
          /\ \A i \in 1 .. Len(A) + Len(B) : (A \o B)[i] = IF i <= Len(A) THEN A[i] ELSE B[i - Len(A)]
      BY <1>2, <1>3, ConcatProperties
    <3>2. Len(A) = PRE_LEN - 1 /\ Len(A) + Len(B) = PRE_LEN
      BY <1>1, <1>2, <1>3
    <3> QED
      BY <3>1, <3>2
  <2>2. ASSUME NEW i \in 1 .. PRE_LEN PROVE (A \o B)[i] = Symbol(s, b, n, i)
    <3>1. CASE i <= PRE_LEN - 1
      BY <1>1, <1>2, <2>1, <3>1
    <3>2. CASE i = PRE_LEN
      <4>1. i - (PRE_LEN - 1) = 1 /\ ~(i <= PRE_LEN - 1)
        BY <1>1, <3>2
      <4> QED
        BY <1>3, <2>1, <3>2, <4>1
    <3>3. i <= PRE_LEN - 1 \/ i = PRE_LEN
      BY <1>1
    <3> QED
      BY <3>1, <3>2, <3>3
  <2> QED
    BY <1>1, <2>1, <2>2
<1>9. /\ (A \o B) \o C \in Seq(S) /\ Len((A \o B) \o C) = PRE_LEN + n
      /\ \A i \in 1 .. PRE_LEN + n : ((A \o B) \o C)[i] = Symbol(s, b, n, i)
  <2>1. /\ (A \o B) \o C \in Seq(S) /\ Len((A \o B) \o C) = PRE_LEN + n
        /\ \A i \in 1 .. PRE_LEN + n : ((A \o B) \o C)[i] = IF i <= PRE_LEN THEN (A \o B)[i] ELSE C[i - PRE_LEN]
    <3>1. /\ (A \o B) \o C \in Seq(S) /\ Len((A \o B) \o C) = Len(A \o B) + Len(C)
          /\ \A i \in 1 .. Len(A \o B) + Len(C) :
               ((A \o B) \o C)[i] = IF i <= Len(A \o B) THEN (A \o B)[i] ELSE C[i - Len(A \o B)]
      <4>1. A \o B \in Seq(S) /\ C \in Seq(S)
        BY <1>4, <1>8
      <4> QED
        BY <4>1, ConcatProperties
    <3> QED
      BY <1>4, <1>8, <3>1
  <2>2. ASSUME NEW i \in 1 .. PRE_LEN + n PROVE ((A \o B) \o C)[i] = Symbol(s, b, n, i)
    <3>1. CASE i <= PRE_LEN
      <4>1. i \in 1 .. PRE_LEN
        BY <1>1, <3>1
      <4> QED
        BY <1>8, <2>1, <3>1, <4>1
    <3>2. CASE ~(i <= PRE_LEN)
      <4>1. i - PRE_LEN \in 1 .. n /\ PRE_LEN + (i - PRE_LEN) = i
        BY <1>1, <3>2
      <4> QED
        BY <1>4, <2>1, <3>2, <4>1
    <3> QED
      BY <3>1, <3>2
  <2> QED
    BY <2>1, <2>2
<1>10. /\ ((A \o B) \o C) \o T \in Seq(S) /\ Len(((A \o B) \o C) \o T) = Total(n)
       /\ \A i \in 1 .. Total(n) : (((A \o B) \o C) \o T)[i] = Symbol(s, b, n, i)
  <2>1. /\ ((A \o B) \o C) \o T \in Seq(S) /\ Len(((A \o B) \o C) \o T) = PRE_LEN + n + 4 * FCS_AUTO
        /\ \A i \in 1 .. PRE_LEN + n + 4 * FCS_AUTO :
             (((A \o B) \o C) \o T)[i] = IF i <= PRE_LEN + n THEN ((A \o B) \o C)[i] ELSE T[i - (PRE_LEN + n)]
    <3>1. PICK F : F = (A \o B) \o C
      OBVIOUS
    <3>2. F \in Seq(S) /\ Len(F) = PRE_LEN + n /\ T \in Seq(S) /\ Len(T) = 4 * FCS_AUTO
      BY <1>5, <1>9, <3>1
    <3>3. /\ F \o T \in Seq(S) /\ Len(F \o T) = Len(F) + Len(T)
          /\ \A i \in 1 .. Len(F) + Len(T) : (F \o T)[i] = IF i <= Len(F) THEN F[i] ELSE T[i - Len(F)]
      BY <3>2, ConcatProperties
    <3> QED
      BY <3>1, <3>2, <3>3
  <2>2. ASSUME NEW i \in 1 .. Total(n) PROVE (((A \o B) \o C) \o T)[i] = Symbol(s, b, n, i)
    <3>1. CASE i <= PRE_LEN + n
      <4>1. i \in 1 .. PRE_LEN + n /\ i \in 1 .. PRE_LEN + n + 4 * FCS_AUTO
        BY <1>1, <3>1
      <4> QED
        BY <1>9, <2>1, <3>1, <4>1
    <3>2. CASE ~(i <= PRE_LEN + n)
      <4>1. i - (PRE_LEN + n) \in 1 .. 4 * FCS_AUTO /\ PRE_LEN + n + (i - (PRE_LEN + n)) = i
        BY <1>1, <3>2
      <4> QED
        BY <1>1, <1>5, <2>1, <3>2, <4>1
    <3> QED
      BY <3>1, <3>2
  <2> QED
    BY <1>1, <2>1, <2>2
<1> QED
  BY <1>6, <1>7, <1>10, SeqEqual

\* Kind and Symbol, part by part.
LEMMA KindIs ==
  ASSUME NEW s \in Services, NEW n \in Fitting(s), NEW i \in Int
  PROVE  /\ Kind(n, i) = "DATA" <=> i \in PRE_LEN + 1 .. PRE_LEN + n
         /\ Kind(n, i) = "IPG" <=> i < 1 \/ i > Total(n)
         /\ Kind(n, i) = "PRE" <=> i \in 1 .. PRE_LEN - 1
         /\ Kind(n, i) = "SFD" <=> i = PRE_LEN
<1>1. /\ n \in Nat \ {0} /\ PRE_LEN \in 2 .. 15 /\ FCS_AUTO \in {0, 1}
      /\ Total(n) = PRE_LEN + n + 4 * FCS_AUTO
  BY LenTypes DEF Total
<1> QED
  BY <1>1 DEF Kind

LEMMA SymbolIs ==
  ASSUME NEW s \in Services, NEW n \in Fitting(s), NEW b, NEW i \in Int
  PROVE  /\ i \in 1 .. PRE_LEN - 1 => Symbol(s, b, n, i) = <<"55">>
         /\ Symbol(s, b, n, PRE_LEN) = <<"D5">>
         /\ i \in PRE_LEN + 1 .. PRE_LEN + n => Symbol(s, b, n, i) = <<s, b, i - PRE_LEN, n>>
         /\ i > PRE_LEN + n => Symbol(s, b, n, i) = <<Prefix(s, b, n, n), i - PRE_LEN - n>>
         /\ Symbol(s, b, n, i) # Idle
<1>1. n \in Nat \ {0} /\ PRE_LEN \in 2 .. 15
  BY LenTypes
<1> QED
  BY <1>1 DEF Symbol, Idle

\* What CrcAfter asks of the next state.
LEMMA CrcNext ==
  ASSUME NEW s, NEW b, NEW n, NEW q,
         crc' = IF q <= PRE_LEN \/ q >= PRE_LEN + n + 4 THEN Clean
                ELSE IF q <= PRE_LEN + n THEN [of |-> Prefix(s, b, n, q - PRE_LEN), shifted |-> 0]
                ELSE [of |-> Prefix(s, b, n, n), shifted |-> q - PRE_LEN - n],
         q \in PRE_LEN + n .. PRE_LEN + n + 3 => crc_q' = <<Prefix(s, b, n, n), q - PRE_LEN - n + 1>>
  PROVE  CrcAfter(s, b, n, q)'
BY DEF CrcAfter, Prefix, Clean

\* The CRC has exactly the bytes of the packet that are out.
LEMMA CrcFollows ==
  ASSUME Data, NEW s \in Services, NEW b, NEW n \in Fitting(s), NEW q \in Int, NEW r \in Int, r = q + 1, CrcAfter(s, b, n, q),
         sel[3] = Kind(n, r), sel[3] = "DATA" => buf_d = <<s, b, r - PRE_LEN, n>>
  PROVE  CrcAfter(s, b, n, r)'
<1>1. n \in Nat \ {0} /\ PRE_LEN \in 2 .. 15
  BY LenTypes
<1>2. CASE r \in PRE_LEN + 1 .. PRE_LEN + n
  <2>1. sel[3] = "DATA" /\ buf_d = <<s, b, r - PRE_LEN, n>>
    BY <1>2, KindIs
  <2>2. /\ crc' = [of |-> IF crc.shifted \in {0, 4} THEN Append(crc.of, buf_d) ELSE <<Blank>>, shifted |-> 0]
        /\ crc_q' = <<crc'.of, 1>>
    BY <2>1 DEF Data
  <2>3. crc.shifted \in {0, 4} /\ crc.of = Prefix(s, b, n, q - PRE_LEN)
    <3>1. CASE q = PRE_LEN
      <4>1. crc = Clean /\ q - PRE_LEN = 0
        BY <1>1, <3>1 DEF CrcAfter
      <4> QED
        BY <4>1, PrefixGrows DEF Clean
    <3>2. CASE q # PRE_LEN
      <4>1. crc = [of |-> Prefix(s, b, n, q - PRE_LEN), shifted |-> 0]
        BY <1>1, <1>2, <3>2 DEF CrcAfter
      <4> QED
        BY <4>1
    <3> QED
      BY <3>1, <3>2
  <2>4. Append(crc.of, buf_d) = Prefix(s, b, n, r - PRE_LEN)
    <3>1. q - PRE_LEN \in Nat /\ q - PRE_LEN + 1 = r - PRE_LEN
      BY <1>1, <1>2
    <3>2. Append(Prefix(s, b, n, q - PRE_LEN), <<s, b, q - PRE_LEN + 1, n>>) = Prefix(s, b, n, q - PRE_LEN + 1)
      BY <3>1, PrefixGrows
    <3> QED
      BY <2>1, <2>3, <3>1, <3>2
  <2>5. crc' = [of |-> Prefix(s, b, n, r - PRE_LEN), shifted |-> 0]
        /\ crc_q' = <<Prefix(s, b, n, r - PRE_LEN), 1>>
    BY <2>2, <2>3, <2>4
  <2>6. ~(r <= PRE_LEN \/ r >= PRE_LEN + n + 4) /\ r <= PRE_LEN + n
    BY <1>1, <1>2
  <2>7. r \in PRE_LEN + n .. PRE_LEN + n + 3 => r - PRE_LEN = n /\ r - PRE_LEN - n + 1 = 1
    BY <1>1, <1>2
  <2>8. r \in PRE_LEN + n .. PRE_LEN + n + 3
          => crc_q' = <<Prefix(s, b, n, n), r - PRE_LEN - n + 1>>
    BY <2>5, <2>7
  <2> QED
    <3>1. crc' = IF r <= PRE_LEN \/ r >= PRE_LEN + n + 4 THEN Clean
                 ELSE IF r <= PRE_LEN + n THEN [of |-> Prefix(s, b, n, r - PRE_LEN), shifted |-> 0]
                 ELSE [of |-> Prefix(s, b, n, n), shifted |-> r - PRE_LEN - n]
      BY <2>5, <2>6
    <3> QED
      BY <2>8, <3>1, CrcNext
<1>3. CASE ~(r \in PRE_LEN + 1 .. PRE_LEN + n)
  <2>1. sel[3] # "DATA"
    BY <1>3, KindIs
  <2>2. /\ crc' = IF crc.shifted >= 3 THEN Clean ELSE [crc EXCEPT !.shifted = @ + 1]
        /\ crc_q' = <<crc.of, crc.shifted + 2>>
    BY <2>1 DEF Data
  <2>3. CASE r <= PRE_LEN
    <3>1. crc = Clean
      BY <1>1, <2>3 DEF CrcAfter
    <3>2. crc' = Clean
      BY <2>2, <3>1 DEF Clean
    <3> QED
      BY <1>1, <2>3, <3>2 DEF CrcAfter
  <2>4. CASE r > PRE_LEN + n
    <3>1. CASE q < PRE_LEN + n + 4
      <4> DEFINE k == q - PRE_LEN - n
      <4>1. k \in 0 .. 3 /\ k + 1 = r - PRE_LEN - n /\ q - PRE_LEN - n = k
        BY <1>1, <2>4, <3>1
      <4>2. crc = [of |-> Prefix(s, b, n, n), shifted |-> k]
        <5>1. CASE q = PRE_LEN + n
          <6>1. q - PRE_LEN = n /\ k = 0 /\ ~(q <= PRE_LEN \/ q >= PRE_LEN + n + 4) /\ q <= PRE_LEN + n
            BY <1>1, <5>1
          <6> QED
            BY <6>1 DEF CrcAfter
        <5>2. CASE q # PRE_LEN + n
          <6>1. ~(q <= PRE_LEN \/ q >= PRE_LEN + n + 4) /\ ~(q <= PRE_LEN + n)
            BY <1>1, <2>4, <3>1, <5>2
          <6> QED
            BY <6>1, <4>1 DEF CrcAfter
        <5> QED
          BY <5>1, <5>2
      <4>3. crc_q' = <<Prefix(s, b, n, n), k + 2>>
        BY <2>2, <4>2
      <4>4. r \in PRE_LEN + n .. PRE_LEN + n + 3
              => crc_q' = <<Prefix(s, b, n, n), r - PRE_LEN - n + 1>>
        BY <4>1, <4>3
      <4>5. CASE k = 3
        <5>1. crc' = Clean
          BY <2>2, <4>2, <4>5
        <5>2. r >= PRE_LEN + n + 4
          BY <1>1, <4>1, <4>5
        <5> QED
          <6>1. crc' = IF r <= PRE_LEN \/ r >= PRE_LEN + n + 4 THEN Clean
                       ELSE IF r <= PRE_LEN + n THEN [of |-> Prefix(s, b, n, r - PRE_LEN), shifted |-> 0]
                       ELSE [of |-> Prefix(s, b, n, n), shifted |-> r - PRE_LEN - n]
            BY <5>1, <5>2
          <6> QED
            BY <4>4, <6>1, CrcNext
      <4>6. CASE k # 3
        <5>1. ~(k >= 3)
          BY <4>1, <4>6
        <5>2. crc' = [of |-> Prefix(s, b, n, n), shifted |-> k + 1]
          BY <2>2, <4>2, <5>1
        <5>3. ~(r <= PRE_LEN \/ r >= PRE_LEN + n + 4) /\ ~(r <= PRE_LEN + n)
          BY <1>1, <2>4, <4>1, <4>6
        <5>4. crc' = [of |-> Prefix(s, b, n, n), shifted |-> r - PRE_LEN - n]
          BY <4>1, <5>2
        <5> QED
          <6>1. crc' = IF r <= PRE_LEN \/ r >= PRE_LEN + n + 4 THEN Clean
                       ELSE IF r <= PRE_LEN + n THEN [of |-> Prefix(s, b, n, r - PRE_LEN), shifted |-> 0]
                       ELSE [of |-> Prefix(s, b, n, n), shifted |-> r - PRE_LEN - n]
            BY <5>3, <5>4
          <6> QED
            BY <4>4, <6>1, CrcNext
      <4> QED
        BY <4>5, <4>6
    <3>2. CASE q >= PRE_LEN + n + 4
      <4>1. crc = Clean
        BY <3>2 DEF CrcAfter
      <4>2. crc' = Clean
        BY <2>2, <4>1 DEF Clean
      <4>3. r >= PRE_LEN + n + 4 /\ r \notin PRE_LEN + n .. PRE_LEN + n + 3
        BY <1>1, <3>2
      <4> QED
        BY <4>2, <4>3 DEF CrcAfter
    <3> QED
      BY <1>1, <3>1, <3>2
  <2> QED
    BY <1>1, <1>3, <2>3, <2>4
<1> QED
  BY <1>2, <1>3

\* The symbol that is put out is the next of the frame.
LEMMA PutsOut ==
  ASSUME Data, NEW s \in Services, NEW b, NEW n \in Fitting(s), NEW q \in Int, NEW r \in Int, r = q + 1, CrcAfter(s, b, n, q),
         sel[3] = Kind(n, r), sel[3] = "DATA" => buf_d = <<s, b, r - PRE_LEN, n>>
  PROVE  umi' = IF r \in 1 .. Total(n) THEN Symbol(s, b, n, r) ELSE Idle
<1>1. /\ n \in Nat \ {0} /\ PRE_LEN \in 2 .. 15 /\ FCS_AUTO \in {0, 1}
      /\ Total(n) = PRE_LEN + n + 4 * FCS_AUTO
  BY LenTypes DEF Total
<1>2. /\ sel[3] = "IPG" => umi' = Idle
      /\ sel[3] = "PRE" => umi' = <<"55">>
      /\ sel[3] = "SFD" => umi' = <<"D5">>
      /\ sel[3] = "DATA" => umi' = buf_d
      /\ sel[3] \notin {"IPG", "PRE", "SFD", "DATA"} => umi' = crc_q
  BY DEF Data
<1>3. CASE r < 1 \/ r > Total(n)
  <2>1. sel[3] = "IPG"
    BY <1>3, KindIs
  <2> QED
    BY <1>1, <1>2, <1>3, <2>1
<1>4. CASE r \in 1 .. PRE_LEN - 1
  <2>1. sel[3] = "PRE" /\ Symbol(s, b, n, r) = <<"55">>
    BY <1>4, KindIs, SymbolIs
  <2> QED
    BY <1>1, <1>2, <1>4, <2>1
<1>5. CASE r = PRE_LEN
  <2>1. sel[3] = "SFD" /\ Symbol(s, b, n, r) = <<"D5">>
    BY <1>5, KindIs, SymbolIs
  <2> QED
    BY <1>1, <1>2, <1>5, <2>1
<1>6. CASE r \in PRE_LEN + 1 .. PRE_LEN + n
  <2>1. sel[3] = "DATA" /\ Symbol(s, b, n, r) = <<s, b, r - PRE_LEN, n>>
    <3>1. sel[3] = "DATA"
      BY <1>6, KindIs
    <3> QED
      BY <1>1, <1>6, <3>1 DEF Symbol
  <2> QED
    BY <1>1, <1>2, <1>6, <2>1
<1>7. CASE r \in PRE_LEN + n + 1 .. Total(n)
  <2>1. /\ ~(r < 1 \/ r > Total(n)) /\ r \notin 1 .. PRE_LEN - 1 /\ r # PRE_LEN
        /\ r \notin PRE_LEN + 1 .. PRE_LEN + n /\ r > PRE_LEN + n /\ r \in 1 .. Total(n)
        /\ q \in PRE_LEN + n .. PRE_LEN + n + 3 /\ r - PRE_LEN - n = q - PRE_LEN - n + 1
    BY <1>1, <1>7
  <2>2. sel[3] \notin {"IPG", "PRE", "SFD", "DATA"}
    BY <2>1, KindIs
  <2>3. Symbol(s, b, n, r) = <<Prefix(s, b, n, n), r - PRE_LEN - n>>
    <3>1. ~(r < PRE_LEN) /\ ~(r <= PRE_LEN + n)
      BY <1>1, <2>1
    <3> QED
      BY <1>1, <2>1, <3>1 DEF Symbol
  <2>4. crc_q = <<Prefix(s, b, n, n), q - PRE_LEN - n + 1>>
    BY <2>1 DEF CrcAfter
  <2> QED
    BY <1>2, <2>1, <2>2, <2>3, <2>4
<1> QED
  BY <1>1, <1>3, <1>4, <1>5, <1>6, <1>7

\* And the frame is what has been put out so far.
LEMMA OutFollows ==
  ASSUME Data, NEW s \in Services, NEW b \in 0 .. 1, NEW n \in Fitting(s), NEW q \in Int, NEW r \in Int, r = q + 1,
         CrcAfter(s, b, n, q), OutAfter(s, b, n, q),
         sel[3] = Kind(n, r), sel[3] = "DATA" => buf_d = <<s, b, r - PRE_LEN, n>>
  PROVE  OutAfter(s, b, n, r)'
<1>1. umi' = IF r \in 1 .. Total(n) THEN Symbol(s, b, n, r) ELSE Idle
  BY PutsOut
<1>2. frame' = IF umi' = Idle THEN frame ELSE IF umi = Idle THEN <<umi'>> ELSE Append(frame, umi')
  BY DEF Data
<1>3. /\ Symbol(s, b, n, r) # Idle /\ Symbol(s, b, n, q) # Idle /\ Total(n) \in Nat \ {0}
  <2>1. Total(n) = PRE_LEN + n + 4 * FCS_AUTO /\ n \in Nat \ {0} /\ PRE_LEN \in 2 .. 15 /\ FCS_AUTO \in {0, 1}
    BY LenTypes DEF Total
  <2> QED
    BY <2>1, SymbolIs
<1>4. CASE r < 1
  <2>1. umi = Idle /\ Complete
    BY <1>4 DEF OutAfter
  <2>2. umi' = Idle /\ frame' = frame
    BY <1>1, <1>2, <1>4
  <2>3. Complete'
    BY <2>1, <2>2 DEF Complete
  <2> QED
    BY <1>4, <2>2, <2>3 DEF OutAfter
<1>5. CASE r = 1
  <2>1. umi = Idle
    BY <1>5 DEF OutAfter
  <2>2. umi' = Symbol(s, b, n, 1) /\ frame' = <<umi'>>
    BY <1>1, <1>2, <1>3, <1>5, <2>1
  <2>3. frame' = Sent(s, b, n, 1)
    BY <2>2, SentGrows
  <2> QED
    BY <1>3, <1>5, <2>2, <2>3 DEF OutAfter
<1>6. CASE r \in 2 .. Total(n)
  <2>1. umi = Symbol(s, b, n, q) /\ frame = Sent(s, b, n, q) /\ q \in Nat
    BY <1>3, <1>6 DEF OutAfter
  <2>2. umi' = Symbol(s, b, n, r) /\ frame' = Append(frame, umi')
    BY <1>1, <1>2, <1>3, <1>6, <2>1
  <2>3. frame' = Sent(s, b, n, r)
    BY <2>1, <2>2, SentGrows
  <2> QED
    BY <1>3, <1>6, <2>2, <2>3 DEF OutAfter
<1>7. CASE r > Total(n)
  <2>1. frame = Sent(s, b, n, Total(n))
    <3>1. q = Total(n) \/ ~(q <= Total(n))
      BY <1>3, <1>7
    <3> QED
      BY <1>3, <1>7, <3>1 DEF OutAfter
  <2>2. umi' = Idle /\ frame' = frame
    BY <1>1, <1>2, <1>3, <1>7
  <2> QED
    BY <1>3, <1>7, <2>1, <2>2 DEF OutAfter
<1> QED
  BY <1>3, <1>4, <1>5, <1>6, <1>7

\* Where a byte is in its word.
LEMMA WordOf ==
  ASSUME NEW x \in Nat
  PROVE  \E y \in Nat, z \in 0 .. 3 : x \div 4 = y /\ x % 4 = z /\ 4 * y + z = x
<1>1. x \div 4 \in Nat /\ x - 4 * (x \div 4) \in 0 .. 3
  OBVIOUS
<1>2. PICK y \in Nat : y = x \div 4
  BY <1>1
<1>3. PICK z \in 0 .. 3 : z = x - 4 * y
  BY <1>1, <1>2
<1>4. x = 4 * y + z
  BY <1>3
<1>5. x % 4 = z
  BY <1>4
<1> QED
  BY <1>2, <1>4, <1>5

\* The descriptor the front end holds is the one of the service it sends for.
LEMMA HeldIs ==
  ASSUME SafeInv, FitInv, Holding,
         NEW s \in Services, NEW n \in Fitting(s), desc = [idx |-> idx[s], len |-> n]
  PROVE  len[s] = n /\ desc = D(s)
<1>1. PICK t \in Services : st[t] = "RSVD" /\ desc = D(t)
  BY DEF SafeInv, TokenInv, EachReserved, Reserved
<1>2. idx[s] = idx[t] /\ n = len[t] % QUEUE_LEN
  BY <1>1 DEF D
<1>3. s = t
  BY <1>2, DistinctPlaces
<1>4. len[t] % QUEUE_LEN = len[t]
  <2>1. st[t] # "FREE"
    BY <1>1
  <2>2. len[t] \in 1 .. room[t]
    BY <2>1, FittingIs DEF FitInv
  <2> QED
    BY <2>2, Fits
<1> QED
  BY <1>1, <1>2, <1>3, <1>4

\* In a packet the pipeline moves on by one symbol.
LEMMA MovesOn ==
  ASSUME SafeInv, FitInv, BufInv, CYCLES = 1, fe_state = "FCS" => FCS_AUTO = 1,
         FePre \/ FePkt \/ FeFcs \/ FeIpg, Pipeline,
         NEW s \in Services, NEW b \in 0 .. 1, NEW n \in Fitting(s),
         NEW q \in Int, NEW r \in Int, r = q + 1, Pos = q + 3, Sending(s, b, n, q)
  PROVE  Sending(s, b, n, r)' /\ Pos' = r + 3 /\ (fe_state' = "FCS" => FCS_AUTO = 1)
<1>1. /\ n \in Nat \ {0} /\ PRE_LEN \in 2 .. 15 /\ idx[s] \in Nat /\ BUF_SIZE \in Nat
      /\ idx[s] + n <= BUF_SIZE
  BY LenTypes, FittingIs, Fits, Sizes
<1>2. /\ desc = [idx |-> idx[s], len |-> n] /\ desc.idx = idx[s] /\ desc.len = n
      /\ Holding => st[s] = "RSVD" /\ build[s] = b
      /\ sel = <<Kind(n, q + 3), Kind(n, q + 2), Kind(n, q + 1)>>
      /\ sel[1] = Kind(n, q + 3) /\ sel[2] = Kind(n, q + 2) /\ sel[3] = Kind(n, q + 1)
      /\ sel[2] = "DATA" => word[bsel] = <<s, b, q + 2 - PRE_LEN, n>>
      /\ sel[3] = "DATA" => buf_d = <<s, b, q + 1 - PRE_LEN, n>>
      /\ CrcAfter(s, b, n, q) /\ OutAfter(s, b, n, q)
  BY DEF Sending
<1>3. /\ Pos' = Pos + 1 /\ desc' = desc
      /\ sel' = <<Kind(n, Pos + 1), sel[1], sel[2]>>
      /\ fe_state = "PKT" <=> Pos \in PRE_LEN + 1 .. PRE_LEN + n
      /\ fe_state' = "FCS" => FCS_AUTO = 1
      /\ Holding' => Holding
  <2>1. sel[1] = Kind(n, Pos)
    BY <1>2
  <2> QED
    BY <1>2, <2>1, Advances
<1>4. Buffer /\ Data /\ UNCHANGED <<st, build>>
  BY DEF Pipeline, fw
<1>5. sel' = <<Kind(n, r + 3), Kind(n, r + 2), Kind(n, r + 1)>>
  <2>1. Pos + 1 = r + 3 /\ q + 3 = r + 2 /\ q + 2 = r + 1
    OBVIOUS
  <2> QED
    BY <1>2, <1>3, <2>1
<1>6. sel'[2] = "DATA" => word'[bsel'] = <<s, b, r + 2 - PRE_LEN, n>>
  <2> SUFFICES ASSUME sel'[2] = "DATA" PROVE word'[bsel'] = <<s, b, r + 2 - PRE_LEN, n>>
    OBVIOUS
  <2> DEFINE i == q + 2 - PRE_LEN
  <2>1. fe_state = "PKT" /\ i \in 0 .. n - 1
    <3>1. Kind(n, r + 2) = "DATA"
      BY <1>5
    <3>2. r + 2 \in Int /\ Pos = r + 2
      OBVIOUS
    <3>3. r + 2 \in PRE_LEN + 1 .. PRE_LEN + n
      BY <3>1, <3>2, KindIs
    <3> QED
      BY <1>1, <1>3, <3>2, <3>3
  <2>2. buf_re = 1 /\ buf_len \in 1 .. n /\ buf_idx = idx[s] + n - buf_len
    BY <1>2, <2>1, HeldIsProper DEF SafeInv, TypeInv, ReadInv
  <2>3. buf_idx = idx[s] + i /\ buf_idx \in 0 .. BUF_SIZE - 1
    <3>1. Pos = PRE_LEN + 1 + n - buf_len
      BY <1>2, <2>1, PosIs
    <3> QED
      BY <1>1, <2>1, <2>2, <3>1
  <2>4. word' = [j \in 0 .. 3 |-> buf[4 * (buf_idx \div 4) + j]] /\ bsel' = buf_idx % 4
    BY <1>4, <2>2 DEF Buffer
  <2>5. word'[bsel'] = buf[buf_idx]
    <3>1. buf_idx \in Nat
      BY <2>3
    <3>2. PICK y \in Nat, j \in 0 .. 3 : buf_idx \div 4 = y /\ buf_idx % 4 = j /\ 4 * y + j = buf_idx
      BY <3>1, WordOf
    <3>3. word'[j] = buf[4 * y + j]
      BY <2>4, <3>2
    <3> QED
      BY <2>4, <3>2, <3>3
  <2>6. st[s] = "RSVD" /\ build[s] = b /\ len[s] = n
    <3>1. Holding
      BY <2>1 DEF Holding
    <3> QED
      BY <1>2, <3>1, HeldIs
  <2>7. buf[idx[s] + i] = <<s, b, i + 1, n>>
    BY <2>1, <2>6 DEF BufInv
  <2>8. i + 1 = r + 2 - PRE_LEN
    BY <1>1
  <2> QED
    BY <2>3, <2>5, <2>7, <2>8
<1>7. sel'[3] = "DATA" => buf_d' = <<s, b, r + 1 - PRE_LEN, n>>
  <2>1. buf_d' = word[bsel] /\ sel'[3] = sel[2]
    BY <1>3, <1>4 DEF Data
  <2>2. q + 2 - PRE_LEN = r + 1 - PRE_LEN
    BY <1>1
  <2> QED
    BY <1>2, <2>1, <2>2
<1>8. sel[3] = Kind(n, r) /\ (sel[3] = "DATA" => buf_d = <<s, b, r - PRE_LEN, n>>)
  <2>1. q + 1 = r /\ q + 1 - PRE_LEN = r - PRE_LEN
    BY <1>1
  <2> QED
    BY <1>2, <2>1
<1>9. CrcAfter(s, b, n, r)'
  BY <1>2, <1>4, <1>8, CrcFollows
<1>10. OutAfter(s, b, n, r)'
  BY <1>2, <1>4, <1>8, OutFollows
<1>11. desc' = [idx |-> idx[s], len |-> n] /\ (Holding' => st'[s] = "RSVD" /\ build'[s] = b)
  BY <1>2, <1>3, <1>4
<1>12. Sending(s, b, n, r)'
  BY <1>5, <1>6, <1>7, <1>9, <1>10, <1>11 DEF Sending
<1> QED
  BY <1>3, <1>12

\* Where nothing is under way, a frame begins, or nothing changes.
LEMMA QuietStays ==
  ASSUME Quiet, Data, sel' = <<"IPG", sel[1], sel[2]>>
  PROVE  Quiet'
<1>1. sel[1] = "IPG" /\ sel[2] = "IPG" /\ sel[3] = "IPG" /\ crc = Clean /\ umi = Idle /\ Complete
  BY DEF Quiet
<1>2. crc' = Clean
  BY <1>1 DEF Data, Clean
<1>3. umi' = Idle /\ frame' = frame
  BY <1>1 DEF Data
<1>4. Complete'
  BY <1>1, <1>3 DEF Complete
<1> QED
  BY <1>1, <1>2, <1>3, <1>4 DEF Quiet

LEMMA Begins ==
  ASSUME SafeInv, FitInv, Quiet, FeIdle, Pipeline, NEW q \in Int, q = -2
  PROVE  \E s \in Services, b \in 0 .. 1 : \E n \in Fitting(s) : Pos' = 1 /\ Sending(s, b, n, q)'
<1>1. /\ prq # <<>> /\ fe_state' = "PRE" /\ count' = 0 /\ sel' = <<"PRE", sel[1], sel[2]>> /\ desc' = prq[1]
  BY DEF FeIdle, Go
<1>2. PICK s \in Services : st[s] = "RSVD" /\ prq[1] = D(s)
  <2>1. prq \in Seq(Desc) /\ \A i \in 1 .. Len(prq) : Reserved(prq[i])
    BY DEF SafeInv, TypeInv, QueueType, TokenInv, EachReserved
  <2>2. 1 \in 1 .. Len(prq)
    BY <1>1, <2>1, Popped
  <2> QED
    BY <2>1, <2>2 DEF Reserved
<1>3. len[s] \in Fitting(s) /\ build[s] \in 0 .. 1 /\ UNCHANGED <<st, build, len>> /\ Data
  <2>1. st[s] # "FREE"
    BY <1>2
  <2>2. len[s] \in Fitting(s)
    BY <2>1 DEF FitInv
  <2> QED
    BY <2>2 DEF SafeInv, TypeInv, TypeOK, Pipeline, fw
<1> PICK n \in Fitting(s) : n = len[s]
  BY <1>3
<1> PICK b \in 0 .. 1 : b = build[s]
  BY <1>3
<1>4. /\ n \in Nat \ {0} /\ PRE_LEN \in 2 .. 15 /\ FCS_AUTO \in {0, 1}
      /\ Total(n) = PRE_LEN + n + 4 * FCS_AUTO
  BY <1>3, LenTypes DEF Total
<1>5. desc' = [idx |-> idx[s], len |-> n]
  <2>1. n % QUEUE_LEN = n
    BY FittingIs, Fits
  <2> QED
    BY <1>1, <1>2, <2>1 DEF D
<1>6. Pos' = 1
  BY <1>1, PosIsNext
<1>7. sel[1] = "IPG" /\ sel[2] = "IPG" /\ sel[3] = "IPG" /\ crc = Clean /\ umi = Idle /\ Complete
  BY DEF Quiet
<1>8. sel' = <<Kind(n, q + 3), Kind(n, q + 2), Kind(n, q + 1)>>
  <2>1. Kind(n, 1) = "PRE" /\ Kind(n, 0) = "IPG" /\ Kind(n, -1) = "IPG"
    BY <1>4 DEF Kind
  <2>2. q + 3 = 1 /\ q + 2 = 0 /\ q + 1 = -1
    OBVIOUS
  <2> QED
    BY <1>1, <1>7, <2>1, <2>2
<1>9. sel'[2] # "DATA" /\ sel'[3] # "DATA"
  BY <1>1, <1>7
<1>10. crc' = Clean /\ umi' = Idle /\ frame' = frame
  BY <1>3, <1>7 DEF Data, Clean
<1>11. CrcAfter(s, b, n, q)'
  <2>1. q <= PRE_LEN /\ ~(q \in PRE_LEN + n .. PRE_LEN + n + 3)
    BY <1>4
  <2> QED
    <3>1. crc' = IF q <= PRE_LEN \/ q >= PRE_LEN + n + 4 THEN Clean
                 ELSE IF q <= PRE_LEN + n THEN [of |-> Prefix(s, b, n, q - PRE_LEN), shifted |-> 0]
                 ELSE [of |-> Prefix(s, b, n, n), shifted |-> q - PRE_LEN - n]
      BY <1>10, <2>1
    <3> QED
      BY <2>1, <3>1, CrcNext
<1>12. OutAfter(s, b, n, q)'
  <2>1. Complete'
    BY <1>7, <1>10 DEF Complete
  <2> QED
    <3>1. q < 1
      OBVIOUS
    <3> QED
      BY <1>10, <2>1, <3>1 DEF OutAfter
<1>13. st'[s] = "RSVD" /\ build'[s] = b
  BY <1>2, <1>3
<1>14. Sending(s, b, n, q)'
  BY <1>5, <1>8, <1>9, <1>11, <1>12, <1>13 DEF Sending
<1> QED
  BY <1>6, <1>14

\* The gap ends with all of the frame out, and the firmware cannot take away
\* the reply that is being sent.
LEMMA Drained ==
  ASSUME NEW s \in Services, NEW b \in 0 .. 1, NEW n \in Fitting(s),
         NEW r \in Int, r >= Total(n) + 8, Sending(s, b, n, r)'
  PROVE  Quiet'
<1>1. /\ n \in Nat \ {0} /\ PRE_LEN \in 2 .. 15 /\ FCS_AUTO \in {0, 1}
      /\ Total(n) = PRE_LEN + n + 4 * FCS_AUTO
  BY LenTypes DEF Total
<1>2. Kind(n, r + 3) = "IPG" /\ Kind(n, r + 2) = "IPG" /\ Kind(n, r + 1) = "IPG"
  BY <1>1 DEF Kind
<1>3. sel' = <<"IPG", "IPG", "IPG">>
  BY <1>2 DEF Sending
<1>4. crc' = Clean
  <2>1. r >= PRE_LEN + n + 4
    BY <1>1
  <2> QED
    BY <2>1 DEF Sending, CrcAfter
<1>5. umi' = Idle /\ frame' = Sent(s, b, n, Total(n))
  <2>1. ~(r < 1) /\ ~(r <= Total(n))
    BY <1>1
  <2> QED
    BY <2>1 DEF Sending, OutAfter
<1> QED
  BY <1>3, <1>4, <1>5 DEF Quiet, Complete

LEMMA FirmwareWaits ==
  ASSUME SafeInv, FitInv, Firmware, NEW s \in Services, NEW b \in 0 .. 1, NEW n \in Fitting(s),
         NEW q \in Int, Sending(s, b, n, q)
  PROVE  Sending(s, b, n, q)'
<1>1. UNCHANGED fe
  BY DEF Firmware, TxFree, TxFreeNone, RxNone, TxSend, TxSendNone, RxRequest, Build
<1>2. ASSUME Holding PROVE st'[s] = "RSVD" /\ build'[s] = b
  <2>1. st[s] = "RSVD" /\ build[s] = b /\ desc = D(s)
    BY <1>2, HeldIs DEF Sending
  <2>2. st \in [Services -> {"FREE", "PEND", "RSVD"}] /\ build \in [Services -> 0 .. 1] /\ pfq \in Seq(Desc)
    BY DEF SafeInv, TypeInv, TypeOK, QueueType
  <2>3. CASE TxFree
    <3>1. 1 \in 1 .. Len(pfq)
      BY <2>2, <2>3, Popped DEF TxFree
    <3>2. pfq[1] # desc
      BY <1>2, <3>1 DEF SafeInv, TokenInv, EachOnce
    <3>3. s \notin Owner(pfq[1])
      <4>1. PICK t \in Services : st[t] = "RSVD" /\ pfq[1] = D(t)
        BY <3>1 DEF SafeInv, TokenInv, EachReserved, Reserved
      <4>2. Owner(pfq[1]) \subseteq {t}
        BY <4>1, OwnerIs DEF SafeInv
      <4>3. t # s
        BY <2>1, <3>2, <4>1
      <4> QED
        BY <4>2, <4>3
    <3> QED
      BY <2>1, <2>3, <3>3 DEF TxFree
  <2>4. ASSUME NEW t \in Services, TxSend(t) PROVE st'[s] = "RSVD" /\ build'[s] = b
    BY <2>1, <2>2, <2>4 DEF TxSend
  <2>5. ASSUME NEW t \in Services, NEW m \in Lens[t], RxRequest(t, m) PROVE st'[s] = "RSVD" /\ build'[s] = b
    <3>1. st[t] = "FREE" /\ st' = [st EXCEPT ![t] = "PEND"] /\ build' = [build EXCEPT ![t] = 1 - @]
      BY <2>5 DEF RxRequest, Build
    <3>2. t # s
      BY <2>1, <3>1
    <3> QED
      BY <2>1, <2>2, <3>1, <3>2
  <2>6. TxFreeNone \/ RxNone \/ (\E t \in Services : TxSendNone(t)) => UNCHANGED <<st, build>>
    BY DEF TxFreeNone, RxNone, TxSendNone
  <2> QED
    BY <2>1, <2>3, <2>4, <2>5, <2>6 DEF Firmware
<1>3. Holding' <=> Holding
  BY <1>1 DEF Holding, fe
<1> QED
  BY <1>1, <1>2, <1>3 DEF Sending, CrcAfter, OutAfter, Complete, fe

LEMMA InitPipe == Init => PipeInv
BY DEF Init, PipeInv, Quiet, Complete

LEMMA PipeStep ==
  ASSUME CYCLES = 1
  PROVE  SafeInv /\ FitInv /\ BufInv /\ PipeInv /\ [Next]_vars => PipeInv'
<1> SUFFICES ASSUME SafeInv, FitInv, BufInv, PipeInv, [Next]_vars PROVE PipeInv'
  OBVIOUS
<1>1. CASE Fe /\ (FePre \/ FePkt \/ FeFcs \/ FeIpg)
  <2>1. Pipeline /\ fe_state \notin {"IDLE", "FIN"} /\ (fe_state = "FCS" => FCS_AUTO = 1)
    BY <1>1 DEF Fe, FePre, FePkt, FeFcs, FeIpg, PipeInv
  <2> PICK s \in Services, b \in 0 .. 1 : \E n \in Fitting(s) : \E q \in Int : Pos = q + 3 /\ Sending(s, b, n, q)
    <3>1. fe_state \notin {"IDLE", "FIN"}
      BY <2>1
    <3> QED
      BY <3>1 DEF PipeInv
  <2>2. PICK n \in Fitting(s), q \in Int : Pos = q + 3 /\ Sending(s, b, n, q)
    OBVIOUS
  <2>3. PICK r \in Int : r = q + 1
    OBVIOUS
  <2>4. Sending(s, b, n, r)' /\ Pos' = r + 3 /\ (fe_state' = "FCS" => FCS_AUTO = 1)
    BY <1>1, <2>1, <2>2, <2>3, MovesOn
  <2>5. CASE fe_state' \notin {"IDLE", "FIN"}
    BY <2>4, <2>5 DEF PipeInv
  <2>6. CASE fe_state' \in {"IDLE", "FIN"}
    <3>1. Pos' = Total(n) + 11 /\ Total(n) \in Nat
      BY <2>4, <2>6, PosIsNext, LenTypes DEF Sending
    <3>2. r >= Total(n) + 8
      BY <2>4, <3>1
    <3>3. Quiet'
      BY <2>4, <3>2, Drained
    <3> QED
      BY <2>4, <2>6, <3>3 DEF PipeInv
  <2> QED
    BY <2>5, <2>6
<1>2. CASE FeIdle /\ Pipeline
  <2>1. Quiet /\ fe_state' = "PRE"
    BY <1>2 DEF FeIdle, Go, PipeInv
  <2>2. PICK q \in Int : q = -2
    OBVIOUS
  <2> PICK s \in Services, b \in 0 .. 1 : \E n \in Fitting(s) : Pos' = 1 /\ Sending(s, b, n, q)'
    BY <1>2, <2>1, <2>2, Begins
  <2>3. PICK n \in Fitting(s) : Pos' = 1 /\ Sending(s, b, n, q)'
    OBVIOUS
  <2>4. Pos' = q + 3
    BY <2>2, <2>3
  <2> QED
    BY <2>1, <2>3, <2>4 DEF PipeInv
<1>3. CASE (FeStay \/ FeFin) /\ Pipeline
  <2>1. Quiet /\ fe_state' \in {"IDLE", "FIN"} /\ sel' = <<sel[1], sel[1], sel[2]>>
    BY <1>3 DEF FeStay, FeFin, Go, PipeInv
  <2>2. Quiet'
    BY <1>3, <2>1, QuietStays DEF Quiet, Pipeline
  <2> QED
    BY <2>1, <2>2 DEF PipeInv
<1>4. CASE Firmware
  <2>1. UNCHANGED fe /\ Pos' = Pos
    BY <1>4 DEF Firmware, TxFree, TxFreeNone, RxNone, TxSend, TxSendNone, RxRequest, Build, fe, Pos, Total
  <2>2. CASE fe_state \in {"IDLE", "FIN"}
    BY <2>1, <2>2 DEF PipeInv, Quiet, Complete, fe
  <2>3. CASE fe_state \notin {"IDLE", "FIN"}
    <3> PICK s \in Services, b \in 0 .. 1 : \E n \in Fitting(s) : \E q \in Int : Pos = q + 3 /\ Sending(s, b, n, q)
      BY <2>3 DEF PipeInv
    <3>1. PICK n \in Fitting(s), q \in Int : Pos = q + 3 /\ Sending(s, b, n, q)
      OBVIOUS
    <3>2. Sending(s, b, n, q)' /\ Pos' = q + 3 /\ fe_state' = fe_state
      BY <1>4, <2>1, <3>1, FirmwareWaits DEF fe
    <3> QED
      BY <2>3, <3>2 DEF PipeInv
  <2> QED
    BY <2>2, <2>3
<1>5. CASE UNCHANGED vars
  <2>1. UNCHANGED fe /\ UNCHANGED <<st, build>> /\ Pos' = Pos
    BY <1>5 DEF vars, fw, fe, Pos, Total
  <2>2. CASE fe_state \in {"IDLE", "FIN"}
    BY <2>1, <2>2 DEF PipeInv, Quiet, Complete, fe
  <2>3. CASE fe_state \notin {"IDLE", "FIN"}
    <3> PICK s \in Services, b \in 0 .. 1 : \E n \in Fitting(s) : \E q \in Int : Pos = q + 3 /\ Sending(s, b, n, q)
      BY <2>3 DEF PipeInv
    <3>1. PICK n \in Fitting(s), q \in Int : Pos = q + 3 /\ Sending(s, b, n, q)
      OBVIOUS
    <3>2. Sending(s, b, n, q)'
      BY <2>1, <3>1 DEF Sending, Holding, CrcAfter, OutAfter, Complete, fe
    <3> QED
      BY <2>1, <2>3, <3>1, <3>2 DEF PipeInv, fe
  <2> QED
    BY <2>2, <2>3
<1> QED
  BY <1>1, <1>2, <1>3, <1>4, <1>5 DEF Next, Fe

\* At 1 Gbit/s, where umi_clken is always up, and until a reply is longer than
\* its room, every frame that memac_tx_fe.vhd sends is well formed
\* (FrameIsWellFormed): its bytes are a reply of one service as it was built
\* once, whole and in order, behind its preamble and before the FCS over exactly
\* its bytes.  Run tx_slow shows why CYCLES = 1 is needed: at 10 and 100 Mbit/s
\* umi_bsel is a byte ahead.
THEOREM FramesAreWellFormed ==
  ASSUME CYCLES = 1
  PROVE  Spec => []FrameIsWellFormed
<1> DEFINE I == SafeInv /\ (~spilt => FitInv /\ BufInv /\ PipeInv)
<1>1. Init => I
  BY InitType, InitToken, InitBuf, InitPipe DEF SafeInv
<1>2. I /\ [Next]_vars => I'
  <2>1. [Next]_vars /\ ~spilt' => ~spilt
    BY StillFits
  <2> QED
    BY <2>1, SafeStep, BufStep, PipeStep
<1>3. I => FrameIsWellFormed
  <2> SUFFICES ASSUME I, umi = Idle, frame # <<>>, ~spilt
               PROVE  \E s \in Services, b \in 0 .. 1 : \E n \in Fitting(s) : frame = Frame(Contents(s, b, n))
    BY DEF FrameIsWellFormed
  <2>0. PipeInv
    OBVIOUS
  <2>1. Complete \/ \E s \in Services, b \in 0 .. 1 : \E n \in Fitting(s) : frame = Sent(s, b, n, Total(n))
    <3>1. CASE fe_state \in {"IDLE", "FIN"}
      BY <2>0, <3>1 DEF PipeInv, Quiet
    <3>2. CASE fe_state \notin {"IDLE", "FIN"}
      <4> PICK s \in Services, b \in 0 .. 1 : \E n \in Fitting(s) : \E q \in Int : Sending(s, b, n, q)
        BY <2>0, <3>2 DEF PipeInv
      <4>1. PICK n \in Fitting(s), q \in Int : Sending(s, b, n, q)
        OBVIOUS
      <4>2. Symbol(s, b, n, q) # Idle
        BY SymbolIs
      <4> QED
        BY <4>1, <4>2 DEF Sending, OutAfter
    <3> QED
      BY <3>1, <3>2
  <2> PICK s \in Services, b \in 0 .. 1 : \E n \in Fitting(s) : frame = Sent(s, b, n, Total(n))
    BY <2>1 DEF Complete
  <2>2. PICK n \in Fitting(s) : frame = Sent(s, b, n, Total(n))
    OBVIOUS
  <2> QED
    BY <2>2, SentIsFrame
<1> HIDE DEF I
<1> QED
  BY <1>1, <1>2, <1>3, PTL DEF Spec
=============================================================================
