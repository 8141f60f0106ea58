------------------------------ MODULE MemacPdq -------------------------------
(***************************************************************************)
(* memac_pdq.vhd: the packet descriptor queue of the Ethernet MAC.  It     *)
(* carries packet descriptors between two clock domains: the writer's side *)
(* works on w_clk, the reader's on r_clk, and each sees the other only     *)
(* through a flag that compares the two Gray coded pointers and is passed  *)
(* through a three stage synchroniser (sync_reg_u.vhd).                    *)
(*                                                                         *)
(* An action is one rising edge of w_clk, of r_clk, or of both at once.    *)
(* In the last case a synchroniser samples a pointer that is just moving,  *)
(* and captures any mixture of its old and new bits.                       *)
(*                                                                         *)
(* The environment keeps the handshake of the component: a strobe is given *)
(* only in an enabled cycle in which the side's ready is high.             *)
(***************************************************************************)
EXTENDS Naturals, Sequences

CONSTANTS
  DEPTH,          \* slots of the ram, 2^DEPTH_LOG2
  Code,           \* pointer words
  Gray,           \* slot number -> pointer word     (bin2gray)
  Bin,            \* pointer word -> slot number     (gray2bin)
  Mix(_, _),      \* words sampled while a pointer moves
  Data,           \* descriptors
  Zero            \* the all-zero descriptor

ASSUME DepthAssumption == DEPTH \in Nat /\ DEPTH >= 2
ASSUME DataAssumption == Zero \in Data
ASSUME CodeAssumption ==
  /\ Gray \in [0 .. DEPTH-1 -> Code]
  /\ Bin \in [Code -> 0 .. DEPTH-1]
  /\ \A i \in 0 .. DEPTH-1 : Bin[Gray[i]] = i
  /\ \A c \in Code : Gray[Bin[c]] = c
\* Consecutive words differ in one bit: a moving pointer is sampled as its
\* old or its new value, and one at rest as what it is.
ASSUME MixAssumption ==
  \A c \in Code : /\ Mix(c, c) = {c}
                  /\ LET d == Gray[(Bin[c] + 1) % DEPTH] IN Mix(c, d) = {c, d}

VARIABLES
  a_rst,                                        \* asynchronous reset input
  ram,
  w_rst, w_ff, w_stb_r, w_ptr, w_ptr_1, w_rdy,  \* w_clk domain
  r_rst, r_ef, r_stb_r, r_ptr, r_data, r_rdy    \* r_clk domain

wvars == <<ram, w_rst, w_ff, w_stb_r, w_ptr, w_ptr_1, w_rdy>>
rvars == <<r_rst, r_ef, r_stb_r, r_ptr, r_data, r_rdy>>
vars  == <<a_rst, ram, w_rst, w_ff, w_stb_r, w_ptr, w_ptr_1, w_rdy,
           r_rst, r_ef, r_stb_r, r_ptr, r_data, r_rdy>>

Bit == {0, 1}
bool2sl(b) == IF b THEN 1 ELSE 0

\* Definitions named ...For, ...Before, ...Now, ...Only, Without... are slips the
\* code could have made; PROJECT.json names the property that catches each.

\* A three bit shift register (1 to 3): the synchronisers, and the delayed
\* strobes.  Bit 3 of a synchroniser is its output.
Reg == [1 .. 3 -> Bit]
All(b) == [i \in 1 .. 3 |-> b]
Shift(b, reg) == [i \in 1 .. 3 |-> IF i = 1 THEN b ELSE reg[i-1]]

\* w_stb_r and r_stb_r: the strobe, delayed.
DelayOnlyStrobes(stb, reg) == IF stb = 1 THEN Shift(stb, reg) ELSE reg
Delay(stb, reg) == Shift(stb, reg)

\* unsigned(stb & stb_r) = 0: no strobe now and in the last three cycles.
QuietForTwo(stb, reg) == stb = 0 /\ reg[1] = 0 /\ reg[2] = 0
QuietBefore(stb, reg) == \A i \in 1 .. 3 : reg[i] = 0
QuietNow(stb, reg) == stb = 0
Quiet(stb, reg) == stb = 0 /\ \A i \in 1 .. 3 : reg[i] = 0

\* The increment of a pointer wraps at the pointer's width.
bin2gray == Gray
gray2bin == Bin
Inc(ptr) == bin2gray[(gray2bin[ptr] + 1) % DEPTH]

-----------------------------------------------------------------------------
\* Configuration leaves the FPGA with every register at 0 and a_rst active.
Init ==
  /\ a_rst = 1
  /\ ram = [c \in Code |-> Zero]
  /\ w_rst = All(1) /\ w_ff = All(0) /\ w_stb_r = All(0)
  /\ w_ptr = bin2gray[0] /\ w_ptr_1 = bin2gray[1] /\ w_rdy = 1
  /\ r_rst = All(1) /\ r_ef = All(1) /\ r_stb_r = All(0)
  /\ r_ptr = bin2gray[0] /\ r_data = Zero /\ r_rdy = 0

\* a_rst rises: everything with an asynchronous reset is cleared at once;
\* the delayed strobes, w_ff and the ram have none.
AssertResetWithoutPtr1 ==
  /\ a_rst = 0
  /\ a_rst' = 1
  /\ w_rst' = All(1) /\ w_ptr' = bin2gray[0] /\ w_rdy' = 1
  /\ r_rst' = All(1) /\ r_ef' = All(1) /\ r_data' = Zero
  /\ r_ptr' = bin2gray[0] /\ r_rdy' = 0
  /\ UNCHANGED <<ram, w_ptr_1, w_ff, w_stb_r, r_stb_r>>
AssertReset ==
  /\ a_rst = 0
  /\ a_rst' = 1
  /\ w_rst' = All(1) /\ w_ptr' = bin2gray[0] /\ w_ptr_1' = bin2gray[1] /\ w_rdy' = 1
  /\ r_rst' = All(1) /\ r_ef' = All(1) /\ r_data' = Zero
  /\ r_ptr' = bin2gray[0] /\ r_rdy' = 0
  /\ UNCHANGED <<ram, w_ff, w_stb_r, r_stb_r>>

ReleaseReset ==
  /\ a_rst = 1
  /\ a_rst' = 0
  /\ UNCHANGED <<wvars, rvars>>

-----------------------------------------------------------------------------
\* U_SYNC_W_RST and U_SYNC_R_RST
RstSync(reg) == IF a_rst = 1 THEN All(1) ELSE Shift(0, reg)

\* P_W, with the synchronisers of its domain.  seen is the read pointer as
\* the comparison that drives ff sees it.
WEdge(clken, stb, d, seen) ==
  /\ w_rst' = RstSync(w_rst)
  /\ w_ff' = Shift(bool2sl(w_ptr_1 = seen), w_ff)
  /\ IF w_rst[3] = 1 \/ clken = 0
     THEN UNCHANGED <<ram, w_stb_r, w_ptr, w_ptr_1, w_rdy>>
     ELSE /\ w_stb_r' = Delay(stb, w_stb_r)
          /\ IF stb = 1
             THEN /\ ram' = [ram EXCEPT ![w_ptr] = d]
                  /\ w_ptr' = Inc(w_ptr)
                  /\ w_ptr_1' = Inc(w_ptr_1)
             ELSE UNCHANGED <<ram, w_ptr, w_ptr_1>>
          /\ w_rdy' = bool2sl(w_ff[3] = 0 /\ Quiet(stb, w_stb_r))

\* P_R, with the synchronisers of its domain.  seen is the write pointer as
\* the comparison that drives ef sees it, word the ram output.
REdge(clken, stb, seen, word) ==
  /\ r_rst' = RstSync(r_rst)
  /\ r_ef' = IF a_rst = 1 THEN All(1) ELSE Shift(bool2sl(seen = r_ptr), r_ef)
  /\ r_data' = IF a_rst = 1 THEN Zero ELSE word
  /\ IF r_rst[3] = 1 \/ clken = 0
     THEN UNCHANGED <<r_stb_r, r_ptr, r_rdy>>
     ELSE /\ r_stb_r' = Delay(stb, r_stb_r)
          /\ r_ptr' = IF stb = 1 THEN Inc(r_ptr) ELSE r_ptr
          /\ r_rdy' = bool2sl(r_ef[3] = 0 /\ Quiet(stb, r_stb_r))

\* A strobe is given only in an enabled cycle in which ready is high.
WStrobes(clken) == {stb \in Bit : stb = 1 => clken = 1 /\ w_rdy = 1}
RStrobes(clken) == {stb \in Bit : stb = 1 => clken = 1 /\ r_rdy = 1}

\* The strobe takes effect.
Push(stb) == stb = 1 /\ w_rst[3] = 0
Pop(stb)  == stb = 1 /\ r_rst[3] = 0

WTick(clken) ==
  \E stb \in WStrobes(clken), d \in Data :
    /\ WEdge(clken, stb, d, r_ptr)
    /\ UNCHANGED <<a_rst, rvars>>

RTick(clken) ==
  \E stb \in RStrobes(clken) :
    /\ REdge(clken, stb, w_ptr, ram[r_ptr])
    /\ UNCHANGED <<a_rst, wvars>>

\* Both clocks rise together.  The ram output is anything if the word it
\* shows is being written at that moment.
BothTick(wclken, rclken) ==
  \E wstb \in WStrobes(wclken), rstb \in RStrobes(rclken), d \in Data :
    LET wnext == IF Push(wstb) THEN Inc(w_ptr) ELSE w_ptr
        rnext == IF Pop(rstb) THEN Inc(r_ptr) ELSE r_ptr
        words == IF Push(wstb) /\ w_ptr = r_ptr THEN Data ELSE {ram[r_ptr]}
    IN \E wseen \in Mix(w_ptr, wnext), rseen \in Mix(r_ptr, rnext), word \in words :
         /\ WEdge(wclken, wstb, d, rseen)
         /\ REdge(rclken, rstb, wseen, word)
         /\ a_rst' = a_rst

Next ==
  \/ AssertReset
  \/ ReleaseReset
  \/ \E c \in Bit : WTick(c)
  \/ \E c \in Bit : RTick(c)
  \/ \E cw, cr \in Bit : BothTick(cw, cr)

\* Both clocks run and their enables keep coming back (at 10 and 100 Mbit/s
\* umi_clken is high every other cycle); a reset is released in the end.
Fairness ==
  /\ WF_vars(WTick(1) \/ \E c \in Bit : BothTick(1, c))
  /\ WF_vars(RTick(1) \/ \E c \in Bit : BothTick(c, 1))
  /\ WF_vars(ReleaseReset)

Spec == Init /\ [][Next]_vars
FairSpec == Spec /\ Fairness

-----------------------------------------------------------------------------
\* Slots in use, and the descriptors in them, oldest first.
used == (DEPTH + gray2bin[w_ptr] - gray2bin[r_ptr]) % DEPTH
queue == [i \in 1 .. used |-> ram[bin2gray[(gray2bin[r_ptr] + i - 1) % DEPTH]]]

\* Every register holds a value of its type, and w_ptr_1 stays one ahead of
\* w_ptr (memac_pdq.vhd increments the two separately).
TypeOK ==
  /\ a_rst \in Bit
  /\ ram \in [Code -> Data]
  /\ w_rst \in Reg /\ w_ff \in Reg /\ w_stb_r \in Reg /\ w_rdy \in Bit
  /\ w_ptr \in Code /\ w_ptr_1 = Inc(w_ptr)
  /\ r_rst \in Reg /\ r_ef \in Reg /\ r_stb_r \in Reg /\ r_rdy \in Bit
  /\ r_ptr \in Code /\ r_data \in Data

\* The writer is told "ready" only while a slot is free: the three cycle
\* holdoff after a strobe outlasts the latency of the full flag, so a second
\* descriptor never overwrites the oldest one.
NoOverflow == w_rdy = 1 => w_ptr_1 # r_ptr

\* The reader is told "ready" only while a descriptor is queued.
NoUnderflow == r_rdy = 1 => r_ptr # w_ptr

\* Whenever the reader is told "ready", r_data, which crosses the domains
\* through a single register, already shows the oldest queued descriptor and
\* not the one popped before it or a half written one.
HeadIsShown == r_rdy = 1 => r_data = ram[r_ptr]

\* What the reader is told and shown together is the oldest queued descriptor.
ReaderIsShownTheHead == NoUnderflow /\ HeadIsShown

\* No strobe in the last k enabled cycles.
NoStrobeFor(k, reg) == \A i \in 1 .. k : reg[i] = 0

\* Why the three hold: a flag found clear by stage k of its synchroniser is
\* still good unless a strobe followed it, and data is one cycle behind the
\* pointer it is read with.
FullFlagIsSafe ==
  \A k \in 1 .. 3 :
    w_ff[k] = 0 /\ NoStrobeFor(k, w_stb_r) => w_ptr_1 # r_ptr
EmptyFlagIsSafe ==
  \A k \in 1 .. 3 :
    r_ef[k] = 0 /\ NoStrobeFor(k, r_stb_r) => r_ptr # w_ptr
DataFollowsFlag ==
  r_ef[2] = 0 /\ NoStrobeFor(2, r_stb_r) => r_data = ram[r_ptr]

\* A reset is held until three r_clk edges have shifted it out, and the
\* reader is told nothing until then.
ReaderInReset ==
  /\ a_rst = 1 => r_rst = All(1)
  /\ r_rst[1] = 1 => r_rst[2] = 1
  /\ r_rst[2] = 1 => r_rst[3] = 1
  /\ r_rst[3] = 1 => r_rdy = 0

\* The inductive invariant of the queue's safety.
SafetyInv ==
  /\ TypeOK /\ ReaderInReset
  /\ FullFlagIsSafe /\ EmptyFlagIsSafe /\ DataFollowsFlag
  /\ NoOverflow /\ NoUnderflow /\ HeadIsShown

\* The writer's reset, three w_clk edges long; ready stays up through it, and
\* the full flag of before is shifted out by clear ones.
WriterInReset ==
  /\ a_rst = 1 => w_rst = All(1)
  /\ w_rst[1] = 1 => w_rst[2] = 1
  /\ w_rst[2] = 1 => w_rst[3] = 1
  /\ w_rst[3] = 1 => w_rdy = 1 /\ \A k \in 1 .. 3 : w_rst[k] = 0 => w_ff[k] = 0

\* Why a ready is not taken back: a flag found clear stays clear until the
\* next strobe, so a ready shown means that every stage is clear.
EmptyFlagsAgree ==
  \A k \in 1 .. 3 : r_ef[k] = 0 /\ NoStrobeFor(k, r_stb_r)
                       => \A j \in 1 .. k : r_ef[j] = 0
FullFlagsAgree ==
  \A k \in 1 .. 3 : w_rst[3] = 0 /\ w_ff[k] = 0 /\ NoStrobeFor(k, w_stb_r)
                       => \A j \in 1 .. k : w_ff[j] = 0
ReadReadyIsClear == r_rdy = 1 => r_ef = All(0) /\ r_stb_r = All(0)
WriteReadyIsClear ==
  w_rst[3] = 0 /\ w_rdy = 1 /\ w_stb_r = All(0) => w_ff = All(0)

\* The inductive invariant, beside SafetyInv, of the two properties below.
ReadyInv ==
  /\ WriterInReset
  /\ EmptyFlagsAgree /\ FullFlagsAgree
  /\ ReadReadyIsClear /\ WriteReadyIsClear

\* Ready is not taken back from a reader that has not answered it: a user may
\* look at r_rdy in one cycle and strobe in a later one, as the firmware does
\* through the bridge, unless a reset comes between.
ReadReadyStays == r_rdy = 1 /\ a_rst' = 0 => r_rdy' = 1 \/ r_ptr' # r_ptr

\* The same for the writer.  The delayed strobes are not reset, so the first
\* enabled cycles after a reset may still withdraw the ready that the reset
\* had forced: those cycles are excluded.
WriteReadyStays ==
  w_rdy = 1 /\ w_stb_r = All(0) /\ a_rst' = 0 => w_rdy' = 1 \/ w_ptr' # w_ptr

\* Neither side finds its ready withdrawn between looking at it and strobing.
ReadyHolds == [][ReadReadyStays /\ WriteReadyStays]_vars

\* A queued descriptor is offered to the reader, unless a reset flushes it.
OfferedToReader == used > 0 ~> r_rdy = 1 \/ a_rst = 1

\* A freed slot is offered to the writer again.
OfferedToWriter == used < DEPTH - 1 ~> w_rdy = 1

\* Neither side waits for the other for ever while there is something to do.
ReadyIsOffered == OfferedToReader /\ OfferedToWriter

-----------------------------------------------------------------------------
\* The queue is a bounded FIFO that loses, duplicates and reorders nothing.
Fifo == INSTANCE DescriptorFifo WITH CAPACITY <- DEPTH - 1
ImplementsFifo == Fifo!Spec
=============================================================================
