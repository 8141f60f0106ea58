-------------------------- MODULE MemacPdq_proofs ----------------------------
(***************************************************************************)
(* The descriptor queue of memac_pdq.vhd is safe, keeps its readies, and   *)
(* implements a bounded FIFO, for every depth, every pointer code that     *)
(* changes one bit per step and every descriptor type.  And wired as in    *)
(* memac_tx.vhd (MemacPost), or at 1000 Mbit/s with either wiring, a       *)
(* strobe of a front end posts its descriptor once, however long it lasts. *)
(***************************************************************************)
EXTENDS MemacPost, SequenceTheorems, TLAPS

\* The pointer increment is a one-to-one map on pointer words that moves
\* every pointer.
LEMMA IncType == \A c \in Code : Inc(c) \in Code
BY DepthAssumption, CodeAssumption DEF Inc, bin2gray, gray2bin

LEMMA IncInjective == \A c, d \in Code : Inc(c) = Inc(d) => c = d
<1> SUFFICES ASSUME NEW c \in Code, NEW d \in Code, Inc(c) = Inc(d) PROVE c = d
  OBVIOUS
<1> DEFINE x == Bin[c]  y == Bin[d]
<1>1. x \in 0 .. DEPTH-1 /\ y \in 0 .. DEPTH-1
  BY CodeAssumption
<1>2. (x + 1) % DEPTH \in 0 .. DEPTH-1 /\ (y + 1) % DEPTH \in 0 .. DEPTH-1
  BY <1>1, DepthAssumption
<1>3. (x + 1) % DEPTH = (y + 1) % DEPTH
  BY <1>2, CodeAssumption DEF Inc, bin2gray, gray2bin
<1>4. x = y
  BY <1>1, <1>3, DepthAssumption
<1> QED
  BY <1>4, CodeAssumption

LEMMA GrayZeroOne == bin2gray[0] \in Code /\ bin2gray[1] = Inc(bin2gray[0])
                     /\ bin2gray[1] # bin2gray[0]
<1>1. 0 \in 0 .. DEPTH-1 /\ 1 \in 0 .. DEPTH-1 /\ (0 + 1) % DEPTH = 1
  BY DepthAssumption
<1> QED
  BY <1>1, CodeAssumption DEF Inc, bin2gray, gray2bin

-----------------------------------------------------------------------------
\* Shift registers.
LEMMA ShiftReg ==
  ASSUME NEW b \in Bit, NEW reg \in Reg
  PROVE  /\ Shift(b, reg) \in Reg
         /\ Shift(b, reg)[1] = b
         /\ Shift(b, reg)[2] = reg[1]
         /\ Shift(b, reg)[3] = reg[2]
BY DEF Shift, Reg, Bit

LEMMA AllReg == \A b \in Bit : All(b) \in Reg /\ \A i \in 1 .. 3 : All(b)[i] = b
BY DEF All, Reg, Bit

LEMMA BoolBit == \A b \in BOOLEAN : bool2sl(b) \in Bit /\ (bool2sl(b) = 1 <=> b)
BY DEF bool2sl, Bit

-----------------------------------------------------------------------------
\* One edge of a clock leaves every register of its domain well typed.
LEMMA WEdgeType ==
  ASSUME TypeOK, NEW clken \in Bit, NEW strobe \in Bit, NEW d \in Data, NEW seen,
         WEdge(clken, strobe, d, seen)
  PROVE  /\ ram' \in [Code -> Data]
         /\ w_rst' \in Reg /\ w_ff' \in Reg /\ w_stb_r' \in Reg /\ w_rdy' \in Bit
         /\ w_ptr' \in Code /\ w_ptr_1' = Inc(w_ptr)' 
<1>1. 0 \in Bit /\ 1 \in Bit
  BY DEF Bit
<1>2. w_rst' \in Reg
  BY <1>1, ShiftReg, AllReg DEF WEdge, RstSync, TypeOK
<1>3. w_ff' \in Reg
  BY ShiftReg, BoolBit DEF WEdge, TypeOK
<1>4. CASE w_rst[3] = 1 \/ clken = 0
  BY <1>2, <1>3, <1>4 DEF WEdge, TypeOK, Inc
<1>5. CASE ~(w_rst[3] = 1 \/ clken = 0)
  <2>1. w_stb_r' \in Reg
    BY <1>5, ShiftReg DEF WEdge, TypeOK, Delay
  <2>2. w_rdy' \in Bit
    BY <1>5, BoolBit DEF WEdge, Quiet
  <2>3. /\ ram' \in [Code -> Data] /\ w_ptr' \in Code /\ w_ptr_1' = Inc(w_ptr')
    BY <1>5, IncType DEF WEdge, TypeOK
  <2> QED
    BY <2>1, <2>2, <2>3, <1>2, <1>3 DEF Inc
<1> QED
  BY <1>4, <1>5

LEMMA REdgeType ==
  ASSUME TypeOK, NEW clken \in Bit, NEW strobe \in Bit, NEW seen, NEW word \in Data,
         REdge(clken, strobe, seen, word)
  PROVE  /\ r_rst' \in Reg /\ r_ef' \in Reg /\ r_stb_r' \in Reg /\ r_rdy' \in Bit
         /\ r_ptr' \in Code /\ r_data' \in Data
<1>1. 0 \in Bit /\ 1 \in Bit
  BY DEF Bit
<1>2. r_rst' \in Reg
  BY <1>1, ShiftReg, AllReg DEF REdge, RstSync, TypeOK
<1>3. r_ef' \in Reg /\ r_data' \in Data
  BY <1>1, ShiftReg, AllReg, BoolBit, DataAssumption DEF REdge, TypeOK
<1>4. CASE r_rst[3] = 1 \/ clken = 0
  BY <1>2, <1>3, <1>4 DEF REdge, TypeOK
<1>5. CASE ~(r_rst[3] = 1 \/ clken = 0)
  <2>1. r_stb_r' \in Reg
    BY <1>5, ShiftReg DEF REdge, TypeOK, Delay
  <2>2. r_rdy' \in Bit
    BY <1>5, BoolBit DEF REdge, Quiet
  <2>3. r_ptr' \in Code
    BY <1>5, IncType DEF REdge, TypeOK
  <2> QED
    BY <2>1, <2>2, <2>3, <1>2, <1>3
<1> QED
  BY <1>4, <1>5

-----------------------------------------------------------------------------
\* What the other side may do meanwhile: rest, or take its one step when the
\* invariant lets it.  A moving pointer is seen as it was or as it will be.
ReadPtrRestsOrPops(seen) ==
  \/ r_ptr' = r_ptr /\ seen = r_ptr
  \/ r_ptr # w_ptr /\ r_ptr' = Inc(r_ptr) /\ seen \in {r_ptr, r_ptr'}
WritePtrRestsOrPushes(seen) ==
  \/ w_ptr' = w_ptr /\ seen = w_ptr
  \/ w_ptr_1 # r_ptr /\ w_ptr' = Inc(w_ptr) /\ seen \in {w_ptr, w_ptr'}

\* A pop cannot fill the queue, a push cannot empty it.
LEMMA PopKeepsRoom ==
  ASSUME TypeOK, NEW seen, ReadPtrRestsOrPops(seen), w_ptr_1 # r_ptr
  PROVE  w_ptr_1 # r_ptr' /\ w_ptr_1 # seen
BY IncInjective DEF TypeOK, ReadPtrRestsOrPops

LEMMA PushKeepsItems ==
  ASSUME TypeOK, NEW seen, WritePtrRestsOrPushes(seen), r_ptr # w_ptr
  PROVE  r_ptr # w_ptr' /\ r_ptr # seen
BY IncInjective DEF TypeOK, WritePtrRestsOrPushes

\* An edge of w_clk preserves the writer's half of the invariant.
LEMMA WEdgeSafe ==
  ASSUME SafetyInv, NEW clken \in Bit, NEW strobe \in WStrobes(clken),
         NEW d \in Data, NEW seen,
         WEdge(clken, strobe, d, seen), ReadPtrRestsOrPops(seen)
  PROVE  FullFlagIsSafe' /\ NoOverflow'
<1>0. TypeOK /\ FullFlagIsSafe /\ NoOverflow /\ strobe \in Bit
  BY DEF SafetyInv, WStrobes
<1>1. bool2sl(w_ptr_1 = seen) \in Bit /\ (bool2sl(w_ptr_1 = seen) = 0 <=> w_ptr_1 # seen)
  BY DEF bool2sl, Bit
<1>2. /\ w_ff'[1] = bool2sl(w_ptr_1 = seen)
      /\ w_ff'[2] = w_ff[1] /\ w_ff'[3] = w_ff[2]
  BY <1>0, <1>1, ShiftReg DEF WEdge, TypeOK
<1>3. w_ptr_1 # seen => w_ptr_1 # r_ptr'
  BY <1>0, IncInjective DEF TypeOK, ReadPtrRestsOrPops
<1>4. CASE w_rst[3] = 1 \/ clken = 0
  <2>1. w_ptr_1' = w_ptr_1 /\ w_stb_r' = w_stb_r /\ w_rdy' = w_rdy
    BY <1>4 DEF WEdge
  <2>2. NoOverflow'
    BY <2>1, <1>0, PopKeepsRoom DEF NoOverflow
  <2>3. ASSUME NEW k \in 1 .. 3, w_ff'[k] = 0, NoStrobeFor(k, w_stb_r)
        PROVE  w_ptr_1 # r_ptr'
    <3>1. CASE k = 1
      BY <3>1, <2>3, <1>1, <1>2, <1>3
    <3>2. CASE k # 1
      <4>1. k-1 \in 1 .. 3 /\ w_ff[k-1] = 0 /\ NoStrobeFor(k-1, w_stb_r)
        BY <3>2, <2>3, <1>2 DEF NoStrobeFor
      <4> QED
        BY <4>1, <1>0, PopKeepsRoom DEF FullFlagIsSafe
    <3> QED
      BY <3>1, <3>2
  <2> QED
    BY <2>1, <2>2, <2>3 DEF FullFlagIsSafe, NoStrobeFor
<1>5. CASE w_rst[3] # 1 /\ clken # 0 /\ strobe = 1
  <2>1. w_stb_r'[1] = 1 /\ w_rdy' = 0
    BY <1>0, <1>5, ShiftReg DEF WEdge, Delay, Quiet, bool2sl, TypeOK
  <2> QED
    BY <2>1 DEF FullFlagIsSafe, NoOverflow, NoStrobeFor
<1>6. CASE w_rst[3] # 1 /\ clken # 0 /\ strobe # 1
  <2>1. /\ w_ptr_1' = w_ptr_1
        /\ w_stb_r'[1] = strobe /\ w_stb_r'[2] = w_stb_r[1] /\ w_stb_r'[3] = w_stb_r[2]
        /\ w_rdy' = 1 => w_ff[3] = 0 /\ NoStrobeFor(3, w_stb_r)
    BY <1>0, <1>6, ShiftReg DEF WEdge, Delay, Quiet, bool2sl, TypeOK, NoStrobeFor
  <2>2. NoOverflow'
    BY <2>1, <1>0, PopKeepsRoom DEF NoOverflow, FullFlagIsSafe
  <2>3. ASSUME NEW k \in 1 .. 3, w_ff'[k] = 0, NoStrobeFor(k, w_stb_r')
        PROVE  w_ptr_1 # r_ptr'
    <3>1. CASE k = 1
      BY <3>1, <2>3, <1>1, <1>2, <1>3
    <3>2. CASE k # 1
      <4>1. k-1 \in 1 .. 3 /\ w_ff[k-1] = 0 /\ NoStrobeFor(k-1, w_stb_r)
        BY <3>2, <2>1, <2>3, <1>2 DEF NoStrobeFor
      <4> QED
        BY <4>1, <1>0, PopKeepsRoom DEF FullFlagIsSafe
    <3> QED
      BY <3>1, <3>2
  <2> QED
    BY <2>1, <2>2, <2>3 DEF FullFlagIsSafe, NoStrobeFor
<1> QED
  BY <1>4, <1>5, <1>6

\* An edge of r_clk preserves the reader's half.  ramNow is the ram while the
\* edge samples it: no cell but the one at w_ptr may be changing.
LEMMA REdgeSafe ==
  ASSUME SafetyInv, NEW clken \in Bit, NEW strobe \in RStrobes(clken),
         NEW seen, NEW word \in Data,
         REdge(clken, strobe, seen, word), WritePtrRestsOrPushes(seen),
         r_ptr # w_ptr => word = ram[r_ptr] /\ ram'[r_ptr] = ram[r_ptr]
  PROVE  EmptyFlagIsSafe' /\ DataFollowsFlag' /\ NoUnderflow' /\ HeadIsShown'
<1>0. /\ TypeOK /\ ReaderInReset /\ EmptyFlagIsSafe /\ NoUnderflow /\ HeadIsShown /\ strobe \in Bit
      /\ 0 \in Bit /\ 1 \in Bit
  BY DEF SafetyInv, RStrobes, Bit
<1>1. bool2sl(seen = r_ptr) \in Bit /\ (bool2sl(seen = r_ptr) = 0 <=> r_ptr # seen)
  BY DEF bool2sl, Bit
<1>2. /\ r_ef'[1] = 0 => r_ptr # seen
      /\ r_ef'[2] = 0 => r_ef[1] = 0
      /\ r_ef'[3] = 0 => r_ef[2] = 0
  <2>1. CASE a_rst = 1
    BY <2>1, <1>0, AllReg DEF REdge
  <2>2. CASE a_rst # 1
    BY <2>2, <1>0, <1>1, ShiftReg DEF REdge, TypeOK
  <2> QED
    BY <2>1, <2>2
<1>3. r_ptr # seen => r_ptr # w_ptr'
  BY <1>0, IncInjective DEF TypeOK, WritePtrRestsOrPushes
<1>4. r_ptr # w_ptr => r_ptr # w_ptr'
  BY <1>0, PushKeepsItems
<1>5. a_rst # 1 => r_data' = word
  BY DEF REdge
<1>6. a_rst = 1 => r_ef' = All(1)
  BY DEF REdge
<1>7. CASE r_rst[3] = 1 \/ clken = 0 \/ (r_rst[3] # 1 /\ clken # 0 /\ strobe # 1)
  <2>1. r_ptr' = r_ptr
    BY <1>7 DEF REdge
  <2>2. \/ r_stb_r' = r_stb_r
        \/ r_stb_r'[1] = 0 /\ r_stb_r'[2] = r_stb_r[1] /\ r_stb_r'[3] = r_stb_r[2]
    BY <1>0, <1>7, ShiftReg DEF REdge, TypeOK, Delay, Bit
  <2>3. r_rdy' = 1 => r_rdy = 1 \/ (r_ef[3] = 0 /\ NoStrobeFor(3, r_stb_r))
    BY <1>0, <1>7 DEF REdge, Quiet, bool2sl, NoStrobeFor
  <2>4. r_rdy' = 1 => r_ptr # w_ptr
    BY <2>3, <1>0 DEF NoUnderflow, EmptyFlagIsSafe
  <2>5. NoUnderflow'
    BY <2>1, <2>4, <1>4 DEF NoUnderflow
  <2>6. ASSUME NEW k \in 1 .. 3, k # 1, r_ef'[k] = 0, NoStrobeFor(k, r_stb_r)'
        PROVE  r_ptr # w_ptr
    <3>1. k-1 \in 1 .. 3 /\ r_ef[k-1] = 0 /\ NoStrobeFor(k-1, r_stb_r)
      BY <2>2, <2>6, <1>2 DEF NoStrobeFor
    <3> QED
      BY <3>1, <1>0 DEF EmptyFlagIsSafe
  <2>7. ASSUME NEW k \in 1 .. 3, r_ef'[k] = 0, NoStrobeFor(k, r_stb_r)'
        PROVE  r_ptr' # w_ptr'
    BY <2>6, <2>7, <2>1, <1>2, <1>3, <1>4
  <2>8. r_ef'[2] = 0 /\ NoStrobeFor(2, r_stb_r)' => r_data' = ram'[r_ptr']
    <3>1. SUFFICES ASSUME r_ef'[2] = 0, NoStrobeFor(2, r_stb_r)'
                   PROVE  r_data' = ram'[r_ptr']
      OBVIOUS
    <3>2. a_rst # 1
      BY <3>1, <1>6, AllReg, <1>0
    <3>3. r_ptr # w_ptr
      BY <3>1, <2>6
    <3> QED
      BY <3>2, <3>3, <2>1, <1>5
  <2>9. HeadIsShown'
    <3>1. CASE a_rst # 1
      BY <3>1, <2>1, <2>4, <1>5 DEF HeadIsShown
    <3>2. CASE a_rst = 1
      <4>1. r_rst[3] = 1 /\ r_rdy = 0
        BY <3>2, <1>0, AllReg DEF ReaderInReset
      <4> QED
        BY <4>1 DEF HeadIsShown, REdge
    <3> QED
      BY <3>1, <3>2
  <2> QED
    BY <2>5, <2>7, <2>8, <2>9 DEF EmptyFlagIsSafe, DataFollowsFlag
<1>8. CASE r_rst[3] # 1 /\ clken # 0 /\ strobe = 1
  <2>1. r_stb_r'[1] = 1 /\ r_rdy' = 0
    BY <1>0, <1>8, ShiftReg DEF REdge, Delay, Quiet, bool2sl, TypeOK
  <2> QED
    BY <2>1 DEF EmptyFlagIsSafe, DataFollowsFlag, NoUnderflow, HeadIsShown, NoStrobeFor
<1> QED
  BY <1>7, <1>8

LEMMA REdgeReset ==
  ASSUME TypeOK, ReaderInReset, NEW clken \in Bit, NEW strobe \in Bit, NEW seen,
         NEW word \in Data, REdge(clken, strobe, seen, word), a_rst' = a_rst
  PROVE  ReaderInReset'
<1>1. 0 \in Bit /\ 1 \in Bit /\ r_rst \in Reg
  BY DEF Bit, TypeOK
<1>2. CASE a_rst = 1
  <2>1. r_rst' = All(1) /\ r_rst[3] = 1
    BY <1>1, <1>2, AllReg DEF REdge, RstSync, ReaderInReset
  <2>2. r_rdy' = r_rdy
    BY <2>1 DEF REdge
  <2> QED
    BY <2>1, <2>2, <1>1, AllReg DEF ReaderInReset
<1>3. CASE a_rst # 1
  <2>1. r_rst'[1] = 0 /\ r_rst'[2] = r_rst[1] /\ r_rst'[3] = r_rst[2]
    BY <1>1, <1>3, ShiftReg DEF REdge, RstSync
  <2>2. r_rst[3] = 1 => r_rdy' = r_rdy
    BY DEF REdge
  <2> QED
    BY <1>3, <2>1, <2>2 DEF ReaderInReset
<1> QED
  BY <1>2, <1>3

-----------------------------------------------------------------------------
\* The effect of an edge on the other side's view of its pointer.
LEMMA WEdgePtr ==
  ASSUME SafetyInv, NEW clken \in Bit, NEW strobe \in WStrobes(clken),
         NEW d \in Data, NEW seen, WEdge(clken, strobe, d, seen)
  PROVE  /\ w_ptr' = IF Push(strobe) THEN Inc(w_ptr) ELSE w_ptr
         /\ Push(strobe) => w_ptr_1 # r_ptr
         /\ r_ptr # w_ptr => ram'[r_ptr] = ram[r_ptr]
         /\ ~Push(strobe) => ram' = ram
<1>1. /\ TypeOK /\ NoOverflow
      /\ strobe \in Bit /\ (strobe = 1 => clken = 1 /\ w_rdy = 1)
  BY DEF SafetyInv, WStrobes
<1>2. w_rst[3] = 0 \/ w_rst[3] = 1
  BY <1>1 DEF TypeOK, Reg, Bit
<1>3. clken = 0 \/ clken = 1
  BY DEF Bit
<1> QED
  BY <1>1, <1>2, <1>3 DEF WEdge, Push, NoOverflow, TypeOK

LEMMA REdgePtr ==
  ASSUME SafetyInv, NEW clken \in Bit, NEW strobe \in RStrobes(clken),
         NEW word, NEW seen, REdge(clken, strobe, seen, word)
  PROVE  /\ r_ptr' = IF Pop(strobe) THEN Inc(r_ptr) ELSE r_ptr
         /\ Pop(strobe) => r_ptr # w_ptr
<1>1. /\ TypeOK /\ NoUnderflow
      /\ strobe \in Bit /\ (strobe = 1 => clken = 1 /\ r_rdy = 1)
  BY DEF SafetyInv, RStrobes
<1>2. r_rst[3] = 0 \/ r_rst[3] = 1
  BY <1>1 DEF TypeOK, Reg, Bit
<1>3. clken = 0 \/ clken = 1
  BY DEF Bit
<1> QED
  BY <1>1, <1>2, <1>3 DEF REdge, Pop, NoUnderflow

-----------------------------------------------------------------------------
LEMMA InitSafe == Init => SafetyInv
<1> SUFFICES ASSUME Init PROVE SafetyInv
  OBVIOUS
<1>1. 0 \in Bit /\ 1 \in Bit /\ 0 # 1
  BY DEF Bit
<1>2. TypeOK
  BY <1>1, AllReg, GrayZeroOne, DataAssumption DEF Init, TypeOK
<1>3. w_ptr_1 # r_ptr
  BY GrayZeroOne DEF Init
<1>4. r_ef = All(1) /\ r_rst = All(1) /\ r_rdy = 0
  BY DEF Init
<1> QED
  BY <1>1, <1>2, <1>3, <1>4, AllReg
  DEF SafetyInv, FullFlagIsSafe, EmptyFlagIsSafe, DataFollowsFlag, ReaderInReset,
      NoOverflow, NoUnderflow, HeadIsShown

LEMMA AssertResetSafe == SafetyInv /\ AssertReset => SafetyInv'
<1> SUFFICES ASSUME SafetyInv, AssertReset PROVE SafetyInv'
  OBVIOUS
<1>1. 0 \in Bit /\ 1 \in Bit /\ 0 # 1 /\ TypeOK
  BY DEF Bit, SafetyInv
<1>2. TypeOK'
  BY <1>1, AllReg, GrayZeroOne, DataAssumption DEF AssertReset, TypeOK, Inc
<1>3. w_ptr_1' # r_ptr'
  BY GrayZeroOne DEF AssertReset
<1>4. r_ef' = All(1) /\ r_rst' = All(1) /\ r_rdy' = 0
  BY DEF AssertReset
<1> QED
  BY <1>1, <1>2, <1>3, <1>4, AllReg
  DEF SafetyInv, FullFlagIsSafe, EmptyFlagIsSafe, DataFollowsFlag, ReaderInReset,
      NoOverflow, NoUnderflow, HeadIsShown

LEMMA WTickSafe ==
  ASSUME SafetyInv, NEW c \in Bit, WTick(c)
  PROVE  SafetyInv'
<1>1. PICK strobe \in WStrobes(c), d \in Data :
        WEdge(c, strobe, d, r_ptr) /\ UNCHANGED <<a_rst, rvars>>
  BY DEF WTick
<1>2. TypeOK /\ strobe \in Bit /\ r_ptr' = r_ptr
  BY <1>1 DEF SafetyInv, WStrobes, rvars
<1>3. TypeOK'
  BY <1>1, <1>2, WEdgeType DEF TypeOK, rvars
<1>4. ReadPtrRestsOrPops(r_ptr)
  BY <1>2 DEF ReadPtrRestsOrPops
<1>5. FullFlagIsSafe' /\ NoOverflow'
  BY <1>1, <1>4, WEdgeSafe
<1>6. r_ptr # w_ptr => r_ptr # w_ptr' /\ ram'[r_ptr] = ram[r_ptr]
  BY <1>1, <1>2, WEdgePtr, IncInjective DEF TypeOK
<1>7. EmptyFlagIsSafe' /\ NoUnderflow'
  BY <1>1, <1>6 DEF SafetyInv, EmptyFlagIsSafe, NoUnderflow, NoStrobeFor, rvars
<1>8. r_ef[2] = 0 /\ NoStrobeFor(2, r_stb_r) => r_ptr # w_ptr
  BY DEF SafetyInv, EmptyFlagIsSafe
<1>9. DataFollowsFlag' /\ HeadIsShown' /\ ReaderInReset'
  BY <1>1, <1>6, <1>8
  DEF SafetyInv, DataFollowsFlag, HeadIsShown, NoUnderflow, NoStrobeFor, rvars,
      ReaderInReset
<1> QED
  BY <1>3, <1>5, <1>7, <1>9 DEF SafetyInv

LEMMA RTickSafe ==
  ASSUME SafetyInv, NEW c \in Bit, RTick(c)
  PROVE  SafetyInv'
<1>1. PICK strobe \in RStrobes(c) :
        REdge(c, strobe, w_ptr, ram[r_ptr]) /\ UNCHANGED <<a_rst, wvars>>
  BY DEF RTick
<1>2. TypeOK /\ strobe \in Bit /\ w_ptr' = w_ptr /\ ram' = ram /\ ram[r_ptr] \in Data
      /\ w_ptr_1' = w_ptr_1 /\ a_rst' = a_rst
  BY <1>1 DEF SafetyInv, RStrobes, wvars, TypeOK
<1>3. TypeOK'
  BY <1>1, <1>2, REdgeType DEF TypeOK, wvars, Inc
<1>4. WritePtrRestsOrPushes(w_ptr)
  BY <1>2 DEF WritePtrRestsOrPushes
<1>5. EmptyFlagIsSafe' /\ DataFollowsFlag' /\ NoUnderflow' /\ HeadIsShown'
  BY <1>1, <1>2, <1>4, REdgeSafe
<1>6. w_ptr_1 # r_ptr => w_ptr_1 # r_ptr'
  BY <1>1, <1>2, REdgePtr, IncInjective DEF TypeOK
<1>7. FullFlagIsSafe' /\ NoOverflow'
  BY <1>1, <1>2, <1>6 DEF SafetyInv, FullFlagIsSafe, NoOverflow, NoStrobeFor, wvars
<1>8. ReaderInReset'
  BY <1>1, <1>2, REdgeReset DEF SafetyInv
<1> QED
  BY <1>3, <1>5, <1>7, <1>8 DEF SafetyInv

\* When both clocks rise together, each side sees the pointer of the other as
\* it was or as it will be, and the reader samples a ram cell at rest.
LEMMA BothTickEdges ==
  ASSUME SafetyInv, NEW cw \in Bit, NEW cr \in Bit, BothTick(cw, cr)
  PROVE  \E wstb \in WStrobes(cw), rstb \in RStrobes(cr), d \in Data,
            wseen \in Code, rseen \in Code, word \in Data :
           /\ WEdge(cw, wstb, d, rseen) /\ ReadPtrRestsOrPops(rseen)
           /\ REdge(cr, rstb, wseen, word) /\ WritePtrRestsOrPushes(wseen)
           /\ r_ptr # w_ptr => word = ram[r_ptr] /\ ram'[r_ptr] = ram[r_ptr]
           /\ a_rst' = a_rst
<1> DEFINE wnext(s) == IF Push(s) THEN Inc(w_ptr) ELSE w_ptr
           rnext(s) == IF Pop(s) THEN Inc(r_ptr) ELSE r_ptr
           words(s) == IF Push(s) /\ w_ptr = r_ptr THEN Data ELSE {ram[r_ptr]}
<1>0. PICK wstb \in WStrobes(cw), rstb \in RStrobes(cr), d \in Data :
        \E wseen \in Mix(w_ptr, wnext(wstb)), rseen \in Mix(r_ptr, rnext(rstb)),
           word \in words(wstb) :
          WEdge(cw, wstb, d, rseen) /\ REdge(cr, rstb, wseen, word) /\ a_rst' = a_rst
  BY DEF BothTick
<1>1. PICK wseen \in Mix(w_ptr, wnext(wstb)), rseen \in Mix(r_ptr, rnext(rstb)),
           word \in words(wstb) :
        WEdge(cw, wstb, d, rseen) /\ REdge(cr, rstb, wseen, word) /\ a_rst' = a_rst
  BY <1>0
<1>2. TypeOK
  BY DEF SafetyInv
<1>3. word \in Data
  BY <1>2 DEF TypeOK
<1>4. /\ w_ptr' = wnext(wstb)
      /\ Push(wstb) => w_ptr_1 # r_ptr
      /\ r_ptr # w_ptr => ram'[r_ptr] = ram[r_ptr]
  BY <1>1, WEdgePtr
<1>5. r_ptr' = rnext(rstb) /\ (Pop(rstb) => r_ptr # w_ptr)
  BY <1>1, REdgePtr
<1>6. \A c \in Code : Mix(c, c) = {c} /\ Mix(c, Inc(c)) = {c, Inc(c)}
  BY MixAssumption DEF Inc, bin2gray, gray2bin
<1>7. ReadPtrRestsOrPops(rseen) /\ rseen \in Code
  BY <1>2, <1>5, <1>6, IncType DEF ReadPtrRestsOrPops, TypeOK
<1>8. WritePtrRestsOrPushes(wseen) /\ wseen \in Code
  BY <1>2, <1>4, <1>6, IncType DEF WritePtrRestsOrPushes, TypeOK
<1> QED
  BY <1>1, <1>3, <1>4, <1>7, <1>8

LEMMA BothTickSafe ==
  ASSUME SafetyInv, NEW cw \in Bit, NEW cr \in Bit, BothTick(cw, cr)
  PROVE  SafetyInv'
<1>1. PICK wstb \in WStrobes(cw), rstb \in RStrobes(cr), d \in Data,
           wseen \in Code, rseen \in Code, word \in Data :
        /\ WEdge(cw, wstb, d, rseen) /\ ReadPtrRestsOrPops(rseen)
        /\ REdge(cr, rstb, wseen, word) /\ WritePtrRestsOrPushes(wseen)
        /\ r_ptr # w_ptr => word = ram[r_ptr] /\ ram'[r_ptr] = ram[r_ptr]
        /\ a_rst' = a_rst
  BY BothTickEdges
<1>2. TypeOK /\ wstb \in Bit /\ rstb \in Bit
  BY DEF SafetyInv, WStrobes, RStrobes
<1>3. TypeOK'
  <2>1. a_rst' \in Bit
    BY <1>1, <1>2 DEF TypeOK
  <2> QED
    BY <2>1, <1>1, <1>2, WEdgeType, REdgeType DEF TypeOK
<1>4. FullFlagIsSafe' /\ NoOverflow'
  BY <1>1, WEdgeSafe
<1>5. EmptyFlagIsSafe' /\ DataFollowsFlag' /\ NoUnderflow' /\ HeadIsShown'
  BY <1>1, REdgeSafe
<1>6. ReaderInReset'
  BY <1>1, <1>2, REdgeReset DEF SafetyInv
<1> QED
  BY <1>3, <1>4, <1>5, <1>6 DEF SafetyInv

\* The invariant is inductive.
THEOREM SafetyInvariant == Spec => []SafetyInv
<1>1. Init => SafetyInv
  BY InitSafe
<1>2. SafetyInv /\ [Next]_vars => SafetyInv'
  <2> SUFFICES ASSUME SafetyInv, [Next]_vars PROVE SafetyInv'
    OBVIOUS
  <2>1. CASE AssertReset
    BY <2>1, AssertResetSafe
  <2>2. CASE ReleaseReset
    BY <2>2
    DEF ReleaseReset, SafetyInv, TypeOK, Inc, Bit, wvars, rvars, FullFlagIsSafe,
        EmptyFlagIsSafe, DataFollowsFlag, NoOverflow, NoUnderflow, HeadIsShown,
        NoStrobeFor, ReaderInReset
  <2>3. ASSUME NEW c \in Bit, WTick(c) PROVE SafetyInv'
    BY <2>3, WTickSafe
  <2>4. ASSUME NEW c \in Bit, RTick(c) PROVE SafetyInv'
    BY <2>4, RTickSafe
  <2>5. ASSUME NEW cw \in Bit, NEW cr \in Bit, BothTick(cw, cr) PROVE SafetyInv'
    BY <2>5, BothTickSafe
  <2>6. CASE UNCHANGED vars
    BY <2>6
    DEF vars, SafetyInv, TypeOK, Inc, FullFlagIsSafe, EmptyFlagIsSafe, ReaderInReset,
        DataFollowsFlag, NoOverflow, NoUnderflow, HeadIsShown, NoStrobeFor
  <2> QED
    BY <2>1, <2>2, <2>3, <2>4, <2>5, <2>6 DEF Next
<1> QED
  BY <1>1, <1>2, PTL DEF Spec

\* Every register of the queue keeps its type, and the two pointers the writer
\* increments separately stay one apart.
THEOREM TypeCorrect == Spec => []TypeOK
<1>1. SafetyInv => TypeOK
  BY DEF SafetyInv
<1> QED
  BY <1>1, SafetyInvariant, PTL

\* "Ready to write" is never shown while the queue is full.
THEOREM WriterNeverOverflows == Spec => []NoOverflow
<1>1. SafetyInv => NoOverflow
  BY DEF SafetyInv
<1> QED
  BY <1>1, SafetyInvariant, PTL

\* "Ready to read" is never shown while the queue is empty, and then the data
\* output is the oldest descriptor.
THEOREM ReaderSeesTheHead == Spec => []ReaderIsShownTheHead
<1>1. SafetyInv => ReaderIsShownTheHead
  BY DEF SafetyInv, ReaderIsShownTheHead
<1> QED
  BY <1>1, SafetyInvariant, PTL

-----------------------------------------------------------------------------
(***************************************************************************)
(* The ready outputs are not taken back: their users may look at a ready   *)
(* in one cycle and strobe in a later one.                                 *)
(***************************************************************************)

LEMMA IncMoves == \A c \in Code : Inc(c) # c
<1> SUFFICES ASSUME NEW c \in Code, Inc(c) = c PROVE FALSE
  OBVIOUS
<1>1. Bin[c] \in 0 .. DEPTH-1
  BY CodeAssumption
<1>2. (Bin[c] + 1) % DEPTH \in 0 .. DEPTH-1 /\ (Bin[c] + 1) % DEPTH # Bin[c]
  BY <1>1, DepthAssumption
<1> QED
  BY <1>2, CodeAssumption DEF Inc, bin2gray, gray2bin

LEMMA RegIsZero == \A reg \in Reg : NoStrobeFor(3, reg) <=> reg = All(0)
BY DEF NoStrobeFor, Reg, All, Bit

-----------------------------------------------------------------------------
\* An edge of r_clk keeps the reader's half.
LEMMA REdgeReady ==
  ASSUME SafetyInv, EmptyFlagsAgree, ReadReadyIsClear,
         NEW clken \in Bit, NEW strobe \in RStrobes(clken), NEW seen, NEW word \in Data,
         REdge(clken, strobe, seen, word), WritePtrRestsOrPushes(seen)
  PROVE  EmptyFlagsAgree' /\ ReadReadyIsClear'
<1>0. /\ TypeOK /\ ReaderInReset /\ EmptyFlagIsSafe /\ NoUnderflow /\ strobe \in Bit
      /\ 0 \in Bit /\ 1 \in Bit
  BY DEF SafetyInv, RStrobes, Bit
<1>1. bool2sl(seen = r_ptr) \in Bit /\ (r_ptr # seen => bool2sl(seen = r_ptr) = 0)
  BY DEF bool2sl, Bit
<1>2. CASE a_rst = 1
  <2>1. r_ef' = All(1) /\ r_rdy' = r_rdy /\ r_rdy = 0
    BY <1>0, <1>2, AllReg DEF REdge, ReaderInReset
  <2> QED
    BY <2>1, <1>0, AllReg DEF EmptyFlagsAgree, ReadReadyIsClear
<1>3. CASE a_rst # 1
  <2>1. /\ r_ef'[1] = bool2sl(seen = r_ptr) /\ r_ef'[2] = r_ef[1] /\ r_ef'[3] = r_ef[2]
        /\ r_ef' \in Reg
    BY <1>0, <1>1, <1>3, ShiftReg DEF REdge, TypeOK
  <2>2. r_ptr # w_ptr => r_ef'[1] = 0
    BY <1>0, <1>1, <2>1, PushKeepsItems
  <2>3. CASE r_rst[3] = 1 \/ clken = 0 \/ (r_rst[3] # 1 /\ clken # 0 /\ strobe # 1)
    <3>1. /\ r_stb_r' \in Reg
          /\ \/ r_stb_r' = r_stb_r
             \/ r_stb_r'[1] = 0 /\ r_stb_r'[2] = r_stb_r[1] /\ r_stb_r'[3] = r_stb_r[2]
      BY <1>0, <2>3, ShiftReg DEF REdge, TypeOK, Delay, Bit
    <3>2. ASSUME NEW k \in 1 .. 3, r_ef'[k] = 0, NoStrobeFor(k, r_stb_r)',
                 NEW j \in 1 .. k
          PROVE  r_ef'[j] = 0
      <4>1. CASE k = 1
        BY <4>1, <3>2
      <4>2. CASE k # 1
        <5>1. k-1 \in 1 .. 3 /\ r_ef[k-1] = 0 /\ NoStrobeFor(k-1, r_stb_r)
          BY <4>2, <3>1, <3>2, <2>1 DEF NoStrobeFor
        <5>2. r_ef'[1] = 0
          BY <5>1, <1>0, <2>2 DEF EmptyFlagIsSafe
        <5>3. \A i \in 1 .. k-1 : r_ef[i] = 0
          BY <5>1 DEF EmptyFlagsAgree
        <5>4. j = 1 \/ (j \in 2 .. 3 /\ j - 1 \in 1 .. k-1 /\ r_ef'[j] = r_ef[j-1])
          BY <2>1, <3>2
        <5> QED
          BY <5>2, <5>3, <5>4
      <4> QED
        BY <4>1, <4>2
    <3>3. ASSUME r_rdy' = 1 PROVE r_ef' = All(0) /\ r_stb_r' = All(0)
      <4>1. r_ef = All(0) /\ r_stb_r = All(0) /\ r_ptr # w_ptr
        <5>1. CASE r_rdy = 1
          BY <5>1, <1>0 DEF ReadReadyIsClear, NoUnderflow
        <5>2. CASE r_rdy # 1
          <6>1. r_ef[3] = 0 /\ NoStrobeFor(3, r_stb_r)
            BY <5>2, <1>0, <2>3, <3>3 DEF REdge, Quiet, bool2sl, NoStrobeFor
          <6>2. r_ef \in Reg /\ r_stb_r \in Reg /\ \A i \in 1 .. 3 : r_ef[i] = 0
            BY <6>1, <1>0 DEF EmptyFlagsAgree, TypeOK
          <6> QED
            BY <6>1, <6>2, <1>0, RegIsZero DEF EmptyFlagIsSafe, NoStrobeFor
        <5> QED
          BY <5>1, <5>2
      <4>2. \A i \in 1 .. 3 : r_ef[i] = 0 /\ r_stb_r[i] = 0
        BY <4>1, <1>0, AllReg
      <4>3. NoStrobeFor(3, r_ef') /\ NoStrobeFor(3, r_stb_r')
        BY <4>1, <4>2, <2>1, <2>2, <3>1 DEF NoStrobeFor
      <4> QED
        BY <4>3, <2>1, <3>1, RegIsZero
    <3> QED
      BY <3>2, <3>3 DEF EmptyFlagsAgree, ReadReadyIsClear, All
  <2>4. CASE r_rst[3] # 1 /\ clken # 0 /\ strobe = 1
    <3>1. r_stb_r'[1] = 1 /\ r_rdy' = 0
      BY <1>0, <2>4, ShiftReg DEF REdge, Delay, Quiet, bool2sl, TypeOK
    <3> QED
      BY <3>1 DEF EmptyFlagsAgree, ReadReadyIsClear, NoStrobeFor
  <2> QED
    BY <2>3, <2>4
<1> QED
  BY <1>2, <1>3

\* An edge of w_clk keeps the writer's half.
LEMMA WEdgeReady ==
  ASSUME SafetyInv, WriterInReset, FullFlagsAgree, WriteReadyIsClear,
         NEW clken \in Bit, NEW strobe \in WStrobes(clken), NEW d \in Data, NEW seen,
         WEdge(clken, strobe, d, seen), ReadPtrRestsOrPops(seen), a_rst' = a_rst
  PROVE  WriterInReset' /\ FullFlagsAgree' /\ WriteReadyIsClear'
<1>0. /\ TypeOK /\ FullFlagIsSafe /\ NoOverflow /\ strobe \in Bit
      /\ 0 \in Bit /\ 1 \in Bit
      /\ w_rst \in Reg /\ w_ff \in Reg /\ w_stb_r \in Reg
  BY DEF SafetyInv, WStrobes, Bit, TypeOK
<1>1. bool2sl(w_ptr_1 = seen) \in Bit /\ (w_ptr_1 # seen => bool2sl(w_ptr_1 = seen) = 0)
  BY DEF bool2sl, Bit
<1>2. /\ w_ff'[1] = bool2sl(w_ptr_1 = seen) /\ w_ff'[2] = w_ff[1] /\ w_ff'[3] = w_ff[2]
      /\ w_ff' \in Reg
  BY <1>0, <1>1, ShiftReg DEF WEdge
<1>3. w_ptr_1 # r_ptr => w_ff'[1] = 0
  BY <1>0, <1>1, <1>2, PopKeepsRoom
<1>4. /\ w_rst' \in Reg
      /\ \/ a_rst = 1 /\ w_rst' = All(1)
         \/ a_rst # 1 /\ w_rst'[1] = 0 /\ w_rst'[2] = w_rst[1] /\ w_rst'[3] = w_rst[2]
  BY <1>0, ShiftReg, AllReg DEF WEdge, RstSync
<1>5. \A i \in 1 .. 3 : w_rst[i] = 0 \/ w_rst[i] = 1
  BY <1>0 DEF Reg, Bit
<1>6. \A i \in 1 .. 3 : All(1)[i] = 1 /\ All(0)[i] = 0
  BY <1>0, AllReg
<1>7. CASE w_rst[3] = 1
  <2>1. /\ w_rdy = 1 /\ w_rdy' = 1 /\ w_stb_r' = w_stb_r
        /\ \A k \in 1 .. 3 : w_rst[k] = 0 => w_ff[k] = 0
    BY <1>7 DEF WEdge, WriterInReset
  <2>2. w_ff'[1] = 0
    BY <2>1, <1>0, <1>3 DEF NoOverflow
  <2>3. ASSUME NEW k \in 1 .. 3, w_rst'[k] = 0 PROVE w_ff'[k] = 0
    <3>1. a_rst # 1 /\ (k = 1 \/ (k = 2 /\ w_rst[1] = 0) \/ (k = 3 /\ w_rst[2] = 0))
      BY <2>3, <1>4, <1>6
    <3> QED
      BY <3>1, <2>1, <2>2, <1>2
  <2>4. WriterInReset'
    <3>1. a_rst' = 1 => w_rst' = All(1)
      BY <1>4
    <3>2. (w_rst'[1] = 1 => w_rst'[2] = 1) /\ (w_rst'[2] = 1 => w_rst'[3] = 1)
      BY <1>4, <1>6 DEF WriterInReset
    <3> QED
      BY <3>1, <3>2, <2>1, <2>3 DEF WriterInReset, All
  <2>5. w_rst'[3] = 0 => \A k \in 1 .. 3 : w_ff'[k] = 0
    <3>1. w_rst'[3] = 0 => w_rst'[2] = 0 /\ w_rst'[1] = 0
      BY <1>4, <1>5, <1>6 DEF WriterInReset
    <3> QED
      BY <3>1, <2>3
  <2>6. w_rst'[3] = 0 => w_ff' = All(0)
    BY <2>5, <1>2, RegIsZero DEF NoStrobeFor
  <2> QED
    BY <2>4, <2>5, <2>6 DEF FullFlagsAgree, WriteReadyIsClear, All
<1>8. CASE w_rst[3] # 1
  <2>0. w_rst[1] = 0 /\ w_rst[2] = 0 /\ w_rst[3] = 0 /\ a_rst # 1
    BY <1>8, <1>5, <1>6 DEF WriterInReset
  <2>1. w_rst'[1] = 0 /\ w_rst'[2] = 0 /\ w_rst'[3] = 0
    BY <2>0, <1>4
  <2>2. WriterInReset'
    BY <2>0, <2>1 DEF WriterInReset
  <2>3. CASE clken # 0 /\ strobe = 1
    <3>1. w_stb_r'[1] = 1 /\ w_rdy' = 0
      BY <1>0, <1>8, <2>3, ShiftReg DEF WEdge, Delay, Quiet, bool2sl
    <3> QED
      BY <3>1, <2>2 DEF FullFlagsAgree, WriteReadyIsClear, NoStrobeFor
  <2>4. CASE clken = 0 \/ strobe # 1
    <3>1. /\ w_stb_r' \in Reg
          /\ \/ w_stb_r' = w_stb_r /\ w_rdy' = w_rdy
             \/ /\ w_stb_r'[1] = 0 /\ w_stb_r'[2] = w_stb_r[1] /\ w_stb_r'[3] = w_stb_r[2]
                /\ w_rdy' = 1 => w_ff[3] = 0 /\ NoStrobeFor(3, w_stb_r)
      BY <1>0, <2>4, <1>8, ShiftReg DEF WEdge, Delay, Bit, Quiet, bool2sl, NoStrobeFor
    <3>2. ASSUME NEW k \in 1 .. 3, w_ff'[k] = 0, NoStrobeFor(k, w_stb_r'),
                 NEW j \in 1 .. k
          PROVE  w_ff'[j] = 0
      <4>1. CASE k = 1
        BY <4>1, <3>2
      <4>2. CASE k # 1
        <5>1. k-1 \in 1 .. 3 /\ w_ff[k-1] = 0 /\ NoStrobeFor(k-1, w_stb_r)
          BY <4>2, <3>1, <3>2, <1>2 DEF NoStrobeFor
        <5>2. w_ff'[1] = 0
          BY <5>1, <1>0, <1>3 DEF FullFlagIsSafe
        <5>3. \A i \in 1 .. k-1 : w_ff[i] = 0
          BY <5>1, <2>0 DEF FullFlagsAgree
        <5>4. j = 1 \/ (j \in 2 .. 3 /\ j - 1 \in 1 .. k-1 /\ w_ff'[j] = w_ff[j-1])
          BY <1>2, <3>2
        <5> QED
          BY <5>2, <5>3, <5>4
      <4> QED
        BY <4>1, <4>2
    <3>3. ASSUME w_rdy' = 1, w_stb_r' = All(0) PROVE w_ff' = All(0)
      <4>1. w_ff = All(0) /\ w_ptr_1 # r_ptr
        <5>1. CASE w_rdy = 1 /\ w_stb_r = All(0)
          BY <5>1, <1>0, <2>0 DEF WriteReadyIsClear, NoOverflow
        <5>2. CASE ~(w_rdy = 1 /\ w_stb_r = All(0))
          <6>1. w_ff[3] = 0 /\ NoStrobeFor(3, w_stb_r)
            BY <5>2, <3>1, <3>3
          <6>2. \A i \in 1 .. 3 : w_ff[i] = 0
            BY <6>1, <2>0 DEF FullFlagsAgree
          <6> QED
            BY <6>1, <6>2, <1>0, RegIsZero DEF FullFlagIsSafe, NoStrobeFor
        <5> QED
          BY <5>1, <5>2
      <4>2. NoStrobeFor(3, w_ff')
        BY <4>1, <1>0, <1>2, <1>3, <1>6 DEF NoStrobeFor
      <4> QED
        BY <4>2, <1>2, RegIsZero
    <3> QED
      BY <3>2, <3>3, <2>2 DEF FullFlagsAgree, WriteReadyIsClear, NoStrobeFor, All
  <2> QED
    BY <2>3, <2>4
<1> QED
  BY <1>7, <1>8

-----------------------------------------------------------------------------
LEMMA InitReady == Init => ReadyInv
<1> SUFFICES ASSUME Init PROVE ReadyInv
  OBVIOUS
<1>1. 0 \in Bit /\ 1 \in Bit /\ \A i \in 1 .. 3 : All(0)[i] = 0 /\ All(1)[i] = 1
  BY AllReg DEF Bit
<1> QED
  BY <1>1
  DEF Init, ReadyInv, WriterInReset, EmptyFlagsAgree, FullFlagsAgree,
      ReadReadyIsClear, WriteReadyIsClear

LEMMA AssertResetReady == AssertReset => ReadyInv'
<1> SUFFICES ASSUME AssertReset PROVE ReadyInv'
  OBVIOUS
<1>1. 0 \in Bit /\ 1 \in Bit /\ \A i \in 1 .. 3 : All(0)[i] = 0 /\ All(1)[i] = 1
  BY AllReg DEF Bit
<1>2. w_rst' = All(1) /\ w_rdy' = 1 /\ r_ef' = All(1) /\ r_rdy' = 0
  BY DEF AssertReset
<1> QED
  BY <1>1, <1>2
  DEF ReadyInv, WriterInReset, EmptyFlagsAgree, FullFlagsAgree,
      ReadReadyIsClear, WriteReadyIsClear, All

LEMMA WTickReady ==
  ASSUME SafetyInv, ReadyInv, NEW c \in Bit, WTick(c)
  PROVE  ReadyInv'
<1>1. PICK strobe \in WStrobes(c), d \in Data :
        WEdge(c, strobe, d, r_ptr) /\ UNCHANGED <<a_rst, rvars>>
  BY DEF WTick
<1>2. a_rst' = a_rst /\ r_ptr' = r_ptr /\ r_ef' = r_ef /\ r_stb_r' = r_stb_r
      /\ r_rdy' = r_rdy
  BY <1>1 DEF rvars
<1>3. WriterInReset' /\ FullFlagsAgree' /\ WriteReadyIsClear'
  BY <1>1, <1>2, WEdgeReady DEF ReadyInv, ReadPtrRestsOrPops
<1>4. EmptyFlagsAgree' /\ ReadReadyIsClear'
  BY <1>2 DEF ReadyInv, EmptyFlagsAgree, ReadReadyIsClear, NoStrobeFor, All
<1> QED
  BY <1>3, <1>4 DEF ReadyInv

LEMMA RTickReady ==
  ASSUME SafetyInv, ReadyInv, NEW c \in Bit, RTick(c)
  PROVE  ReadyInv'
<1>1. PICK strobe \in RStrobes(c) :
        REdge(c, strobe, w_ptr, ram[r_ptr]) /\ UNCHANGED <<a_rst, wvars>>
  BY DEF RTick
<1>2. /\ a_rst' = a_rst /\ w_ptr' = w_ptr /\ w_rst' = w_rst /\ w_ff' = w_ff
      /\ w_stb_r' = w_stb_r /\ w_rdy' = w_rdy /\ ram[r_ptr] \in Data
  BY <1>1 DEF wvars, SafetyInv, TypeOK
<1>3. EmptyFlagsAgree' /\ ReadReadyIsClear'
  BY <1>1, <1>2, REdgeReady DEF ReadyInv, WritePtrRestsOrPushes
<1>4. WriterInReset' /\ FullFlagsAgree' /\ WriteReadyIsClear'
  BY <1>2 DEF ReadyInv, WriterInReset, FullFlagsAgree, WriteReadyIsClear, NoStrobeFor, All
<1> QED
  BY <1>3, <1>4 DEF ReadyInv

LEMMA BothTickReady ==
  ASSUME SafetyInv, ReadyInv, NEW cw \in Bit, NEW cr \in Bit, BothTick(cw, cr)
  PROVE  ReadyInv'
<1>1. PICK wstb \in WStrobes(cw), rstb \in RStrobes(cr), d \in Data,
           wseen \in Code, rseen \in Code, word \in Data :
        /\ WEdge(cw, wstb, d, rseen) /\ ReadPtrRestsOrPops(rseen)
        /\ REdge(cr, rstb, wseen, word) /\ WritePtrRestsOrPushes(wseen)
        /\ r_ptr # w_ptr => word = ram[r_ptr] /\ ram'[r_ptr] = ram[r_ptr]
        /\ a_rst' = a_rst
  BY BothTickEdges
<1>2. WriterInReset' /\ FullFlagsAgree' /\ WriteReadyIsClear'
  BY <1>1, WEdgeReady DEF ReadyInv
<1>3. EmptyFlagsAgree' /\ ReadReadyIsClear'
  BY <1>1, REdgeReady DEF ReadyInv
<1> QED
  BY <1>2, <1>3 DEF ReadyInv

\* Every stage of a flag is clear while its ready is shown.
THEOREM ReadyInvariant == Spec => [](SafetyInv /\ ReadyInv)
<1>1. Init => ReadyInv
  BY InitReady
<1>2. SafetyInv /\ ReadyInv /\ [Next]_vars => ReadyInv'
  <2> SUFFICES ASSUME SafetyInv, ReadyInv, [Next]_vars PROVE ReadyInv'
    OBVIOUS
  <2>1. CASE AssertReset
    BY <2>1, AssertResetReady
  <2>2. CASE ReleaseReset
    <3>1. a_rst' = 0
      BY <2>2 DEF ReleaseReset
    <3> QED
      BY <2>2, <3>1
      DEF ReleaseReset, wvars, rvars, ReadyInv, WriterInReset, EmptyFlagsAgree,
          FullFlagsAgree, ReadReadyIsClear, WriteReadyIsClear, NoStrobeFor, All
  <2>3. ASSUME NEW c \in Bit, WTick(c) PROVE ReadyInv'
    BY <2>3, WTickReady
  <2>4. ASSUME NEW c \in Bit, RTick(c) PROVE ReadyInv'
    BY <2>4, RTickReady
  <2>5. ASSUME NEW cw \in Bit, NEW cr \in Bit, BothTick(cw, cr) PROVE ReadyInv'
    BY <2>5, BothTickReady
  <2>6. CASE UNCHANGED vars
    BY <2>6
    DEF vars, ReadyInv, WriterInReset, EmptyFlagsAgree, FullFlagsAgree,
        ReadReadyIsClear, WriteReadyIsClear, NoStrobeFor, All
  <2> QED
    BY <2>1, <2>2, <2>3, <2>4, <2>5, <2>6 DEF Next
<1> QED
  BY <1>1, <1>2, SafetyInvariant, PTL DEF Spec

-----------------------------------------------------------------------------
LEMMA REdgeHolds ==
  ASSUME SafetyInv, ReadyInv, r_rdy = 1,
         NEW clken \in Bit, NEW strobe \in RStrobes(clken), NEW seen, NEW word,
         REdge(clken, strobe, seen, word)
  PROVE  r_rdy' = 1 \/ r_ptr' # r_ptr
<1>1. r_ef[3] = 0 /\ \A i \in 1 .. 3 : r_stb_r[i] = 0
  BY AllReg DEF ReadyInv, ReadReadyIsClear, Bit
<1>2. r_ptr \in Code /\ strobe \in Bit
  BY DEF SafetyInv, TypeOK, RStrobes
<1>3. CASE r_rst[3] = 1 \/ clken = 0
  BY <1>3 DEF REdge
<1>4. CASE ~(r_rst[3] = 1 \/ clken = 0) /\ strobe = 1
  BY <1>2, <1>4, IncMoves DEF REdge
<1>5. CASE ~(r_rst[3] = 1 \/ clken = 0) /\ strobe = 0
  BY <1>1, <1>5 DEF REdge, Quiet, bool2sl
<1> QED
  BY <1>2, <1>3, <1>4, <1>5 DEF Bit

LEMMA WEdgeHolds ==
  ASSUME SafetyInv, ReadyInv, w_rdy = 1, w_stb_r = All(0),
         NEW clken \in Bit, NEW strobe \in WStrobes(clken), NEW d, NEW seen,
         WEdge(clken, strobe, d, seen)
  PROVE  w_rdy' = 1 \/ w_ptr' # w_ptr
<1>1. w_ptr \in Code /\ strobe \in Bit /\ w_rst \in Reg
  BY DEF SafetyInv, TypeOK, WStrobes
<1>2. \A i \in 1 .. 3 : w_stb_r[i] = 0
  BY AllReg DEF Bit
<1>3. CASE w_rst[3] = 1 \/ clken = 0
  BY <1>3 DEF WEdge
<1>4. CASE ~(w_rst[3] = 1 \/ clken = 0) /\ strobe = 1
  BY <1>1, <1>4, IncMoves DEF WEdge
<1>5. CASE ~(w_rst[3] = 1 \/ clken = 0) /\ strobe = 0
  <2>1. w_rst[3] = 0
    BY <1>1, <1>5 DEF Reg, Bit
  <2>2. w_ff[3] = 0
    BY <2>1, AllReg DEF ReadyInv, WriteReadyIsClear, Bit
  <2> QED
    BY <1>2, <1>5, <2>2 DEF WEdge, Quiet, bool2sl
<1> QED
  BY <1>1, <1>3, <1>4, <1>5 DEF Bit

\* "Ready to read" stays until the reader strobes, unless a reset comes.
THEOREM ReadReadyIsKept == Spec => [][ReadReadyStays]_vars
<1>1. SafetyInv /\ ReadyInv /\ [Next]_vars
        => [ReadReadyStays]_vars
  <2> SUFFICES ASSUME SafetyInv, ReadyInv, [Next]_vars, r_rdy = 1, a_rst' = 0
               PROVE  r_rdy' = 1 \/ r_ptr' # r_ptr
    BY DEF ReadReadyStays
  <2>1. CASE AssertReset
    BY <2>1 DEF AssertReset
  <2>2. CASE ReleaseReset
    BY <2>2 DEF ReleaseReset, rvars
  <2>3. ASSUME NEW c \in Bit, WTick(c) PROVE r_rdy' = 1
    BY <2>3 DEF WTick, rvars
  <2>4. ASSUME NEW c \in Bit, RTick(c) PROVE r_rdy' = 1 \/ r_ptr' # r_ptr
    BY <2>4, REdgeHolds DEF RTick
  <2>5. ASSUME NEW cw \in Bit, NEW cr \in Bit, BothTick(cw, cr)
        PROVE  r_rdy' = 1 \/ r_ptr' # r_ptr
    BY <2>5, BothTickEdges, REdgeHolds
  <2>6. CASE UNCHANGED vars
    BY <2>6 DEF vars
  <2> QED
    BY <2>1, <2>2, <2>3, <2>4, <2>5, <2>6 DEF Next
<1> QED
  BY <1>1, ReadyInvariant, PTL DEF Spec

\* "Ready to write" stays until the writer strobes, unless a reset comes or has
\* just been.
THEOREM WriteReadyIsKept == Spec => [][WriteReadyStays]_vars
<1>1. SafetyInv /\ ReadyInv /\ [Next]_vars
        => [WriteReadyStays]_vars
  <2> SUFFICES ASSUME SafetyInv, ReadyInv, [Next]_vars, w_rdy = 1,
                      w_stb_r = All(0), a_rst' = 0
               PROVE  w_rdy' = 1 \/ w_ptr' # w_ptr
    BY DEF WriteReadyStays
  <2>1. CASE AssertReset
    BY <2>1 DEF AssertReset
  <2>2. CASE ReleaseReset
    BY <2>2 DEF ReleaseReset, wvars
  <2>3. ASSUME NEW c \in Bit, WTick(c) PROVE w_rdy' = 1 \/ w_ptr' # w_ptr
    BY <2>3, WEdgeHolds DEF WTick
  <2>4. ASSUME NEW c \in Bit, RTick(c) PROVE w_rdy' = 1
    BY <2>4 DEF RTick, wvars
  <2>5. ASSUME NEW cw \in Bit, NEW cr \in Bit, BothTick(cw, cr)
        PROVE  w_rdy' = 1 \/ w_ptr' # w_ptr
    BY <2>5, BothTickEdges, WEdgeHolds
  <2>6. CASE UNCHANGED vars
    BY <2>6 DEF vars
  <2> QED
    BY <2>1, <2>2, <2>3, <2>4, <2>5, <2>6 DEF Next
<1> QED
  BY <1>1, ReadyInvariant, PTL DEF Spec
\* Neither reader nor writer finds its ready withdrawn before it has strobed.
THEOREM ReadyIsKept == Spec => ReadyHolds
<1>1. [ReadReadyStays]_vars /\ [WriteReadyStays]_vars => [ReadReadyStays /\ WriteReadyStays]_vars
  OBVIOUS
<1> QED
  BY <1>1, ReadReadyIsKept, WriteReadyIsKept, PTL DEF ReadyHolds

(***************************************************************************)
(* memac_pdq.vhd implements the bounded FIFO of DescriptorFifo: under the  *)
(* mapping of `queue' every step of its registers is a put, a get, both,   *)
(* a reset, or nothing.                                                    *)
(***************************************************************************)
\* The slot i places behind the read pointer r, and the slots from r to w.
Place(r, i) == bin2gray[(gray2bin[r] + i - 1) % DEPTH]
Dist(w, r) == (DEPTH + gray2bin[w] - gray2bin[r]) % DEPTH

LEMMA Wrap ==
  \A x \in 0 .. 2*DEPTH - 1 : x % DEPTH = IF x < DEPTH THEN x ELSE x - DEPTH
BY DepthAssumption

LEMMA BinRange == \A c \in Code : Bin[c] \in 0 .. DEPTH-1
BY CodeAssumption

LEMMA BinInjective == \A c, d \in Code : Bin[c] = Bin[d] => c = d
BY CodeAssumption

LEMMA BinInc ==
  \A c \in Code : Bin[Inc(c)] = IF Bin[c] = DEPTH-1 THEN 0 ELSE Bin[c] + 1
<1> SUFFICES ASSUME NEW c \in Code
             PROVE  Bin[Inc(c)] = IF Bin[c] = DEPTH-1 THEN 0 ELSE Bin[c] + 1
  OBVIOUS
<1>1. Bin[c] + 1 \in 0 .. 2*DEPTH - 1 /\ Bin[c] \in 0 .. DEPTH-1
  BY BinRange, DepthAssumption
<1>2. (Bin[c] + 1) % DEPTH = IF Bin[c] = DEPTH-1 THEN 0 ELSE Bin[c] + 1
  BY <1>1, Wrap, DepthAssumption
<1>3. (Bin[c] + 1) % DEPTH \in 0 .. DEPTH-1
  BY <1>1, <1>2, DepthAssumption
<1> QED
  BY <1>2, <1>3, CodeAssumption DEF Inc, bin2gray, gray2bin

LEMMA DistValue ==
  \A w, r \in Code :
    Dist(w, r) = IF Bin[w] >= Bin[r] THEN Bin[w] - Bin[r] ELSE DEPTH + Bin[w] - Bin[r]
<1> SUFFICES ASSUME NEW w \in Code, NEW r \in Code
             PROVE  Dist(w, r) = IF Bin[w] >= Bin[r] THEN Bin[w] - Bin[r]
                                 ELSE DEPTH + Bin[w] - Bin[r]
  OBVIOUS
<1>1. Bin[w] \in 0 .. DEPTH-1 /\ Bin[r] \in 0 .. DEPTH-1
  BY BinRange
<1>2. DEPTH + Bin[w] - Bin[r] \in 0 .. 2*DEPTH - 1
  BY <1>1, DepthAssumption
<1> QED
  BY <1>1, <1>2, Wrap, DepthAssumption DEF Dist, gray2bin

\* How far apart the pointers are, and how a step of either changes that.
LEMMA DistRange ==
  ASSUME NEW w \in Code, NEW r \in Code
  PROVE  /\ Dist(w, r) \in 0 .. DEPTH-1
         /\ w # r => Dist(w, r) >= 1
         /\ Inc(w) # r => Dist(w, r) < DEPTH - 1
         /\ w = r => Dist(w, r) = 0
<1>1. Bin[w] \in 0 .. DEPTH-1 /\ Bin[r] \in 0 .. DEPTH-1
  BY BinRange
<1>2. w # r => Bin[w] # Bin[r]
  BY BinInjective
<1>3. Inc(w) # r => Bin[Inc(w)] # Bin[r]
  BY BinInjective, IncType
<1> QED
  BY <1>1, <1>2, <1>3, DistValue, BinInc, DepthAssumption

LEMMA DistPush ==
  ASSUME NEW w \in Code, NEW r \in Code, Inc(w) # r
  PROVE  Dist(Inc(w), r) = Dist(w, r) + 1
<1>1. Bin[w] \in 0 .. DEPTH-1 /\ Bin[r] \in 0 .. DEPTH-1 /\ Inc(w) \in Code
  BY BinRange, IncType
<1>2. Bin[Inc(w)] # Bin[r]
  BY <1>1, BinInjective
<1>3. /\ Bin[Inc(w)] = IF Bin[w] = DEPTH-1 THEN 0 ELSE Bin[w] + 1
      /\ Dist(w, r) = IF Bin[w] >= Bin[r] THEN Bin[w] - Bin[r] ELSE DEPTH + Bin[w] - Bin[r]
      /\ Dist(Inc(w), r) = IF Bin[Inc(w)] >= Bin[r] THEN Bin[Inc(w)] - Bin[r]
                           ELSE DEPTH + Bin[Inc(w)] - Bin[r]
  BY <1>1, BinInc, DistValue
<1> QED
  BY <1>1, <1>2, <1>3, DepthAssumption

LEMMA DistPop ==
  ASSUME NEW w \in Code, NEW r \in Code, w # r
  PROVE  Dist(w, Inc(r)) = Dist(w, r) - 1
<1>1. Bin[w] \in 0 .. DEPTH-1 /\ Bin[r] \in 0 .. DEPTH-1 /\ Inc(r) \in Code
  BY BinRange, IncType
<1>2. Bin[w] # Bin[r]
  BY BinInjective
<1>3. /\ Bin[Inc(r)] = IF Bin[r] = DEPTH-1 THEN 0 ELSE Bin[r] + 1
      /\ Dist(w, r) = IF Bin[w] >= Bin[r] THEN Bin[w] - Bin[r] ELSE DEPTH + Bin[w] - Bin[r]
      /\ Dist(w, Inc(r)) = IF Bin[w] >= Bin[Inc(r)] THEN Bin[w] - Bin[Inc(r)]
                           ELSE DEPTH + Bin[w] - Bin[Inc(r)]
  BY <1>1, BinInc, DistValue
<1> QED
  BY <1>1, <1>2, <1>3, DepthAssumption

-----------------------------------------------------------------------------
\* The oldest descriptor is in the slot of the read pointer.
LEMMA PlaceOfHead == ASSUME NEW r \in Code PROVE Place(r, 1) = r
<1>1. Bin[r] \in 0 .. DEPTH-1
  BY BinRange
<1>2. (Bin[r] + 1 - 1) % DEPTH = Bin[r]
  BY <1>1, DepthAssumption
<1> QED
  BY <1>2, CodeAssumption DEF Place, bin2gray, gray2bin

\* The places in use are slots of their own, and not the one written next.
LEMMA PlaceValue ==
  ASSUME NEW r \in Code, NEW i \in 1 .. DEPTH
  PROVE  /\ Place(r, i) \in Code
         /\ Bin[Place(r, i)] = IF Bin[r] + i - 1 < DEPTH THEN Bin[r] + i - 1
                               ELSE Bin[r] + i - 1 - DEPTH
<1>1. Bin[r] \in 0 .. DEPTH-1
  BY BinRange
<1>2. Bin[r] + i - 1 \in 0 .. 2*DEPTH - 1
  BY <1>1, DepthAssumption
<1>3. /\ (Bin[r] + i - 1) % DEPTH = IF Bin[r] + i - 1 < DEPTH THEN Bin[r] + i - 1
                                    ELSE Bin[r] + i - 1 - DEPTH
      /\ (Bin[r] + i - 1) % DEPTH \in 0 .. DEPTH-1
  BY <1>1, <1>2, Wrap, DepthAssumption
<1> QED
  BY <1>3, CodeAssumption DEF Place, bin2gray, gray2bin

LEMMA PlaceOfWrite ==
  ASSUME NEW w \in Code, NEW r \in Code
  PROVE  /\ Place(r, Dist(w, r) + 1) = w
         /\ \A i \in 1 .. Dist(w, r) : Place(r, i) # w
<1>1. Bin[w] \in 0 .. DEPTH-1 /\ Bin[r] \in 0 .. DEPTH-1
  BY BinRange
<1>2. Dist(w, r) \in 0 .. DEPTH-1
  BY DistRange
<1>3. Dist(w, r) + 1 \in 1 .. DEPTH
  BY <1>2, DepthAssumption
<1>4. Place(r, Dist(w, r) + 1) = w
  <2>1. /\ Place(r, Dist(w, r) + 1) \in Code
        /\ Bin[Place(r, Dist(w, r) + 1)] =
             IF Bin[r] + (Dist(w, r) + 1) - 1 < DEPTH THEN Bin[r] + (Dist(w, r) + 1) - 1
             ELSE Bin[r] + (Dist(w, r) + 1) - 1 - DEPTH
    BY <1>3, PlaceValue
  <2>2. Bin[Place(r, Dist(w, r) + 1)] = Bin[w]
    BY <1>1, <1>2, <2>1, DistValue, DepthAssumption
  <2> QED
    BY <2>1, <2>2, BinInjective
<1>5. ASSUME NEW i \in 1 .. Dist(w, r) PROVE Place(r, i) # w
  <2>1. i \in 1 .. DEPTH
    BY <1>2, DepthAssumption
  <2>2. Bin[Place(r, i)] = IF Bin[r] + i - 1 < DEPTH THEN Bin[r] + i - 1
                           ELSE Bin[r] + i - 1 - DEPTH
    BY <2>1, PlaceValue
  <2>3. Bin[Place(r, i)] # Bin[w]
    BY <1>1, <1>2, <2>2, DistValue, DepthAssumption
  <2> QED
    BY <2>3
<1> QED
  BY <1>4, <1>5

LEMMA PlaceAfterPop ==
  ASSUME NEW r \in Code, NEW i \in 1 .. DEPTH-1
  PROVE  Place(Inc(r), i) = Place(r, i + 1)
<1>1. Bin[r] \in 0 .. DEPTH-1 /\ Inc(r) \in Code
      /\ i \in 1 .. DEPTH /\ i + 1 \in 1 .. DEPTH
  BY BinRange, IncType, DepthAssumption
<1>2. /\ Place(Inc(r), i) \in Code
      /\ Bin[Place(Inc(r), i)] = IF Bin[Inc(r)] + i - 1 < DEPTH THEN Bin[Inc(r)] + i - 1
                                 ELSE Bin[Inc(r)] + i - 1 - DEPTH
  BY <1>1, PlaceValue
<1>3. /\ Place(r, i + 1) \in Code
      /\ Bin[Place(r, i + 1)] = IF Bin[r] + (i + 1) - 1 < DEPTH THEN Bin[r] + (i + 1) - 1
                                ELSE Bin[r] + (i + 1) - 1 - DEPTH
  BY <1>1, PlaceValue
<1>4. Bin[Place(Inc(r), i)] = Bin[Place(r, i + 1)]
  BY <1>1, <1>2, <1>3, BinInc, DepthAssumption
<1> QED
  BY <1>2, <1>3, <1>4, BinInjective

-----------------------------------------------------------------------------
\* The descriptors in the slots from r to w.
Contents(mem, w, r) == [i \in 1 .. Dist(w, r) |-> mem[Place(r, i)]]

LEMMA QueueContents == queue = Contents(ram, w_ptr, r_ptr)
BY DEF queue, used, Contents, Dist, Place

LEMMA ContentsSeq ==
  ASSUME NEW mem \in [Code -> Data], NEW w \in Code, NEW r \in Code
  PROVE  /\ Contents(mem, w, r) \in Seq(Data)
         /\ Len(Contents(mem, w, r)) = Dist(w, r)
         /\ \A i \in 1 .. Dist(w, r) : Contents(mem, w, r)[i] = mem[Place(r, i)]
<1>1. Dist(w, r) \in 0 .. DEPTH-1 /\ Dist(w, r) \in Nat
  BY DistRange, DepthAssumption
<1>2. \A i \in 1 .. Dist(w, r) : mem[Place(r, i)] \in Data
  <2> TAKE i \in 1 .. Dist(w, r)
  <2>1. i \in 1 .. DEPTH
    BY <1>1, DepthAssumption
  <2> QED
    BY <2>1, PlaceValue
<1>3. Contents(mem, w, r) \in [1 .. Dist(w, r) -> Data]
  BY <1>2 DEF Contents
<1>4. Contents(mem, w, r) \in Seq(Data)
  BY <1>1, <1>3, SeqDef
<1>5. Len(Contents(mem, w, r)) = Dist(w, r)
  <2>1. DOMAIN Contents(mem, w, r) = 1 .. Dist(w, r)
    BY DEF Contents
  <2> QED
    BY <1>1, <1>4, <2>1, LenProperties
<1> QED
  BY <1>4, <1>5 DEF Contents

\* A push appends, whatever the place that is written held before.
LEMMA PushContents ==
  ASSUME NEW mem \in [Code -> Data], NEW w \in Code, NEW r \in Code,
         NEW d \in Data, Inc(w) # r
  PROVE  Contents([mem EXCEPT ![w] = d], Inc(w), r) = Append(Contents(mem, w, r), d)
<1> DEFINE new == [mem EXCEPT ![w] = d]
           s == Contents(mem, w, r)
           t == Contents(new, Inc(w), r)
<1>1. new \in [Code -> Data] /\ Inc(w) \in Code
  BY IncType
<1>2. Dist(w, r) \in 0 .. DEPTH-1 /\ Dist(Inc(w), r) = Dist(w, r) + 1
  BY DistRange, DistPush
<1>3. /\ s \in Seq(Data) /\ Len(s) = Dist(w, r)
      /\ \A i \in 1 .. Dist(w, r) : s[i] = mem[Place(r, i)]
  BY ContentsSeq
<1>4. /\ t \in Seq(Data) /\ Len(t) = Dist(w, r) + 1
      /\ \A i \in 1 .. Dist(w, r) + 1 : t[i] = new[Place(r, i)]
  <2>1. /\ t \in Seq(Data) /\ Len(t) = Dist(Inc(w), r)
        /\ \A i \in 1 .. Dist(Inc(w), r) : t[i] = new[Place(r, i)]
    <3> HIDE DEF new
    <3> QED
      BY <1>1, ContentsSeq
  <2> QED
    BY <2>1, <1>2
<1>5. /\ Append(s, d) \in Seq(Data) /\ Len(Append(s, d)) = Dist(w, r) + 1
      /\ \A i \in 1 .. Dist(w, r) : Append(s, d)[i] = s[i]
      /\ Append(s, d)[Dist(w, r) + 1] = d
  BY <1>3, AppendProperties
<1>6. ASSUME NEW i \in 1 .. Dist(w, r) + 1 PROVE t[i] = Append(s, d)[i]
  <2>1. CASE i = Dist(w, r) + 1
    <3>1. Place(r, i) = w
      BY <2>1, PlaceOfWrite
    <3> QED
      BY <2>1, <3>1, <1>4, <1>5
  <2>2. CASE i # Dist(w, r) + 1
    <3>1. i \in 1 .. Dist(w, r) /\ i \in 1 .. DEPTH
      BY <2>2, <1>2, DepthAssumption
    <3>2. Place(r, i) \in Code /\ Place(r, i) # w
      BY <3>1, PlaceOfWrite, PlaceValue
    <3>3. t[i] = mem[Place(r, i)]
      BY <3>2, <1>4
    <3> QED
      BY <3>1, <3>3, <1>3, <1>5
  <2> QED
    BY <2>1, <2>2
<1> HIDE DEF s, t
<1>7. Len(t) = Len(Append(s, d)) /\ \A i \in 1 .. Len(t) : t[i] = Append(s, d)[i]
  BY <1>4, <1>5, <1>6
<1>8. t = Append(s, d)
  BY <1>4, <1>5, <1>7, SeqEqual
<1> QED
  BY <1>8 DEF s, t

\* A pop removes the oldest.
LEMMA PopContents ==
  ASSUME NEW mem \in [Code -> Data], NEW w \in Code, NEW r \in Code, w # r
  PROVE  Contents(mem, w, Inc(r)) = Tail(Contents(mem, w, r))
<1> DEFINE s == Contents(mem, w, r)
           t == Contents(mem, w, Inc(r))
<1>1. Inc(r) \in Code
  BY IncType
<1>2. Dist(w, r) \in 1 .. DEPTH-1 /\ Dist(w, Inc(r)) = Dist(w, r) - 1
  BY DistRange, DistPop
<1>3. /\ s \in Seq(Data) /\ Len(s) = Dist(w, r)
      /\ \A i \in 1 .. Dist(w, r) : s[i] = mem[Place(r, i)]
  BY ContentsSeq
<1>4. /\ t \in Seq(Data) /\ Len(t) = Dist(w, r) - 1
      /\ \A i \in 1 .. Dist(w, r) - 1 : t[i] = mem[Place(Inc(r), i)]
  <2>1. /\ t \in Seq(Data) /\ Len(t) = Dist(w, Inc(r))
        /\ \A i \in 1 .. Dist(w, Inc(r)) : t[i] = mem[Place(Inc(r), i)]
    BY <1>1, ContentsSeq, Zenon
  <2> HIDE DEF t
  <2> QED
    BY <2>1, <1>2
<1> HIDE DEF s, t
<1>5. s # <<>>
  BY <1>2, <1>3, EmptySeq
<1>6. /\ Tail(s) \in Seq(Data) /\ Len(Tail(s)) = Dist(w, r) - 1
      /\ \A i \in 1 .. Dist(w, r) - 1 : Tail(s)[i] = s[i + 1]
  BY <1>3, <1>5, HeadTailProperties
<1>7. ASSUME NEW i \in 1 .. Dist(w, r) - 1 PROVE t[i] = Tail(s)[i]
  <2>1. i \in 1 .. DEPTH-1 /\ i + 1 \in 1 .. Dist(w, r)
    BY <1>2, DepthAssumption
  <2>2. Place(Inc(r), i) = Place(r, i + 1)
    BY <2>1, PlaceAfterPop
  <2> QED
    BY <2>1, <2>2, <1>3, <1>4, <1>6
<1>8. t = Tail(s)
  BY <1>4, <1>6, <1>7, SeqEqual
<1> QED
  BY <1>8 DEF s, t

-----------------------------------------------------------------------------
\* What an edge of either clock does to the slots.
PushesOrNot ==
  \/ w_ptr' = w_ptr /\ ram' = ram
  \/ /\ Inc(w_ptr) # r_ptr /\ w_ptr' = Inc(w_ptr)
     /\ \E d \in Data : ram' = [ram EXCEPT ![w_ptr] = d]
PopsOrNot ==
  \/ r_ptr' = r_ptr
  \/ r_ptr # w_ptr /\ r_ptr' = Inc(r_ptr)

LEMMA WEdgePushes ==
  ASSUME SafetyInv, NEW clken \in Bit, NEW strobe \in WStrobes(clken),
         NEW d \in Data, NEW seen, WEdge(clken, strobe, d, seen)
  PROVE  PushesOrNot
<1>1. TypeOK /\ NoOverflow /\ strobe \in Bit /\ (strobe = 1 => w_rdy = 1)
  BY DEF SafetyInv, WStrobes
<1> QED
  BY <1>1 DEF WEdge, PushesOrNot, TypeOK, NoOverflow

LEMMA REdgePops ==
  ASSUME SafetyInv, NEW clken \in Bit, NEW strobe \in RStrobes(clken),
         NEW word, NEW seen, REdge(clken, strobe, seen, word)
  PROVE  PopsOrNot
BY REdgePtr DEF PopsOrNot

\* Together they are a step of the FIFO, or none.
LEMMA SlotsStep ==
  ASSUME SafetyInv, PushesOrNot, PopsOrNot
  PROVE  Fifo!Next \/ queue' = queue
<1> DEFINE s == Contents(ram, w_ptr, r_ptr)
<1>1. /\ w_ptr \in Code /\ r_ptr \in Code /\ ram \in [Code -> Data]
      /\ Inc(w_ptr) \in Code /\ Inc(r_ptr) \in Code
  BY IncType DEF SafetyInv, TypeOK
<1>2. queue = s /\ queue' = Contents(ram', w_ptr', r_ptr')
  BY QueueContents DEF queue, used, Contents, Dist, Place, bin2gray, gray2bin
<1>3. Len(s) = Dist(w_ptr, r_ptr) /\ Dist(w_ptr, r_ptr) \in 0 .. DEPTH-1
  BY <1>1, ContentsSeq, DistRange
<1>4. Inc(w_ptr) # r_ptr => Len(s) < DEPTH - 1
  BY <1>1, <1>3, DistRange
<1>5. r_ptr # w_ptr => Len(s) >= 1
  BY <1>1, <1>3, DistRange
<1>6. CASE w_ptr' = w_ptr /\ ram' = ram /\ r_ptr' = r_ptr
  BY <1>2, <1>6
<1>7. CASE w_ptr' = w_ptr /\ ram' = ram /\ r_ptr # w_ptr /\ r_ptr' = Inc(r_ptr)
  <2>1. queue' = Tail(queue)
    BY <1>1, <1>2, <1>7, PopContents
  <2>2. Fifo!Get
    BY <2>1, <1>2, <1>3, <1>5, <1>7 DEF Fifo!Get
  <2> QED
    BY <2>2 DEF Fifo!Next
<1>8. ASSUME NEW d \in Data, Inc(w_ptr) # r_ptr, w_ptr' = Inc(w_ptr),
             ram' = [ram EXCEPT ![w_ptr] = d], r_ptr' = r_ptr
      PROVE  Fifo!Next
  <2>1. queue' = Append(queue, d)
    BY <1>1, <1>2, <1>8, PushContents
  <2>2. Fifo!Put(d)
    BY <2>1, <1>2, <1>4, <1>8 DEF Fifo!Put
  <2> QED
    BY <2>2 DEF Fifo!Next
<1>9. ASSUME NEW d \in Data, Inc(w_ptr) # r_ptr, w_ptr' = Inc(w_ptr),
             ram' = [ram EXCEPT ![w_ptr] = d], r_ptr # w_ptr, r_ptr' = Inc(r_ptr)
      PROVE  Fifo!Next
  <2>1. Inc(w_ptr) # Inc(r_ptr)
    BY <1>1, <1>9, IncInjective
  <2>2. Contents(ram', w_ptr', r_ptr') = Append(Contents(ram, w_ptr, Inc(r_ptr)), d)
    BY <1>1, <1>9, <2>1, PushContents
  <2>3. queue' = Append(Tail(queue), d)
    BY <1>1, <1>2, <1>9, <2>2, PopContents
  <2>4. Fifo!PutAndGet(d)
    BY <2>3, <1>2, <1>3, <1>4, <1>5, <1>9, DepthAssumption DEF Fifo!PutAndGet
  <2> QED
    BY <2>4 DEF Fifo!Next
<1> QED
  BY <1>6, <1>7, <1>8, <1>9 DEF PushesOrNot, PopsOrNot

LEMMA EmptyContents ==
  ASSUME NEW mem, NEW p \in Code PROVE Contents(mem, p, p) = <<>>
<1>1. Dist(p, p) = 0
  BY DistRange
<1>2. Contents(mem, p, p) \in [1 .. 0 -> {}]
  BY <1>1 DEF Contents
<1>3. Contents(mem, p, p) \in Seq({})
  BY <1>2, SeqDef
<1>4. DOMAIN Contents(mem, p, p) = 1 .. 0
  BY <1>1 DEF Contents
<1>5. Len(Contents(mem, p, p)) \in Nat /\ 1 .. Len(Contents(mem, p, p)) = 1 .. 0
  BY <1>3, <1>4, LenProperties
<1>6. Len(Contents(mem, p, p)) = 0
  <2>1. 1 \notin 1 .. Len(Contents(mem, p, p))
    BY <1>5
  <2> QED
    BY <1>5, <2>1
<1> QED
  BY <1>3, <1>6, EmptySeq

\* The queue loses, duplicates and reorders nothing: it implements the bounded
\* FIFO, for every depth, pointer code, clock phase and reset.
THEOREM QueueImplementsFifo == Spec => ImplementsFifo
<1>1. Init => Fifo!Init
  <2> SUFFICES ASSUME Init PROVE queue = <<>>
    BY DEF Fifo!Init
  <2>1. w_ptr = bin2gray[0] /\ r_ptr = bin2gray[0]
    BY DEF Init
  <2> QED
    BY <2>1, GrayZeroOne, QueueContents, EmptyContents
<1>2. SafetyInv /\ [Next]_vars => [Fifo!Next]_queue
  <2> SUFFICES ASSUME SafetyInv, [Next]_vars PROVE Fifo!Next \/ queue' = queue
    OBVIOUS
  <2>1. CASE AssertReset
    <3>1. w_ptr' = bin2gray[0] /\ r_ptr' = bin2gray[0]
      BY <2>1 DEF AssertReset
    <3>2. queue' = Contents(ram', w_ptr', r_ptr')
      BY DEF queue, used, Contents, Dist, Place, bin2gray, gray2bin
    <3>3. queue' = <<>>
      BY <3>1, <3>2, GrayZeroOne, EmptyContents
    <3> QED
      BY <3>3 DEF Fifo!Next, Fifo!Reset
  <2>2. CASE ReleaseReset
    BY <2>2, SlotsStep DEF ReleaseReset, wvars, rvars, PushesOrNot, PopsOrNot
  <2>3. ASSUME NEW c \in Bit, WTick(c) PROVE Fifo!Next \/ queue' = queue
    BY <2>3, WEdgePushes, SlotsStep DEF WTick, rvars, PopsOrNot
  <2>4. ASSUME NEW c \in Bit, RTick(c) PROVE Fifo!Next \/ queue' = queue
    BY <2>4, REdgePops, SlotsStep DEF RTick, wvars, PushesOrNot
  <2>5. ASSUME NEW cw \in Bit, NEW cr \in Bit, BothTick(cw, cr)
        PROVE  Fifo!Next \/ queue' = queue
    BY <2>5, BothTickEdges, WEdgePushes, REdgePops, SlotsStep
  <2>6. CASE UNCHANGED vars
    BY <2>6, SlotsStep DEF vars, PushesOrNot, PopsOrNot
  <2> QED
    BY <2>1, <2>2, <2>3, <2>4, <2>5, <2>6 DEF Next
<1> QED
  BY <1>1, <1>2, SafetyInvariant, PTL DEF Spec, ImplementsFifo, Fifo!Spec

------------------------------------------------------------------------------
(* The queue as it is wired (MemacPost).                                   *)

\* The queue is strobed as its module assumes, and OwedIsQueued.
PostInv == SafetyInv /\ ReadyInv /\ StrobeMeetsReady /\ OwedIsQueued

LEMMA QueueNow ==
  /\ queue = Contents(ram, w_ptr, r_ptr)
  /\ queue' = Contents(ram', w_ptr', r_ptr')
BY DEF queue, used, Contents, Dist, Place, bin2gray, gray2bin

LEMMA SystemPops ==
  ASSUME PostInv, NEW rstb \in Bit, rstb <= r_rdy,
         REdge(1, rstb, w_ptr, ram[r_ptr]), owed' = Taken(rstb),
         UNCHANGED <<a_rst, wvars, stb, desc>>
  PROVE  OwedIsQueued'
<1>1. /\ ram \in [Code -> Data] /\ w_ptr \in Code /\ r_ptr \in Code /\ r_rdy \in Bit
      /\ r_rst \in Reg /\ desc \in Data /\ ram' = ram /\ w_ptr' = w_ptr
      /\ NoUnderflow /\ ReaderInReset
  BY DEF PostInv, SafetyInv, TypeOK, StrobeMeetsReady, wvars
<1>2. queue \in Seq(Data) /\ Len(queue) = Dist(w_ptr, r_ptr)
  BY <1>1, QueueNow, ContentsSeq
<1>3. CASE rstb = 0
  <2>1. r_ptr' = r_ptr
    BY <1>3 DEF REdge
  <2>2. queue' = queue
    BY <2>1, <1>1, QueueNow
  <2> QED
    BY <2>2, <1>3 DEF PostInv, OwedIsQueued, Taken
<1>4. CASE rstb = 1
  <2>1. r_rdy = 1 /\ r_rst[3] # 1 /\ r_ptr # w_ptr
    BY <1>1, <1>4 DEF ReaderInReset, NoUnderflow, Bit
  <2>2. r_ptr' = Inc(r_ptr)
    BY <2>1, <1>4 DEF REdge
  <2>3. queue' = Tail(queue)
    BY <2>1, <2>2, <1>1, QueueNow, PopContents
  <2>4. queue # <<>>
    BY <2>1, <1>1, <1>2, DistRange, EmptySeq
  <2>5. Append(queue, desc) # <<>>
    BY <1>1, <1>2, AppendProperties
  <2>6. Tail(Append(queue, desc)) = Append(Tail(queue), desc)
    BY <2>4, <1>2, HeadTailAppend
  <2> QED
    BY <2>3, <2>4, <2>5, <2>6, <1>4 DEF PostInv, OwedIsQueued, Taken
<1> QED
  BY <1>3, <1>4 DEF Bit

LEMMA FrontEndPosts ==
  ASSUME PostInv, NEW c \in Bit,
         WEdge(c, stb, desc, r_ptr), FrontEnd(c, owed), UNCHANGED <<a_rst, rvars>>
  PROVE  StrobeMeetsReady' /\ OwedIsQueued'
<1>1. /\ ram \in [Code -> Data] /\ w_ptr \in Code /\ r_ptr \in Code /\ w_rdy \in Bit
      /\ w_rst \in Reg /\ w_stb_r \in Reg /\ r_ptr' = r_ptr
      /\ stb \in Bit /\ desc \in Data
      /\ 0 \in Bit /\ 1 \in Bit
  BY DEF PostInv, SafetyInv, TypeOK, StrobeMeetsReady, rvars, Bit
<1>2. w_rst = All(0) => w_rst' = All(0) /\ w_rst[3] = 0
  <2> SUFFICES ASSUME w_rst = All(0) PROVE w_rst' = All(0) /\ w_rst[3] = 0
    OBVIOUS
  <2>1. w_rst[1] = 0 /\ w_rst[2] = 0 /\ w_rst[3] = 0
    BY <1>1, AllReg
  <2>2. a_rst # 1
    BY <2>1, <1>1, AllReg DEF PostInv, ReadyInv, WriterInReset
  <2>3. w_rst' = Shift(0, w_rst)
    BY <2>2 DEF WEdge, RstSync
  <2>4. w_rst' \in Reg /\ NoStrobeFor(3, w_rst')
    BY <2>1, <2>3, <1>1, ShiftReg DEF NoStrobeFor
  <2> QED
    BY <2>1, <2>4, RegIsZero
<1>3. w_rdy = 1 => w_stb_r = All(0)
  BY DEF PostInv, StrobeMeetsReady
<1>4. w_rdy' = 1 => w_stb_r' = All(0)
  <2> SUFFICES ASSUME w_rdy' = 1 PROVE w_stb_r' = All(0)
    OBVIOUS
  <2>1. CASE w_rst[3] = 1 \/ c = 0
    BY <2>1, <1>3 DEF WEdge
  <2>2. CASE ~(w_rst[3] = 1 \/ c = 0)
    <3>1. stb = 0 /\ w_stb_r[1] = 0 /\ w_stb_r[2] = 0 /\ w_stb_r[3] = 0
      BY <2>2 DEF WEdge, Quiet, bool2sl
    <3>2. w_stb_r' \in Reg /\ NoStrobeFor(3, w_stb_r')
      BY <2>2, <3>1, <1>1, ShiftReg DEF WEdge, Delay, NoStrobeFor
    <3> QED
      BY <3>2, RegIsZero
  <2> QED
    BY <2>1, <2>2
<1>5. CASE stb = 1 /\ c = 1
  <2>1. w_rdy = 1 /\ w_rst[3] = 0 /\ stb' = 0 /\ owed' = owed /\ desc' = desc
    BY <1>2, <1>5 DEF PostInv, StrobeMeetsReady, FrontEnd
  <2>2. w_ptr' = Inc(w_ptr) /\ ram' = [ram EXCEPT ![w_ptr] = desc]
    BY <2>1, <1>5 DEF WEdge
  <2>3. Inc(w_ptr) # r_ptr
    BY <2>1 DEF PostInv, SafetyInv, NoOverflow, TypeOK
  <2>4. queue' = Append(queue, desc)
    BY <2>2, <2>3, <1>1, QueueNow, PushContents
  <2> QED
    BY <2>1, <2>4, <1>1, <1>4, <1>5 DEF PostInv, OwedIsQueued, StrobeMeetsReady, All
<1>6. CASE ~(stb = 1 /\ c = 1)
  <2>1. w_ptr' = w_ptr /\ ram' = ram
    BY <1>1, <1>6 DEF WEdge, Bit
  <2>2. queue' = queue
    BY <2>1, <1>1, QueueNow
  <2>3. CASE c = 0
    <3>1. stb' = stb /\ desc' = desc /\ owed' = owed /\ w_rdy' = w_rdy
      BY <2>3 DEF FrontEnd, WEdge
    <3> QED
      BY <3>1, <2>2, <1>1, <1>2, <1>4 DEF PostInv, OwedIsQueued, StrobeMeetsReady, All
  <2>4. CASE c = 1 /\ stb' = 0 /\ owed' = owed /\ desc' = desc
    <3>1. stb = 0
      BY <2>4, <1>1, <1>6 DEF Bit
    <3> QED
      BY <3>1, <2>4, <2>2, <1>1, <1>4 DEF PostInv, OwedIsQueued, StrobeMeetsReady, All
  <2>5. CASE c = 1 /\ ~(stb' = 0 /\ owed' = owed /\ desc' = desc)
    <3>1. PICK d \in Data : /\ stb = 0 /\ w_rdy = 1 /\ w_rst = All(0)
                            /\ stb' = 1 /\ desc' = d /\ owed' = Append(owed, d)
      BY <2>5 DEF FrontEnd
    <3>2. w_rdy' = 1
      <4>1. w_ff[3] = 0
        BY <3>1, <1>2, <1>3, AllReg, <1>1 DEF PostInv, ReadyInv, WriteReadyIsClear
      <4>2. \A i \in 1 .. 3 : w_stb_r[i] = 0
        BY <3>1, <1>3, <1>1, AllReg
      <4> QED
        BY <4>1, <4>2, <3>1, <2>5, <1>2 DEF WEdge, Quiet, bool2sl
    <3> QED
      BY <3>1, <3>2, <2>2, <1>1, <1>2, <1>4 DEF PostInv, OwedIsQueued, StrobeMeetsReady, All
  <2> QED
    BY <2>3, <2>4, <2>5, <1>1 DEF Bit
<1> QED
  BY <1>5, <1>6

LEMMA InitPosts == InitPost => PostInv
<1> SUFFICES ASSUME InitPost PROVE PostInv
  OBVIOUS
<1>1. SafetyInv /\ ReadyInv
  BY InitSafe, InitReady DEF InitPost
<1>2. StrobeMeetsReady
  BY DataAssumption DEF InitPost, Init, StrobeMeetsReady, Bit
<1>3. queue = <<>>
  BY GrayZeroOne, QueueNow, EmptyContents DEF InitPost, Init
<1> QED
  BY <1>1, <1>2, <1>3 DEF PostInv, OwedIsQueued, InitPost

\* A tick of the wired queue is one that MemacPdq allows, so its invariants hold.
LEMMA UmiTickPosts ==
  ASSUME RightWiring, PostInv, NEW c \in Enables, UmiTick(c)
  PROVE  PostInv'
<1>1. c \in Bit /\ w_clken(c) = c
  BY WiringAssumption DEF RightWiring, w_clken, Bit
<1>2. stb \in WStrobes(c) \/ (stb = 1 /\ c = 0)
  BY <1>1 DEF PostInv, StrobeMeetsReady, WStrobes, Bit
<1>3. /\ WEdge(c, stb, desc, r_ptr) /\ FrontEnd(c, owed) /\ desc \in Data
      /\ UNCHANGED <<a_rst, rvars>>
  BY <1>1 DEF UmiTick, PostInv, StrobeMeetsReady
<1>4. WTick(c)
  <2>1. CASE stb \in WStrobes(c)
    BY <2>1, <1>3 DEF WTick
  <2>2. CASE stb = 1 /\ c = 0
    <3>1. WEdge(c, 0, desc, r_ptr)
      BY <2>2, <1>3 DEF WEdge
    <3>2. 0 \in WStrobes(c)
      BY DEF WStrobes, Bit
    <3> QED
      BY <3>1, <3>2, <1>3 DEF WTick
  <2> QED
    BY <2>1, <2>2, <1>2
<1>5. SafetyInv' /\ ReadyInv'
  BY <1>1, <1>4, WTickSafe, WTickReady DEF PostInv
<1>6. StrobeMeetsReady' /\ OwedIsQueued'
  BY <1>1, <1>3, FrontEndPosts
<1> QED
  BY <1>5, <1>6 DEF PostInv

LEMMA SysTickPosts ==
  ASSUME RightWiring, PostInv, NEW c \in Enables, SysTick(c)
  PROVE  PostInv'
<1>1. r_clken(c) = 1 /\ 1 \in Bit
  BY WiringAssumption DEF RightWiring, r_clken, Bit
<1>2. PICK rstb \in Bit :
        /\ rstb <= r_rdy
        /\ REdge(1, rstb, w_ptr, ram[r_ptr])
        /\ owed' = Taken(rstb)
        /\ UNCHANGED <<a_rst, wvars, stb, desc>>
  BY <1>1 DEF SysTick
<1>3. rstb \in RStrobes(1)
  BY <1>2 DEF RStrobes, PostInv, SafetyInv, TypeOK, Bit
<1>4. RTick(1)
  BY <1>2, <1>3 DEF RTick
<1>5. SafetyInv' /\ ReadyInv'
  BY <1>1, <1>4, RTickSafe, RTickReady DEF PostInv
<1>6. StrobeMeetsReady'
  BY <1>2 DEF PostInv, StrobeMeetsReady, wvars, All
<1>7. OwedIsQueued'
  BY <1>2, SystemPops
<1> QED
  BY <1>5, <1>6, <1>7 DEF PostInv

LEMMA ReleasePosts == PostInv /\ Release => PostInv'
<1> SUFFICES ASSUME PostInv, Release PROVE PostInv'
  OBVIOUS
<1>1. ReleaseReset /\ UNCHANGED <<stb, desc, owed>>
  BY DEF Release
<1>2. SafetyInv'
  BY <1>1
  DEF ReleaseReset, PostInv, SafetyInv, TypeOK, Inc, Bit, wvars, rvars, FullFlagIsSafe,
      EmptyFlagIsSafe, DataFollowsFlag, NoOverflow, NoUnderflow, HeadIsShown,
      NoStrobeFor, ReaderInReset
<1>3. ReadyInv'
  <2>1. a_rst' = 0
    BY <1>1 DEF ReleaseReset
  <2> QED
    BY <1>1, <2>1
    DEF ReleaseReset, wvars, rvars, PostInv, ReadyInv, WriterInReset, EmptyFlagsAgree,
        FullFlagsAgree, ReadReadyIsClear, WriteReadyIsClear, NoStrobeFor, All
<1>4. StrobeMeetsReady'
  BY <1>1 DEF ReleaseReset, wvars, PostInv, StrobeMeetsReady, All
<1>5. queue' = queue
  BY <1>1, QueueNow DEF ReleaseReset, wvars, rvars
<1> QED
  BY <1>1, <1>2, <1>3, <1>4, <1>5 DEF PostInv, OwedIsQueued

LEMMA StutterPosts == PostInv /\ UNCHANGED pvars => PostInv'
<1> SUFFICES ASSUME PostInv, UNCHANGED pvars PROVE PostInv'
  OBVIOUS
<1>1. queue' = queue
  BY QueueNow DEF pvars, vars
<1> QED
  BY <1>1
  DEF pvars, vars, PostInv, StrobeMeetsReady, OwedIsQueued, SafetyInv, TypeOK, Inc,
      FullFlagIsSafe, EmptyFlagIsSafe, DataFollowsFlag, NoOverflow, NoUnderflow,
      HeadIsShown, NoStrobeFor, ReaderInReset, ReadyInv, WriterInReset, EmptyFlagsAgree,
      FullFlagsAgree, ReadReadyIsClear, WriteReadyIsClear, All

\* The strobe reaches the queue only while it is ready, in every cycle of the
\* front end, and a strobe posts its descriptor once.
THEOREM PostInvariant == ASSUME RightWiring PROVE SpecPost => []PostInv
<1>1. InitPost => PostInv
  BY InitPosts
<1>2. PostInv /\ [NextPost]_pvars => PostInv'
  BY RightWiring, UmiTickPosts, SysTickPosts, ReleasePosts, StutterPosts DEF NextPost
<1> QED
  BY <1>1, <1>2, PTL DEF SpecPost

\* A strobe of the front end, however many cycles of umi_clk it lasts, enqueues
\* its descriptor once; the wiring of memac_rx.vhd below 1000 Mbit/s does not
\* satisfy RightWiring.
THEOREM PostedOnce == ASSUME RightWiring PROVE SpecPost => []EachPostOnce
<1>1. PostInv => EachPostOnce
  BY DEF PostInv, OwedIsQueued, EachPostOnce
<1> QED
  BY <1>1, PostInvariant, RightWiring, PTL

\* What the system side is offered is the oldest descriptor it is owed.
THEOREM OldestIsOffered == ASSUME RightWiring PROVE SpecPost => []OffersTheOldest
<1>1. PostInv => OffersTheOldest
  <2> SUFFICES ASSUME PostInv, r_rdy = 1 PROVE owed # <<>> /\ r_data = owed[1]
    BY DEF OffersTheOldest
  <2>1. /\ ram \in [Code -> Data] /\ w_ptr \in Code /\ r_ptr \in Code /\ desc \in Data
        /\ r_ptr # w_ptr /\ r_data = ram[r_ptr] /\ OwedIsQueued
    BY DEF PostInv, SafetyInv, TypeOK, NoUnderflow, HeadIsShown, StrobeMeetsReady
  <2>2. Dist(w_ptr, r_ptr) \in 1 .. DEPTH-1
    BY <2>1, DistRange
  <2>3. /\ queue \in Seq(Data) /\ Len(queue) = Dist(w_ptr, r_ptr)
        /\ queue[1] = ram[Place(r_ptr, 1)]
    BY <2>1, <2>2, QueueNow, ContentsSeq
  <2>4. Place(r_ptr, 1) = r_ptr
    BY <2>1, PlaceOfHead
  <2>5. queue # <<>>
    BY <2>2, <2>3, EmptySeq
  <2>6. Append(queue, desc) # <<>> /\ Append(queue, desc)[1] = queue[1]
    BY <2>1, <2>2, <2>3, AppendProperties
  <2> QED
    BY <2>1, <2>3, <2>4, <2>5, <2>6 DEF OwedIsQueued
<1> QED
  BY <1>1, PostInvariant, RightWiring, PTL
=============================================================================
