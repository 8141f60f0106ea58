------------------------------- MODULE HdmiBch --------------------------------
(***************************************************************************)
(* hdmi_bch_ecc.py derives, symbolically, what eight clocks of the shift   *)
(* register of the HDMI error code make of its state q0..q7 and the bits   *)
(* d0..d7 of a byte; tmds_cap.py computes the code of a packet with the    *)
(* equations it printed (bch_ecc, "see hdmi_bch_ecc.py").                  *)
(*                                                                         *)
(* The first phase is the generator, a clock per step; the second feeds a  *)
(* block to bch_ecc, a byte per step.  The code is linear, so a block that *)
(* is damaged in the bits of an error pattern passes the check exactly if  *)
(* the pattern itself does: the blocks considered are error patterns.      *)
(***************************************************************************)
EXTENDS Integers, Sequences, FiniteSets

CONSTANTS
  BodyLengths,     \* bytes of a block without its code byte: 3 and 7
  MaxErrors        \* bits damaged in a block

VARIABLES
  clock,           \* clocks done by the generator
  reg,             \* a bag of symbols per register bit (reg_q, reg_d)
  len, errors,     \* the block: its body length and its set of damaged bits
  k, q             \* bytes fed to bch_ecc, its register
vars == <<clock, reg, len, errors, k, q>>

Bit8 == 0 .. 7
Symbols == ({"q"} \X Bit8) \cup ({"d"} \X Bit8)
One(s) == [x \in Symbols |-> IF x = s THEN 1 ELSE 0]
Plus(a, b) == [x \in Symbols |-> a[x] + b[x]]     \* lists joined

\* "advance lfsr" and "remove all duplicate pairs".  After the first clock
\* reg_q and reg_d are the same list, so the entries are replaced in place, in
\* this order; each is still read before it is written.
AdvanceTap2(r, c) ==
  LET fb == Plus(r[0], One(<<"d", c>>)) IN
  [j \in Bit8 |-> CASE j = 0 -> Plus(r[1], fb)
                    [] j = 2 -> Plus(r[3], fb)
                    [] j = 7 -> fb
                    [] OTHER -> r[j+1]]
Advance(r, c) ==
  LET fb == Plus(r[0], One(<<"d", c>>)) IN
  [j \in Bit8 |-> CASE j = 0 -> Plus(r[1], fb)
                    [] j = 1 -> Plus(r[2], fb)
                    [] j = 7 -> fb
                    [] OTHER -> r[j+1]]
RemoveNone(r) == r
RemovePairs(r) == [j \in Bit8 |-> [x \in Symbols |-> r[j][x] % 2]]

\* The equations of bch_ecc: n[j] is the xor of d[t] and q[t], t \in Taps[j].
TapsTypo ==   \* one index of n[4] mistyped
  <<{0,1,2,4,5,7}, {3,4,6,7}, {1,2}, {0,2,3}, {0,1,3,5}, {1,2,4,5}, {0,2,3,5,6}, {0,1,3,4,6,7}>>
Taps ==
  <<{0,1,2,4,5,7}, {3,4,6,7}, {1,2}, {0,2,3}, {0,1,3,4}, {1,2,4,5}, {0,2,3,5,6}, {0,1,3,4,6,7}>>
\* The xor of bits, given the set of those that are 1; equal pairs drop out.
xor_vec(ones) == Cardinality(ones) % 2
EccStep(r, byte) ==
  [j \in Bit8 |-> xor_vec({t \in Taps[j+1] : byte[t] # r[t]})]

\* The byte of the block at position b, as the pattern has it.
Byte(b) == [t \in Bit8 |-> IF 8*b + t \in errors THEN 1 ELSE 0]

Init ==
  /\ clock = 0
  /\ reg = [j \in Bit8 |-> One(<<"q", j>>)]
  /\ len = 0 /\ errors = {}
  /\ k = 0 /\ q = [t \in Bit8 |-> 0]

Clock ==
  /\ clock < 8
  /\ clock' = clock + 1
  /\ reg' = RemovePairs(Advance(reg, clock))
  /\ UNCHANGED <<len, errors, k, q>>

\* bch_ecc is called for a block: q = int2vec(0,8).
Begin ==
  /\ clock = 8 /\ len = 0
  /\ len' \in BodyLengths
  /\ k' = 0 /\ q' = [t \in Bit8 |-> 0]
  /\ UNCHANGED <<clock, reg, errors>>

\* One more bit of the block is damaged on its way (in ascending order).
Damage ==
  /\ len > 0 /\ k = 0 /\ Cardinality(errors) < MaxErrors
  /\ \E b \in 0 .. 8*len + 7 : /\ \A e \in errors : b > e
                              /\ errors' = errors \cup {b}
  /\ UNCHANGED <<clock, reg, len, k, q>>

Feed ==
  /\ errors # {} /\ k < len
  /\ q' = EccStep(q, Byte(k))
  /\ k' = k + 1
  /\ UNCHANGED <<clock, reg, len, errors>>

Next == Clock \/ Begin \/ Damage \/ Feed
Spec == Init /\ [][Next]_vars

------------------------------------------------------------------------------
(* Properties.                                                             *)

TypeOK ==
  /\ clock \in 0 .. 8
  /\ reg \in [Bit8 -> [Symbols -> {0, 1}]]
  /\ len \in BodyLengths \cup {0} /\ errors \subseteq 0 .. 8*len + 7
  /\ k \in 0 .. len /\ q \in [Bit8 -> {0, 1}]

\* "see hdmi_bch_ecc.py": the equations of the client are those the generator
\* derives from the shift register for eight clocks.
EquationsAreGenerated ==
  clock = 8 => \A j \in Bit8 :
    {x \in Symbols : reg[j][x] = 1} = {"q", "d"} \X Taps[j+1]

\* What the code is for: a header or subpacket with up to MaxErrors damaged
\* bits, in its body or in its code byte, does not pass for a sound one.
DamageIsSeen == (errors # {} /\ k = len) => q # Byte(len)
=============================================================================
