------------------------------ MODULE MemacUtil ------------------------------
(***************************************************************************)
(* memac_util_pkg.vhd: the Gray code of the descriptor queue's pointers.   *)
(* A word of n bits is a function from 0 .. n-1 (bit numbers, n-1 the most *)
(* significant) to {0, 1}.                                                 *)
(***************************************************************************)
EXTENDS Naturals, FiniteSets

Bit == {0, 1}

Words(n) == [0 .. n-1 -> Bit]

xor(a, b) == (a + b) % 2

\* numeric_std to_unsigned(k, n): the n low bits of k.
to_unsigned(k, n) == [i \in 0 .. n-1 |-> (k \div 2^i) % 2]

\* The loop of bin2gray: every bit but the top one is xored with its left
\* neighbour.
bin2gray(bin, n) ==
  [i \in 0 .. n-1 |-> IF i = n-1 THEN bin[i] ELSE xor(bin[i], bin[i+1])]

\* The loop of gray2bin runs downwards through the bits it has already
\* written, so bit i becomes the parity of gray(n-1 downto i).
gray2bin(gray, n) ==
  [i \in 0 .. n-1 |-> Cardinality({j \in i .. n-1 : gray[j] = 1}) % 2]

\* What a register clocked while the word p turns into q may capture: each
\* bit settles on its old or on its new value.
InFlight(p, q, n) == {c \in Words(n) : \A i \in 0 .. n-1 : c[i] \in {p[i], q[i]}}
=============================================================================
