------------------------------ MODULE MCRamInit -------------------------------
(* A RAM of 16 bytes (size 1) or 32 (size 2) in four banks, for TLC.        *)
EXTENDS RamInit

Files == {<<>>, <<1>>, <<2, 3, 4, 5, 6>>, [k \in 1 .. 16 |-> 10 + k]}
Places == {-1, 0, 3, 12, 16, 27}
Pairs == {<<a, f>> : a \in Places, f \in Files}
MCCommandLines ==
  {[size |-> s, args |-> <<>>] : s \in {1, 3}}
  \cup {[size |-> s, args |-> p] : s \in {1, 2}, p \in Pairs}
  \cup {[size |-> s, args |-> Append(p, 0)] : s \in {1, 2}, p \in Pairs}
  \cup {[size |-> s, args |-> p \o q] : s \in {1, 2}, p \in Pairs, q \in Pairs}
=============================================================================
