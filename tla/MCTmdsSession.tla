----------------------------- MODULE MCTmdsSession ----------------------------
(* Instances of TmdsSession: two clients, one after the other or at the     *)
(* same time, with requests of one to MaxPixels pixels, and a pool of two   *)
(* control blocks.  With a FIFO of one word and requests of up to three     *)
(* words, a slow engine loses words and may still end.                      *)
EXTENDS TmdsSession

CONSTANTS c1, c2, p1, p2
Two == {c1, c2}
Blocks == {p1, p2}
===============================================================================
