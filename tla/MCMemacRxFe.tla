----------------------------- MODULE MCMemacRxFe -----------------------------
(* The receive front end with short frames and a small ring, for TLC. *)
EXTENDS MemacRxFe

\* One good frame, buffered with preamble and FCS.  Two of them do not fit the
\* ring, and it begins in every place of the ring.
GoodFrame == [good |-> [len |-> 5, pre |-> 0, sfd |-> "other", wrong |-> {}, er |-> {}]]
GoodFrames == DOMAIN GoodFrame

\* Frames as they come from a PHY: a good one, one that fails its FCS after a
\* preamble a PHY has shortened, a runt with an error in it after a long
\* preamble, one whose preamble is missing, and one that ends in its preamble.
PhyFrame ==
  [good |-> [len |-> 13, pre |-> 7, sfd |-> "D5",    wrong |-> {},  er |-> {}],
   bad  |-> [len |-> 7,  pre |-> 1, sfd |-> "D5",    wrong |-> {2}, er |-> {}],
   runt |-> [len |-> 10, pre |-> 8, sfd |-> "D5",    wrong |-> {},  er |-> {10}],
   hit  |-> [len |-> 6,  pre |-> 0, sfd |-> "other", wrong |-> {},  er |-> {1}],
   cut  |-> [len |-> 1,  pre |-> 1, sfd |-> "other", wrong |-> {},  er |-> {}]]
PhyFrames == DOMAIN PhyFrame
=============================================================================
