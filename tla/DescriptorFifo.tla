--------------------------- MODULE DescriptorFifo ----------------------------
(***************************************************************************)
(* What memac_pdq.vhd promises its two users: a FIFO of at most CAPACITY   *)
(* descriptors (the component's comment: "effective DEPTH is               *)
(* (2^DEPTH_LOG2)-1"), which a reset empties.  The two sides have clocks   *)
(* of their own, so a put and a get may fall into the same instant.        *)
(***************************************************************************)
EXTENDS Naturals, Sequences

CONSTANTS CAPACITY, Data

VARIABLE queue

Init == queue = <<>>

Put(d) == Len(queue) < CAPACITY /\ queue' = Append(queue, d)

Get == Len(queue) > 0 /\ queue' = Tail(queue)

PutAndGet(d) ==
  Len(queue) \in 1 .. CAPACITY - 1 /\ queue' = Append(Tail(queue), d)

Reset == queue' = <<>>

Next == Get \/ Reset \/ \E d \in Data : Put(d) \/ PutAndGet(d)

Spec == Init /\ [][Next]_queue
=============================================================================
