------------------------------ MODULE MemacPost ------------------------------
(***************************************************************************)
(* How memac_tx.vhd and memac_rx.vhd wire the queues that their front ends *)
(* write to: the PFQ of the transmitter, the PRQ of the receiver.          *)
(*                                                                         *)
(* A front end works in the cycles of umi_clk that umi_clken enables: all  *)
(* of them at 1000 Mbit/s, every other or fewer at 10 and 100 Mbit/s.  Its *)
(* strobe and descriptor are registers, so they keep their values for as   *)
(* long as the next enabled cycle lets them.  The system side, on sys_clk, *)
(* strobes for one cycle when it finds the queue ready.                    *)
(*                                                                         *)
(* The queue itself is module MemacPdq, with umi_clk as w_clk and sys_clk  *)
(* as r_clk, released from reset once.                                     *)
(***************************************************************************)
EXTENDS MemacPdq

CONSTANTS
  Enables,    \* values umi_clken takes: {1} at 1000 Mbit/s, else {0, 1}
  W_GATED,    \* 1: w_clken => umi_clken, 0: w_clken => '1'
  R_GATED     \* 1: r_clken => umi_clken, 0: r_clken => '1'

ASSUME WiringAssumption ==
  Enables \in {{1}, {0, 1}} /\ {W_GATED, R_GATED} \subseteq {0, 1}

VARIABLES
  stb, desc,  \* the front end's strobe register and descriptor
  owed        \* descriptors posted and not yet taken (a history)

pvars == <<vars, stb, desc, owed>>

\* The clock enable inputs of the queue, and a slip.
w_clkenAlways(umi_clken) == 1
w_clken(umi_clken) == IF W_GATED = 1 THEN umi_clken ELSE 1
r_clken(umi_clken) == IF R_GATED = 1 THEN umi_clken ELSE 1

InitPost == Init /\ stb = 0 /\ desc = Zero /\ owed = <<>>

Release == ReleaseReset /\ UNCHANGED <<stb, desc, owed>>

\* The front end: in an enabled cycle it takes its strobe back, or posts a
\* descriptor if the queue is ready.  took: what the system side takes now.
FrontEnd(umi_clken, took) ==
  \/ /\ umi_clken = 1
     /\ stb' = 0 /\ owed' = took /\ desc' = desc
  \/ /\ umi_clken = 1 /\ stb = 0 /\ w_rdy = 1 /\ w_rst = All(0)
     /\ \E d \in Data : stb' = 1 /\ desc' = d /\ owed' = Append(took, d)
  \/ /\ umi_clken = 0
     /\ owed' = took /\ UNCHANGED <<stb, desc>>

\* One edge of umi_clk.
UmiTick(umi_clken) ==
  /\ WEdge(w_clken(umi_clken), stb, desc, r_ptr)
  /\ FrontEnd(umi_clken, owed)
  /\ UNCHANGED <<a_rst, rvars>>

\* One edge of sys_clk; the system side takes the descriptor it is offered.
Taken(rstb) == IF rstb = 1 /\ owed # <<>> THEN Tail(owed) ELSE owed

SysTick(umi_clken) ==
  \E rstb \in Bit :
    /\ rstb <= r_rdy
    /\ REdge(r_clken(umi_clken), rstb, w_ptr, ram[r_ptr])
    /\ owed' = Taken(rstb)
    /\ UNCHANGED <<a_rst, wvars, stb, desc>>

NextPost == Release \/ \E c \in Enables : UmiTick(c) \/ SysTick(c)

SpecPost == InitPost /\ [][NextPost]_pvars

-----------------------------------------------------------------------------
\* Each descriptor the front end posts is in the queue once, until the system
\* side takes it: none is enqueued twice because the strobe lasts longer than
\* a cycle, and none that was taken stays.  The last may still be on its way
\* while the front end strobes.
EachPostOnce == owed = queue \/ (stb = 1 /\ owed = Append(queue, desc))

\* What the system side reads is the oldest descriptor it is owed.
OffersTheOldest == r_rdy = 1 => owed # <<>> /\ r_data = owed[1]

\* The wiring of memac_tx.vhd at any speed, or either at 1000 Mbit/s.
RightWiring == (W_GATED = 1 /\ R_GATED = 0) \/ Enables = {1}

\* Why each descriptor is posted once: it enters the queue with the edge that
\* takes its strobe back,
OwedIsQueued == owed = IF stb = 1 THEN Append(queue, desc) ELSE queue

\* and a strobe that was raised meets the ready it was raised for: a ready is
\* shown only to a writer that was quiet.
StrobeMeetsReady ==
  /\ stb \in Bit /\ desc \in Data
  /\ stb = 1 => w_rdy = 1 /\ w_rst = All(0)
  /\ w_rdy = 1 => w_stb_r = All(0)
=============================================================================
