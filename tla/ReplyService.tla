----------------------------- MODULE ReplyService ----------------------------
(***************************************************************************)
(* What the transmit path promises each protocol that answers requests:    *)
(* a reply, once accepted, is handed to the transmitter, sent once, and    *)
(* only then is its buffer the protocol's again.  No service waits for     *)
(* another one in this view.                                               *)
(***************************************************************************)
CONSTANT Services

VARIABLE phase

Init == phase = [s \in Services |-> "idle"]

Step(s, from, to) == phase[s] = from /\ phase' = [phase EXCEPT ![s] = to]

Accept(s)  == Step(s, "idle", "accepted")
Handover(s) == Step(s, "accepted", "queued")
Send(s)    == Step(s, "queued", "sent")
Release(s) == Step(s, "sent", "idle")

Next == \E s \in Services : Accept(s) \/ Handover(s) \/ Send(s) \/ Release(s)

Spec == Init /\ [][Next]_phase
=============================================================================
