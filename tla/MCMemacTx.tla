------------------------------ MODULE MCMemacTx ------------------------------
(* The transmit path with its two services, for TLC: ARP, whose replies have *)
(* one length, and ICMP, whose replies have the length of the request.  As   *)
(* memac_raw_tx_alloc places them, the second reply begins where the first   *)
(* one ends, in the middle of a word.  Of the pings, 2 fits; 4 is too long   *)
(* for the room and cut to 0 in the queues' len; 9 is cut to 1 already in    *)
(* the descriptor, and is written round the end of the buffer over all of it.*)
EXTENDS MemacTx

MCidx  == <<0, 3>>
MCroom == <<3, 2>>
MCLens == <<{3}, {2, 4, 9}>>
=============================================================================
