------------------------------ MODULE TmdsSession -----------------------------
(***************************************************************************)
(* The server of tmds_cap (server.c: one foreground loop that polls the    *)
(* network and the capture hardware, with lwIP's callbacks) and its        *)
(* clients (tmds_cap.py, the part that gets data from the hardware).       *)
(*                                                                         *)
(* tcp_write is called without a copy: what is in flight are places of     *)
(* cap_buf, and a pixel leaves it when the segment does.  A connection is  *)
(* named by its control block, of which lwIP has a pool: tcp_pcb_tx keeps  *)
(* pointing to one after the connection is closed and the block reused.    *)
(***************************************************************************)
EXTENDS TmdsStream, FiniteSets

CONSTANTS
  Clients, None,
  Pcbs,        \* lwIP's pool
  SndBuf,      \* pixels in the send buffer of a connection
  Polite       \* a client comes when the one before has gone, and goes when it
               \* has what it asked for; otherwise one comes and goes at any time

ASSUME SessionAssumption ==
  /\ IsFiniteSet(Clients) /\ None \notin Clients /\ SndBuf \in Nat \ {0} /\ Polite \in BOOLEAN

VARIABLES
  pcb,                            \* [client, get, fin, flight]: who is connected, what has
                                  \* arrived from it, the places sent and not yet received
  tcp_pcb_tx, pixels_remaining, pixels_sent,
  advert,                         \* broadcasts under way
  client,                         \* [state, n, i]: n and i are those of the client's code
  mine, got                       \* the capture made for it; all it has received
server == <<tcp_pcb_tx, pixels_remaining, pixels_sent>>
people == <<client, mine, got>>
vars == <<stream, pcb, server, advert, people>>

Free == [client |-> None, get |-> FALSE, fin |-> FALSE, flight |-> <<>>]

\* A request is for as many pixels as the buffer holds at most: neither side of
\* the program looks at the number, so it is for the user to ask for no more.
Init ==
  /\ StreamInit
  /\ pcb = [s \in Pcbs |-> Free]
  /\ tcp_pcb_tx = None /\ pixels_remaining = 0 /\ pixels_sent = 0
  /\ advert = {}
  /\ \E n \in [Clients -> 1 .. MaxPixels] : client = [c \in Clients |-> [state |-> "new", n |-> n[c], i |-> 0]]
  /\ mine = [c \in Clients |-> 0] /\ got = [c \in Clients |-> <<>>]

------------------------------------------------------------------------------
(* The client.                                                             *)

Is(c, state) == client[c].state = state
Becomes(c, state) == client' = [client EXCEPT ![c].state = state]
Gone(c) == Is(c, "gone")
Present(c) == ~Is(c, "new") /\ ~Gone(c)
Served(c) == Len(got[c]) = client[c].n

Begin(c) ==
  /\ Is(c, "new") /\ (Polite => \A d \in Clients : ~Present(d) /\ \A s \in Pcbs : pcb[s].client # d)
  /\ Becomes(c, "listening")
  /\ UNCHANGED <<stream, pcb, server, advert, mine, got>>

\* An advertisement arrives, or is lost on the way.
Hear(c) ==
  /\ c \in advert /\ advert' = advert \ {c}
  /\ IF Is(c, "listening") THEN Becomes(c, "connecting") ELSE client' = client
  /\ UNCHANGED <<stream, pcb, server, mine, got>>
Lose(c) ==
  /\ c \in advert /\ advert' = advert \ {c}
  /\ UNCHANGED <<stream, pcb, server, people>>

Connect(c) ==
  /\ Is(c, "connecting") /\ Becomes(c, "connected")
  /\ \E s \in Pcbs : pcb[s] = Free /\ pcb' = [pcb EXCEPT ![s].client = c]
  /\ UNCHANGED <<stream, server, advert, mine, got>>

Request(c) ==
  /\ Is(c, "connected") /\ Becomes(c, "receiving")
  /\ pcb' = [s \in Pcbs |-> IF pcb[s].client = c THEN [pcb[s] EXCEPT !.get = TRUE] ELSE pcb[s]]
  /\ UNCHANGED <<stream, server, advert, mine, got>>

\* recv_into: the pixels that have arrived go to place i of the client's buffer,
\* and i stays; it goes on until i is n.
Receive(c) ==
  /\ Is(c, "receiving")
  /\ \E s \in Pcbs :
       /\ pcb[s].client = c /\ pcb[s].flight # <<>>
       /\ got' = [got EXCEPT ![c] = Append(@, cap_buf[Head(pcb[s].flight)])]
       /\ pcb' = [pcb EXCEPT ![s].flight = Tail(@)]
  /\ Becomes(c, IF client[c].i < client[c].n THEN "receiving" ELSE "done")
  /\ UNCHANGED <<stream, server, advert, mine>>

\* It is interrupted, and its socket closed.
Leave(c) ==
  /\ Present(c) /\ (Polite => Is(c, "receiving") /\ Served(c))
  /\ Becomes(c, "gone")
  /\ pcb' = [s \in Pcbs |-> IF pcb[s].client = c THEN [pcb[s] EXCEPT !.fin = TRUE, !.flight = <<>>] ELSE pcb[s]]
  /\ UNCHANGED <<stream, server, advert, mine, got>>

------------------------------------------------------------------------------
(* The server.                                                             *)

Advertise ==
  /\ advert' = {c \in Clients : Present(c)}
  /\ UNCHANGED <<stream, pcb, server, people>>

\* server_tcp_recv with a request ...
ServeGet(s) ==
  /\ pcb[s].get /\ Quiet
  /\ LET c == pcb[s].client IN
     /\ tcp_pcb_tx' = s /\ CapStart(client[c].n)
     /\ mine' = [mine EXCEPT ![c] = capture + 1]
  /\ pcb' = [pcb EXCEPT ![s].get = FALSE]
  /\ UNCHANGED <<pixels_remaining, pixels_sent, advert, client, got>>
\* ... and with the end of the connection.
ServeClose(s) ==
  /\ pcb[s].fin /\ ~pcb[s].get
  /\ pcb' = [pcb EXCEPT ![s] = Free]
  /\ UNCHANGED <<stream, server, advert, people>>

\* transfer: as much as there is room for; tcp_write may fail, and does on a
\* connection that is closed.
Open(s) == pcb[s].client # None
NextPixelsOff == pixels_sent + 1
NextPixels == pixels_sent
Transfer ==
  LET s == tcp_pcb_tx
      space == SndBuf - Len(pcb[s].flight)
      k == IF space > pixels_remaining THEN pixels_remaining ELSE space
  IN /\ pixels_remaining # 0 /\ Open(s) /\ k > 0
     /\ pcb' = [pcb EXCEPT ![s].flight = IF pcb[s].fin THEN @ ELSE @ \o [j \in 1 .. k |-> NextPixels + j - 1]]
     /\ pixels_sent' = pixels_sent + k /\ pixels_remaining' = pixels_remaining - k
     /\ UNCHANGED <<stream, tcp_pcb_tx, advert, people>>

Poll ==
  /\ pixels_remaining = 0
  /\ pixels_sent' = 0 /\ pixels_remaining' = CapRdy /\ CapTake
  /\ UNCHANGED <<cap_size, pclk, fifo, dma, cap_buf, capture, lost, pcb, tcp_pcb_tx, advert, people>>

Hardware == (PixelClock \/ DmaTake) /\ UNCHANGED <<pcb, server, advert, people>>

Next ==
  \/ \E c \in Clients : Begin(c) \/ Hear(c) \/ Lose(c) \/ Connect(c) \/ Request(c) \/ Receive(c) \/ Leave(c)
  \/ \E s \in Pcbs : ServeGet(s) \/ ServeClose(s)
  \/ Advertise \/ Transfer \/ Poll \/ Hardware

Spec == Init /\ [][Next]_vars

\* The loop of the server goes round, the clocks of the hardware run, and TCP
\* delivers.  Of the broadcasts some get through.  Nobody has to begin or leave.
Fairness ==
  /\ WF_vars(Advertise) /\ WF_vars(Transfer) /\ WF_vars(Poll)
  /\ \A s \in Pcbs : WF_vars(ServeGet(s)) /\ WF_vars(ServeClose(s))
  /\ WF_vars(PixelClock /\ UNCHANGED <<pcb, server, advert, people>>)
  /\ WF_vars(DmaTake /\ UNCHANGED <<pcb, server, advert, people>>)
  /\ \A c \in Clients : SF_vars(Hear(c)) /\ WF_vars(Connect(c)) /\ WF_vars(Request(c)) /\ WF_vars(Receive(c))
FairSpec == Spec /\ Fairness

------------------------------------------------------------------------------
(* Properties.                                                             *)

TypeOK ==
  /\ {cap_en, cap_en_s, cap_en_s1, cap_run, cap_stop} \subseteq {0, 1}
  /\ cap_size \in 0 .. MaxPixels /\ cap_count \in 0 .. MaxPixels
  /\ Len(fifo) <= Depth /\ Len(word.pix) <= 2
  /\ dma.length \in 0 .. MaxPixels /\ dma.done \in 0 .. dma.length
  /\ tcp_pcb_tx \in Pcbs \cup {None}
  /\ pixels_sent + pixels_remaining \in 0 .. MaxPixels
  /\ \A s \in Pcbs : Len(pcb[s].flight) <= SndBuf

\* What cap_rdy says is ready is the whole of the last capture, in order,
\* whatever the two clocks and the engine were doing; and if the FIFO lost a
\* word, there are characters in it that are not TMDS.
ReadyIsComplete ==
  (pixels_remaining = 0 /\ pixels_remaining' # 0) =>
    IF lost THEN \E k \in 0 .. pixels_remaining'-1 : cap_buf[k] = Fill
    ELSE \A k \in 0 .. pixels_remaining'-1 : cap_buf[k] = <<capture, k>>
\* The buffer is not filled or captured into while places of it are in flight
\* or still to be sent.
BufferIsStable ==
  cap_buf' # cap_buf => pixels_remaining = 0 /\ \A s \in Pcbs : pcb[s].flight = <<>>

\* The buffer is handed over between capture and transfer: only when it is
\* complete, and back only when nothing of it is still to be sent.
CaptureIsHandedOver == [][ReadyIsComplete /\ BufferIsStable]_vars

\* "transfer captured data": a client receives pixels of the capture made for
\* it, in order and no more than it asked for; a capture that lost words of
\* its FIFO has gaps, and characters that are not TMDS at its end.  (lost is
\* about the last capture.)
EveryClientGetsItsOwn ==
  \A c \in Clients :
    /\ Len(got[c]) <= client[c].n
    /\ \A k \in DOMAIN got[c] :
         IF lost \/ mine[c] # capture
         THEN got[c][k] = Fill \/ (got[c][k][1] = mine[c] /\ got[c][k][2] >= k-1)
         ELSE got[c][k] = <<mine[c], k-1>>

\* "client requested %ld pixels": all of them come, whatever clients before it
\* have done, unless the FIFO lost a word.  It holds if clients are polite.
EveryRequestIsServed ==
  \A c \in Clients : Is(c, "receiving") ~> (Served(c) \/ Gone(c) \/ lost)
===============================================================================
