-------------------------- MODULE TmdsSession_proofs --------------------------
(***************************************************************************)
(* Of the server of tmds_cap, for every size of the buffer, of the FIFO    *)
(* and of the send buffer, every number of clients and control blocks: a   *)
(* capture that cap_rdy reports is whole, whatever the clients do; and if  *)
(* they come one after the other, each receives the pixels captured for    *)
(* it, in order, from a buffer that nothing writes to meanwhile.           *)
(***************************************************************************)
EXTENDS TmdsSession, SequenceTheorems, TLAPS

\* Types.  The last conjunct of ServerType: pixels to be sent have a control block.
Pixel == Nat \X Nat
Words == [pix : Seq(Pixel), we : BOOLEAN, last : BOOLEAN]
Block == [client : Clients \cup {None}, get : BOOLEAN, fin : BOOLEAN, flight : Seq(0 .. MaxPixels-1)]
ClientStates == {"new", "listening", "connecting", "connected", "receiving", "done", "gone"}

StreamType ==
  /\ cap_en \in {0, 1} /\ cap_en_s \in {0, 1} /\ cap_en_s1 \in {0, 1}
  /\ cap_run \in {0, 1} /\ cap_stop \in {0, 1}
  /\ cap_size \in 0 .. MaxPixels /\ cap_count \in Nat
  /\ word \in Words
  /\ fifo \in Seq(Words) /\ Len(fifo) <= Depth
  /\ dma \in [idle : BOOLEAN, length : 0 .. MaxPixels, done : Nat]
  /\ dma.done <= dma.length
  /\ cap_buf \in [0 .. MaxPixels-1 -> Pixel]
  /\ capture \in Nat /\ lost \in BOOLEAN

BlocksType ==
  /\ pcb \in [Pcbs -> Block]
  /\ \A s \in Pcbs : Len(pcb[s].flight) <= SndBuf /\ (pcb[s].get => pcb[s].client \in Clients)
ServerType ==
  /\ BlocksType
  /\ tcp_pcb_tx \in Pcbs \cup {None}
  /\ pixels_sent \in Nat /\ pixels_remaining \in Nat /\ pixels_sent + pixels_remaining <= MaxPixels
  /\ (cap_size # 0 \/ pixels_remaining # 0) => tcp_pcb_tx \in Pcbs

PeopleType ==
  /\ advert \subseteq Clients
  /\ client \in [Clients -> [state : ClientStates, n : 1 .. MaxPixels, i : Nat]]
  /\ mine \in [Clients -> Nat]
  /\ got \in [Clients -> Seq(Pixel)]

TypeInv == StreamType /\ ServerType /\ PeopleType
------------------------------------------------------------------------------
(***************************************************************************)
(* Where each word of the capture is: in the buffer up to dma.done, in the *)
(* FIFO two pixels to an entry, in the word under construction, and still  *)
(* to come from NextPlace on.  Without a lost word these follow each other *)
(* exactly; with one, everything behind it is at a later place than its    *)
(* turn, and the capture ends before the buffer is full.                   *)
(***************************************************************************)

\* The enable has crossed to the pixel clock and is not seen as an edge again.
Started == cap_en = 1 /\ cap_en_s1 = 1
\* What is under way belongs to a capture that is enabled; between the enabling
\* and its edge the engine has just been started.
EnableInv ==
  /\ cap_en = 0 => cap_en_s <= cap_en_s1
  /\ cap_en = 1 => cap_en_s1 <= cap_en_s
  /\ dma.length = cap_size
  /\ cap_en = 1 => cap_size > 0
  /\ ~Started => cap_run = 0 /\ word = NoWord /\ fifo = <<>>
  /\ cap_en = 1 /\ cap_en_s1 = 0 => ~dma.idle /\ dma.done = 0 /\ ~lost

\* A word holds two pixels that follow each other, or the odd last one.
Single(p) == << <<capture, p>> >>
Pair(p) == << <<capture, p>>, <<capture, p+1>> >>

WordInv ==
  /\ cap_run = 1 =>
       /\ cap_count < cap_size
       /\ cap_count = 0 => word = NoWord
       /\ cap_count % 2 = 1 => word = [pix |-> Single(cap_count-1), we |-> FALSE, last |-> FALSE]
       /\ cap_count # 0 /\ cap_count % 2 = 0 => word = [pix |-> Pair(cap_count-2), we |-> TRUE, last |-> FALSE]
  /\ cap_run = 0 /\ word # NoWord =>
       /\ cap_count = cap_size
       /\ cap_count % 2 = 1 => word = [pix |-> Single(cap_count-1), we |-> TRUE, last |-> TRUE]
       /\ cap_count % 2 = 0 => word = [pix |-> Pair(cap_count-2), we |-> TRUE, last |-> TRUE]

\* The place of the first pixel that has been put into no written word yet.
NextPlace == IF cap_count = 0 THEN 0 ELSE IF cap_count % 2 = 1 THEN cap_count - 1 ELSE cap_count - 2
CountInv ==
  cap_run = 1 \/ word # NoWord =>
    /\ ~dma.idle
    /\ ~lost => dma.done + 2 * Len(fifo) = NextPlace
    /\ lost => dma.done + 2 * Len(fifo) < NextPlace

\* The word that is entry i of the FIFO, and where its pixels are in the capture.
Place(w) == w.pix[1][2]
Queued(w, i) ==
  /\ ~dma.idle /\ Place(w) \in Nat
  /\ w.pix = Single(Place(w)) \/ w.pix = Pair(Place(w))
  /\ ~w.last => w.pix = Pair(Place(w))
  /\ IF lost THEN dma.done + 2 * (i-1) <= Place(w) ELSE dma.done + 2 * (i-1) = Place(w)
  /\ w.last => /\ i = Len(fifo) /\ cap_run = 0 /\ word = NoWord
               /\ Place(w) + Len(w.pix) = cap_size
               /\ lost => dma.done + 2 * (i-1) < Place(w)
FifoInv == \A i \in 1 .. Len(fifo) : Queued(fifo[i], i)

\* The buffer holds the capture so far, and from there on the filling.
BufferInv ==
  /\ \A k \in 0 .. MaxPixels-1 : k < dma.done => 
       /\ cap_buf[k][1] = capture /\ cap_buf[k][2] >= k
       /\ ~lost => cap_buf[k][2] = k
  /\ \A k \in 0 .. MaxPixels-1 : dma.done <= k /\ k < dma.length => cap_buf[k] = Fill
  /\ dma.idle => IF lost THEN dma.done < dma.length ELSE dma.done = dma.length

StreamInv == EnableInv /\ WordInv /\ CountInv /\ FifoInv /\ BufferInv
------------------------------------------------------------------------------
(***************************************************************************)
(* Who is there, when clients are polite: at most one of them and one      *)
(* control block, so that a request finds nothing of an earlier one; and   *)
(* what is on its way to the one that is served.                           *)
(***************************************************************************)
Linked(s) == pcb[s].client # None
Here(c) == Present(c) \/ \E s \in Pcbs : pcb[s].client = c
Serving(s) == Linked(s) /\ ~pcb[s].get /\ ~pcb[s].fin /\ Is(pcb[s].client, "receiving")

OneAtATime ==
  /\ \A c, d \in Clients : Here(c) /\ Here(d) => c = d
  /\ \A s, t \in Pcbs : Linked(s) /\ Linked(t) => s = t
LinkInv ==
  /\ \A s \in Pcbs : ~Linked(s) => pcb[s] = Free
  /\ \A s \in Pcbs, c \in Clients : pcb[s].client = c =>
       /\ client[c].state \in {"connected", "receiving", "gone"}
       /\ pcb[s].fin <=> Is(c, "gone")
       /\ pcb[s].get => Is(c, "receiving") /\ got[c] = <<>>
\* The client's i is never counted up; nothing comes before it has asked.
WaitInv ==
  \A c \in Clients : /\ client[c].i = 0
                     /\ client[c].state \notin {"receiving", "gone"} => got[c] = <<>>
PeopleInv == OneAtATime /\ LinkInv /\ WaitInv

\* The request of c, which is being served: captured for, then sent, place by
\* place: those received, those in flight, those still to be sent.
Moving(s, c) ==
  /\ tcp_pcb_tx = s /\ mine[c] = capture /\ cap_size = client[c].n
  /\ cap_en = 1 => got[c] = <<>> /\ pcb[s].flight = <<>> /\ pixels_remaining = 0
  /\ cap_en = 0 =>
       /\ dma.idle
       /\ Len(got[c]) + Len(pcb[s].flight) + pixels_remaining = client[c].n
       /\ pixels_remaining # 0 => pixels_sent = client[c].n - pixels_remaining
       /\ \A j \in 1 .. Len(pcb[s].flight) : pcb[s].flight[j] = Len(got[c]) + j - 1
TransferInv ==
  /\ (\A s \in Pcbs : ~Serving(s)) => cap_en = 0 /\ pixels_remaining = 0
  /\ \A s \in Pcbs : ~Serving(s) => pcb[s].flight = <<>>
  /\ \A s \in Pcbs, c \in Clients : Serving(s) /\ pcb[s].client = c => Moving(s, c)

\* x may be what c has received as its k-th pixel.
Own(c, k, x) ==
  IF lost \/ mine[c] # capture
  THEN x = Fill \/ (x[1] = mine[c] /\ x[2] >= k-1)
  ELSE x = <<mine[c], k-1>>
OwnInv ==
  \A c \in Clients : /\ mine[c] <= capture
                     /\ Len(got[c]) <= client[c].n
                     /\ \A k \in 1 .. Len(got[c]) : Own(c, k, got[c][k])
SessionInv == PeopleInv /\ TransferInv /\ OwnInv

------------------------------------------------------------------------------
(* Types.                                                                  *)

LEMMA FillIsPixel == Fill \in Pixel
  BY DEF Fill, Pixel

LEMMA NoWordIsWord == NoWord \in Words
  BY DEF NoWord, Words

LEMMA WordFields == ASSUME NEW w \in Words
                    PROVE  w.pix \in Seq(Pixel) /\ w.we \in BOOLEAN /\ w.last \in BOOLEAN
  BY DEF Words

LEMMA NextWordType == ASSUME StreamType, NEW last \in BOOLEAN PROVE NextWord(last) \in Words
<1> DEFINE pixel == <<capture, cap_count>>
<1>1. pixel \in Pixel
  BY DEF StreamType, Pixel
<1>2. word.pix \in Seq(Pixel)
  BY WordFields DEF StreamType
<1>3. <<pixel>> \in Seq(Pixel) /\ Append(word.pix, pixel) \in Seq(Pixel)
  BY <1>1, <1>2
<1> HIDE DEF pixel
<1>4. /\ [pix |-> <<pixel>>, we |-> last, last |-> last] \in Words
      /\ [pix |-> Append(word.pix, pixel), we |-> TRUE, last |-> last] \in Words
  BY <1>3 DEF Words
<1> QED
  BY <1>4 DEF NextWord, pixel

LEMMA InitType == Init => TypeInv
<1> SUFFICES ASSUME Init PROVE TypeInv
  OBVIOUS
<1>1. StreamType
  <2>1. cap_buf \in [0 .. MaxPixels-1 -> Pixel]
    BY FillIsPixel DEF Init, StreamInit
  <2>2. word \in Words
    BY NoWordIsWord DEF Init, StreamInit
  <2>3. dma \in [idle : BOOLEAN, length : 0 .. MaxPixels, done : Nat] /\ dma.done <= dma.length
    BY StreamAssumption DEF Init, StreamInit
  <2>4. fifo \in Seq(Words) /\ Len(fifo) <= Depth
    BY StreamAssumption DEF Init, StreamInit
  <2>5. /\ cap_en = 0 /\ cap_size = 0 /\ cap_en_s = 0 /\ cap_en_s1 = 0
        /\ cap_run = 0 /\ cap_stop = 0 /\ cap_count = 0 /\ capture = 0 /\ lost = FALSE
    BY DEF Init, StreamInit
  <2> HIDE DEF Words
  <2> QED
    BY <2>1, <2>2, <2>3, <2>4, <2>5, StreamAssumption DEF StreamType
<1>2. ServerType
  <2>1. Free \in Block
    BY DEF Free, Block
  <2>2. pcb \in [Pcbs -> Block] /\ \A s \in Pcbs : pcb[s] = Free
    BY <2>1 DEF Init
  <2>3. \A s \in Pcbs : Len(pcb[s].flight) <= SndBuf /\ (pcb[s].get => pcb[s].client \in Clients)
    BY <2>2, SessionAssumption DEF Free
  <2>4. tcp_pcb_tx = None /\ pixels_sent = 0 /\ pixels_remaining = 0 /\ cap_size = 0
    BY DEF Init, StreamInit
  <2> QED
    BY <2>2, <2>3, <2>4, StreamAssumption DEF ServerType, BlocksType
<1>3. PeopleType
  BY DEF Init, PeopleType, ClientStates
<1> QED
  BY <1>1, <1>2, <1>3 DEF TypeInv

LEMMA ClockType == StreamType /\ PixelClock => StreamType'
<1> SUFFICES ASSUME StreamType, PixelClock PROVE StreamType'
  OBVIOUS
<1>1. /\ cap_en_s' \in {0, 1} /\ cap_en_s1' \in {0, 1} /\ cap_run' \in {0, 1} /\ cap_stop' \in {0, 1}
      /\ cap_count' \in Nat
  BY DEF StreamType, PixelClock
<1>2. AtEnd \in BOOLEAN
  BY DEF AtEnd
<1>3. word' \in Words
  BY <1>2, NextWordType, NoWordIsWord DEF PixelClock
<1>4. /\ fifo' = IF word.we /\ ~(word.we /\ Len(fifo) = Depth) THEN Append(fifo, word) ELSE fifo
      /\ lost' = (lost \/ (word.we /\ Len(fifo) = Depth))
  BY DEF PixelClock
<1>5. fifo' \in Seq(Words) /\ Len(fifo') <= Depth
  BY <1>4, StreamAssumption DEF StreamType
<1>6. lost' \in BOOLEAN
  BY <1>4
<1>7. UNCHANGED <<cap_en, cap_size, dma, cap_buf, capture>>
  BY DEF PixelClock, regs
<1> QED
  BY <1>1, <1>3, <1>5, <1>6, <1>7 DEF StreamType

LEMMA TakeType == StreamType /\ DmaTake => StreamType'
<1> SUFFICES ASSUME StreamType, DmaTake PROVE StreamType'
  OBVIOUS
<1> DEFINE w == Head(fifo)
<1>1. w \in Words /\ fifo' \in Seq(Words) /\ Len(fifo') <= Depth
  BY StreamAssumption DEF StreamType, DmaTake
<1>2. w.pix \in Seq(Pixel) /\ w.last \in BOOLEAN
  BY <1>1, WordFields
<1>3. /\ dma.done + Len(w.pix) <= dma.length
      /\ dma' = [dma EXCEPT !.done = @ + Len(w.pix), !.idle = w.last]
      /\ cap_buf' = [k \in DOMAIN cap_buf |->
                         IF k \in dma.done .. dma.done + Len(w.pix) - 1 THEN w.pix[k - dma.done + 1] ELSE cap_buf[k]]
  BY DEF DmaTake
<1> HIDE DEF w
<1>4. dma.done \in Nat /\ Len(w.pix) \in Nat
  BY <1>2 DEF StreamType
<1>5. dma' \in [idle : BOOLEAN, length : 0 .. MaxPixels, done : Nat] /\ dma'.done <= dma'.length
  <2>1. dma \in [idle : BOOLEAN, length : 0 .. MaxPixels, done : Nat]
    BY DEF StreamType
  <2>2. dma' = [idle |-> w.last, length |-> dma.length, done |-> dma.done + Len(w.pix)]
    BY <1>3, <2>1
  <2>3. dma.done + Len(w.pix) <= dma.length
    BY <1>3
  <2>4. dma.length \in 0 .. MaxPixels /\ dma.done + Len(w.pix) \in Nat
    BY <1>4, <2>1
  <2>5. /\ [idle |-> w.last, length |-> dma.length, done |-> dma.done + Len(w.pix)]
            \in [idle : BOOLEAN, length : 0 .. MaxPixels, done : Nat]
        /\ dma'.done = dma.done + Len(w.pix) /\ dma'.length = dma.length
    BY <1>2, <2>2, <2>4
  <2> QED
    BY <2>2, <2>3, <2>5
<1>6. cap_buf' \in [0 .. MaxPixels-1 -> Pixel]
  <2>1. \A k \in 0 .. MaxPixels-1 : k \in dma.done .. dma.done + Len(w.pix) - 1 => w.pix[k - dma.done + 1] \in Pixel
    BY <1>2, <1>4, StreamAssumption
  <2> QED
    BY <1>3, <2>1 DEF StreamType
<1>7. UNCHANGED <<cap_en, cap_size, cap_en_s, cap_en_s1, cap_run, cap_stop, cap_count, word, capture, lost>>
  BY DEF DmaTake, regs, pclk
<1> QED
  BY <1>1, <1>5, <1>6, <1>7 DEF StreamType

LEMMA StartType == ASSUME StreamType, NEW n \in 1 .. MaxPixels, CapStart(n)
                   PROVE  StreamType' /\ cap_size' # 0
<1>1. cap_buf' \in [0 .. MaxPixels-1 -> Pixel]
  BY FillIsPixel DEF StreamType, CapStart
<1>2. dma' \in [idle : BOOLEAN, length : 0 .. MaxPixels, done : Nat] /\ dma'.done <= dma'.length
  BY DEF CapStart
<1>3. /\ cap_size' = n /\ cap_en' = 1 /\ capture' = capture + 1 /\ lost' = FALSE
      /\ UNCHANGED <<cap_en_s, cap_en_s1, cap_run, cap_stop, cap_count, word, fifo>>
  BY DEF CapStart, pclk
<1>4. cap_size' \in 0 .. MaxPixels /\ cap_size' # 0 /\ capture' \in Nat /\ cap_en' \in {0, 1}
  BY <1>3, StreamAssumption DEF StreamType
<1>5. lost' \in BOOLEAN
  BY <1>3
<1> QED
  BY <1>1, <1>2, <1>3, <1>4, <1>5 DEF StreamType

------------------------------------------------------------------------------
(* What a step leaves alone.                                               *)

streamVars == <<cap_en, cap_size, cap_en_s, cap_en_s1, cap_run, cap_stop, cap_count, word, fifo, dma, cap_buf, capture, lost>>
LEMMA SameStream == UNCHANGED stream => UNCHANGED streamVars
  BY DEF stream, regs, pclk, streamVars

LEMMA StreamTypeKept == StreamType /\ UNCHANGED stream => StreamType'
  BY SameStream DEF StreamType, streamVars

LEMMA FreeIsBlock == Free \in Block
  BY DEF Free, Block

LEMMA BlockFields ==
  ASSUME ServerType, NEW s \in Pcbs
  PROVE  /\ pcb[s] = [client |-> pcb[s].client, get |-> pcb[s].get, fin |-> pcb[s].fin, flight |-> pcb[s].flight]
         /\ pcb[s].client \in Clients \cup {None} /\ pcb[s].get \in BOOLEAN /\ pcb[s].fin \in BOOLEAN
         /\ pcb[s].flight \in Seq(0 .. MaxPixels-1) /\ Len(pcb[s].flight) <= SndBuf
  BY DEF ServerType, BlocksType, Block

LEMMA ClientFields ==
  ASSUME PeopleType, NEW c \in Clients
  PROVE  /\ client[c] = [state |-> client[c].state, n |-> client[c].n, i |-> client[c].i]
         /\ client[c].state \in ClientStates /\ client[c].n \in 1 .. MaxPixels /\ client[c].i \in Nat
         /\ got[c] \in Seq(Pixel) /\ mine[c] \in Nat
  BY DEF PeopleType

\* What a step of one client does to the others, and to itself.
LEMMA BecomesFields ==
  ASSUME PeopleType, NEW c \in Clients, NEW x, Becomes(c, x)
  PROVE  /\ \A d \in Clients : d # c => client'[d] = client[d]
         /\ client'[c].state = x /\ client'[c].n = client[c].n /\ client'[c].i = client[c].i
         /\ x \in ClientStates => client' \in [Clients -> [state : ClientStates, n : 1 .. MaxPixels, i : Nat]]
  BY DEF PeopleType, Becomes

(***************************************************************************)
(* What each action does to the blocks.                                    *)
(***************************************************************************)
Rec(c, g, f, fl) == [client |-> c, get |-> g, fin |-> f, flight |-> fl]
SetClient(b, x) == [b EXCEPT !.client = x]
SetGet(b, x) == [b EXCEPT !.get = x]
SetFlight(b, x) == [b EXCEPT !.flight = x]
SetEnd(b, x, y) == [b EXCEPT !.fin = x, !.flight = y]
LEMMA SetFields ==
  ASSUME NEW b \in Block, NEW x, NEW y
  PROVE  /\ SetClient(b, x) = Rec(x, b.get, b.fin, b.flight)
         /\ SetGet(b, x) = Rec(b.client, x, b.fin, b.flight)
         /\ SetFlight(b, x) = Rec(b.client, b.get, b.fin, x)
         /\ SetEnd(b, x, y) = Rec(b.client, b.get, x, y)
<1>1. [b EXCEPT !.client = x] = Rec(x, b.get, b.fin, b.flight)
  BY DEF Block, Rec
<1>2. [b EXCEPT !.get = x] = Rec(b.client, x, b.fin, b.flight)
  BY DEF Block, Rec
<1>3. [b EXCEPT !.flight = x] = Rec(b.client, b.get, b.fin, x)
  BY DEF Block, Rec
<1>4. [b EXCEPT !.fin = x] = Rec(b.client, b.get, x, b.flight)
  BY DEF Block, Rec
<1>5. ASSUME NEW d, d = [b EXCEPT !.fin = x] PROVE [d EXCEPT !.flight = y] = Rec(b.client, b.get, x, y)
  <2>1. d = Rec(b.client, b.get, x, b.flight)
    BY <1>4, <1>5
  <2> QED
    BY <2>1 DEF Rec
<1>6. [b EXCEPT !.fin = x, !.flight = y] = Rec(b.client, b.get, x, y)
  BY <1>5
<1> HIDE DEF Rec
<1> QED
  BY <1>1, <1>2, <1>3, <1>6 DEF SetClient, SetGet, SetFlight, SetEnd

\* The other blocks stay as they are.
Others(s) == \A t \in Pcbs : t # s => pcb'[t] = pcb[t]

LEMMA ConnectBlocks ==
  ASSUME ServerType, NEW c \in Clients, Connect(c)
  PROVE  \E s \in Pcbs : /\ pcb[s] = Free /\ pcb' = [pcb EXCEPT ![s] = Rec(c, FALSE, FALSE, <<>>)]
                         /\ pcb'[s] = Rec(c, FALSE, FALSE, <<>>) /\ Others(s)
<1>1. PICK s \in Pcbs : pcb[s] = Free /\ pcb' = [pcb EXCEPT ![s].client = c]
  BY DEF Connect
<1>2. [pcb[s] EXCEPT !.client = c] = Rec(c, FALSE, FALSE, <<>>)
  <2>1. Free \in Block /\ Free.get = FALSE /\ Free.fin = FALSE /\ Free.flight = <<>>
    BY FreeIsBlock DEF Free
  <2>2. SetClient(Free, c) = Rec(c, FALSE, FALSE, <<>>)
    BY <2>1, SetFields
  <2> QED
    BY <1>1, <2>2 DEF SetClient
<1>3. pcb \in [Pcbs -> Block]
  BY DEF ServerType, BlocksType
<1>4. pcb' = [pcb EXCEPT ![s] = Rec(c, FALSE, FALSE, <<>>)]
  BY <1>1, <1>2
<1> HIDE DEF Rec
<1> QED
  BY <1>1, <1>3, <1>4 DEF Others

LEMMA RequestBlocks ==
  ASSUME ServerType, NEW c \in Clients, Request(c)
  PROVE  /\ pcb' = [s \in Pcbs |-> IF pcb[s].client = c THEN Rec(c, TRUE, pcb[s].fin, pcb[s].flight) ELSE pcb[s]]
         /\ \A s \in Pcbs : pcb'[s] = IF pcb[s].client = c THEN Rec(c, TRUE, pcb[s].fin, pcb[s].flight) ELSE pcb[s]
<1>1. pcb' = [s \in Pcbs |-> IF pcb[s].client = c THEN [pcb[s] EXCEPT !.get = TRUE] ELSE pcb[s]]
  BY DEF Request
<1>2. \A s \in Pcbs : pcb[s].client = c => [pcb[s] EXCEPT !.get = TRUE] = Rec(c, TRUE, pcb[s].fin, pcb[s].flight)
  <2>1. \A s \in Pcbs : pcb[s].client = c => SetGet(pcb[s], TRUE) = Rec(c, TRUE, pcb[s].fin, pcb[s].flight)
    BY SetFields DEF ServerType, BlocksType
  <2> QED
    BY <2>1 DEF SetGet
<1> HIDE DEF Rec
<1> QED
  BY <1>1, <1>2

LEMMA ReceiveBlocks ==
  ASSUME ServerType, NEW c \in Clients, Receive(c)
  PROVE  \E s \in Pcbs :
           /\ pcb[s].client = c /\ pcb[s].flight # <<>>
           /\ got' = [got EXCEPT ![c] = Append(@, cap_buf[Head(pcb[s].flight)])]
           /\ pcb' = [pcb EXCEPT ![s] = Rec(c, pcb[s].get, pcb[s].fin, Tail(pcb[s].flight))]
           /\ pcb'[s] = Rec(c, pcb[s].get, pcb[s].fin, Tail(pcb[s].flight)) /\ Others(s)
<1>1. PICK s \in Pcbs : /\ pcb[s].client = c /\ pcb[s].flight # <<>>
                        /\ got' = [got EXCEPT ![c] = Append(@, cap_buf[Head(pcb[s].flight)])]
                        /\ pcb' = [pcb EXCEPT ![s].flight = Tail(@)]
  BY DEF Receive
<1>2. [pcb[s] EXCEPT !.flight = Tail(@)] = Rec(c, pcb[s].get, pcb[s].fin, Tail(pcb[s].flight))
  <2>1. SetFlight(pcb[s], Tail(pcb[s].flight)) = Rec(c, pcb[s].get, pcb[s].fin, Tail(pcb[s].flight))
    BY <1>1, SetFields DEF ServerType, BlocksType
  <2> QED
    BY <2>1 DEF SetFlight
<1>3. pcb \in [Pcbs -> Block]
  BY DEF ServerType, BlocksType
<1>4. pcb' = [pcb EXCEPT ![s] = Rec(c, pcb[s].get, pcb[s].fin, Tail(pcb[s].flight))]
  BY <1>1, <1>2
<1> HIDE DEF Rec
<1>5. pcb'[s] = Rec(c, pcb[s].get, pcb[s].fin, Tail(pcb[s].flight)) /\ Others(s)
  BY <1>3, <1>4 DEF Others
<1> QED
  BY <1>1, <1>4, <1>5

LEMMA LeaveBlocks ==
  ASSUME ServerType, NEW c \in Clients, Leave(c)
  PROVE  /\ pcb' = [s \in Pcbs |-> IF pcb[s].client = c THEN Rec(c, pcb[s].get, TRUE, <<>>) ELSE pcb[s]]
         /\ \A s \in Pcbs : pcb'[s] = IF pcb[s].client = c THEN Rec(c, pcb[s].get, TRUE, <<>>) ELSE pcb[s]
<1>1. pcb' = [s \in Pcbs |-> IF pcb[s].client = c THEN [pcb[s] EXCEPT !.fin = TRUE, !.flight = <<>>] ELSE pcb[s]]
  BY DEF Leave
<1>2. \A s \in Pcbs : pcb[s].client = c => [pcb[s] EXCEPT !.fin = TRUE, !.flight = <<>>] = Rec(c, pcb[s].get, TRUE, <<>>)
  <2>1. \A s \in Pcbs : SetEnd(pcb[s], TRUE, <<>>) = Rec(pcb[s].client, pcb[s].get, TRUE, <<>>)
    <3>1. TAKE s \in Pcbs
    <3>2. pcb[s] \in Block
      BY DEF ServerType, BlocksType
    <3> HIDE DEF Rec
    <3>3. \A x, y : SetEnd(pcb[s], x, y) = Rec(pcb[s].client, pcb[s].get, x, y)
      BY <3>2, SetFields
    <3>4. \A y : SetEnd(pcb[s], TRUE, y) = Rec(pcb[s].client, pcb[s].get, TRUE, y)
      BY <3>3
    <3> QED
      BY <3>4
  <2> QED
    BY <2>1 DEF SetEnd
<1> HIDE DEF Rec
<1> QED
  BY <1>1, <1>2

LEMMA ServeGetBlocks ==
  ASSUME ServerType, NEW s \in Pcbs, ServeGet(s)
  PROVE  /\ pcb[s].client \in Clients
         /\ pcb' = [pcb EXCEPT ![s] = Rec(pcb[s].client, FALSE, pcb[s].fin, pcb[s].flight)]
         /\ pcb'[s] = Rec(pcb[s].client, FALSE, pcb[s].fin, pcb[s].flight) /\ Others(s)
<1>1. pcb[s].get /\ pcb' = [pcb EXCEPT ![s].get = FALSE]
  BY DEF ServeGet
<1>2. [pcb[s] EXCEPT !.get = FALSE] = Rec(pcb[s].client, FALSE, pcb[s].fin, pcb[s].flight)
  <2>1. SetGet(pcb[s], FALSE) = Rec(pcb[s].client, FALSE, pcb[s].fin, pcb[s].flight)
    BY SetFields DEF ServerType, BlocksType
  <2> QED
    BY <2>1 DEF SetGet
<1>3. pcb \in [Pcbs -> Block] /\ pcb[s].client \in Clients
  BY <1>1 DEF ServerType, BlocksType
<1>4. pcb' = [pcb EXCEPT ![s] = Rec(pcb[s].client, FALSE, pcb[s].fin, pcb[s].flight)]
  BY <1>1, <1>2
<1> HIDE DEF Rec
<1> QED
  BY <1>3, <1>4 DEF Others

LEMMA TransferBlocks ==
  ASSUME ServerType, Transfer
  PROVE  LET s == tcp_pcb_tx IN
         \E k \in Nat \ {0} :
           /\ s \in Pcbs /\ pixels_remaining # 0 /\ pcb[s].client # None
           /\ k <= pixels_remaining /\ Len(pcb[s].flight) + k <= SndBuf
           /\ pixels_sent' = pixels_sent + k /\ pixels_remaining' = pixels_remaining - k
           /\ Others(s) /\ pcb' \in [Pcbs -> Block]
           /\ pcb'[s] = Rec(pcb[s].client, pcb[s].get, pcb[s].fin,
                          IF pcb[s].fin THEN pcb[s].flight
                          ELSE pcb[s].flight \o [j \in 1 .. k |-> pixels_sent + j - 1])
<1> DEFINE s == tcp_pcb_tx
           space == SndBuf - Len(pcb[s].flight)
           k == IF space > pixels_remaining THEN pixels_remaining ELSE space
           fl == IF pcb[s].fin THEN pcb[s].flight ELSE pcb[s].flight \o [j \in 1 .. k |-> NextPixels + j - 1]
           gl == IF pcb[s].fin THEN pcb[s].flight ELSE pcb[s].flight \o [j \in 1 .. k |-> pixels_sent + j - 1]
<1>1. /\ pixels_remaining # 0 /\ pcb[s].client # None /\ k > 0
      /\ pcb' = [pcb EXCEPT ![s].flight = IF pcb[s].fin THEN @ ELSE @ \o [j \in 1 .. k |-> NextPixels + j - 1]]
      /\ pixels_sent' = pixels_sent + k /\ pixels_remaining' = pixels_remaining - k
  BY DEF Transfer, Open
<1>2. s \in Pcbs /\ pcb \in [Pcbs -> Block]
  BY <1>1 DEF ServerType, BlocksType
<1>3. /\ pcb[s].client \in Clients \cup {None} /\ pcb[s].get \in BOOLEAN /\ pcb[s].fin \in BOOLEAN
      /\ pcb[s].flight \in Seq(0 .. MaxPixels-1) /\ Len(pcb[s].flight) <= SndBuf
  BY <1>2, BlockFields
<1>4. pixels_sent \in Nat /\ pixels_remaining \in Nat /\ pixels_sent + pixels_remaining <= MaxPixels
  BY DEF ServerType, BlocksType
<1>5. k \in Nat \ {0} /\ k <= pixels_remaining /\ Len(pcb[s].flight) + k <= SndBuf
  <2>1. Len(pcb[s].flight) \in Nat /\ SndBuf \in Nat
    BY <1>3, SessionAssumption
  <2> QED
    BY <2>1, <1>1, <1>3, <1>4
<1>6. fl = gl
  BY DEF NextPixels
<1>7. pcb' = [pcb EXCEPT ![s] = [pcb[s] EXCEPT !.flight = fl]]
  BY <1>1, <1>2
<1> HIDE DEF k, fl
<1>8. [pcb[s] EXCEPT !.flight = fl] = Rec(pcb[s].client, pcb[s].get, pcb[s].fin, fl)
  BY <1>2, BlockFields DEF Rec
<1>9. pcb' = [pcb EXCEPT ![s] = Rec(pcb[s].client, pcb[s].get, pcb[s].fin, gl)]
  BY <1>6, <1>7, <1>8
<1>10. gl \in Seq(0 .. MaxPixels-1)
  <2>1. MaxPixels \in Nat
    BY StreamAssumption
  <2>2. \A j \in 1 .. k : pixels_sent + j - 1 \in 0 .. MaxPixels-1
    BY <1>4, <1>5, <2>1
  <2>3. [j \in 1 .. k |-> pixels_sent + j - 1] \in Seq(0 .. MaxPixels-1)
    BY <2>2, <1>5
  <2> DEFINE more == [j \in 1 .. k |-> pixels_sent + j - 1]
             flight == pcb[s].flight
  <2> HIDE DEF more, flight
  <2>4. more \in Seq(0 .. MaxPixels-1) /\ flight \in Seq(0 .. MaxPixels-1)
    BY <1>3, <2>3 DEF more, flight
  <2>5. flight \o more \in Seq(0 .. MaxPixels-1)
    BY <2>4
  <2> QED
    BY <2>4, <2>5 DEF more, flight
<1> HIDE DEF gl
<1>11. Rec(pcb[s].client, pcb[s].get, pcb[s].fin, gl) \in Block
  BY <1>3, <1>10 DEF Rec, Block
<1>12. pcb'[s] = Rec(pcb[s].client, pcb[s].get, pcb[s].fin, gl) /\ Others(s) /\ pcb' \in [Pcbs -> Block]
  <2> HIDE DEF s
  <2> QED
    BY <1>2, <1>9, <1>11 DEF Others
<1> QED
  BY <1>1, <1>2, <1>5, <1>12 DEF gl

LEMMA RecFields ==
  ASSUME NEW c, NEW g, NEW f, NEW fl
  PROVE  /\ Rec(c, g, f, fl).client = c /\ Rec(c, g, f, fl).get = g
         /\ Rec(c, g, f, fl).fin = f /\ Rec(c, g, f, fl).flight = fl
         /\ c \in Clients \cup {None} /\ g \in BOOLEAN /\ f \in BOOLEAN /\ fl \in Seq(0 .. MaxPixels-1)
              => Rec(c, g, f, fl) \in Block
  BY DEF Rec, Block

LEMMA BlocksKept ==
  ASSUME BlocksType, NEW s \in Pcbs, NEW c \in Clients \cup {None}, NEW g \in BOOLEAN, NEW f \in BOOLEAN,
         NEW fl \in Seq(0 .. MaxPixels-1), Len(fl) <= SndBuf, g => c \in Clients,
         pcb' = [pcb EXCEPT ![s] = Rec(c, g, f, fl)]
  PROVE  BlocksType'
<1>1. Rec(c, g, f, fl) \in Block
  BY RecFields
<1>2. pcb' \in [Pcbs -> Block]
  BY <1>1 DEF BlocksType
<1>3. ASSUME NEW t \in Pcbs PROVE Len(pcb'[t].flight) <= SndBuf /\ (pcb'[t].get => pcb'[t].client \in Clients)
  <2>1. CASE t = s
    <3>1. pcb'[t] = Rec(c, g, f, fl)
      BY <2>1 DEF BlocksType
    <3>2. pcb'[t].flight = fl /\ pcb'[t].get = g /\ pcb'[t].client = c
      BY <3>1, RecFields
    <3> QED
      BY <3>2
  <2>2. CASE t # s
    <3>1. pcb'[t] = pcb[t]
      BY <2>2 DEF BlocksType
    <3> QED
      BY <3>1 DEF BlocksType
  <2> QED
    BY <2>1, <2>2
<1> QED
  BY <1>2, <1>3 DEF BlocksType

LEMMA ConnectType ==
  ASSUME ServerType, NEW c \in Clients, Connect(c) PROVE BlocksType'
<1>1. PICK s \in Pcbs : pcb' = [pcb EXCEPT ![s] = Rec(c, FALSE, FALSE, <<>>)]
  BY ConnectBlocks
<1>2. /\ <<>> \in Seq(0 .. MaxPixels-1) /\ Len(<<>>) <= SndBuf
  BY SessionAssumption
<1>3. BlocksType
  BY DEF ServerType
<1> QED
  BY <1>1, <1>2, <1>3, BlocksKept

LEMMA ReceiveType ==
  ASSUME ServerType, NEW c \in Clients, Receive(c) PROVE BlocksType'
<1>1. PICK s \in Pcbs :
           /\ pcb[s].client = c /\ pcb[s].flight # <<>>
           /\ pcb' = [pcb EXCEPT ![s] = Rec(c, pcb[s].get, pcb[s].fin, Tail(pcb[s].flight))]
  BY ReceiveBlocks
<1> DEFINE fl == pcb[s].flight
<1>2. /\ fl \in Seq(0 .. MaxPixels-1) /\ Len(fl) <= SndBuf /\ pcb[s].get \in BOOLEAN /\ pcb[s].fin \in BOOLEAN
      /\ fl # <<>>
  BY <1>1, BlockFields
<1> HIDE DEF fl
<1>3. Tail(fl) \in Seq(0 .. MaxPixels-1) /\ Len(Tail(fl)) <= SndBuf
  BY <1>2, SessionAssumption
<1>4. BlocksType
  BY DEF ServerType
<1>5. pcb' = [pcb EXCEPT ![s] = Rec(c, pcb[s].get, pcb[s].fin, Tail(fl))]
  BY <1>1 DEF fl
<1> QED
  BY <1>2, <1>3, <1>4, <1>5, BlocksKept

LEMMA ServeGetType ==
  ASSUME ServerType, NEW s \in Pcbs, ServeGet(s) PROVE BlocksType'
<1>1. pcb[s].client \in Clients /\ pcb' = [pcb EXCEPT ![s] = Rec(pcb[s].client, FALSE, pcb[s].fin, pcb[s].flight)]
  BY ServeGetBlocks
<1>2. pcb[s].flight \in Seq(0 .. MaxPixels-1) /\ Len(pcb[s].flight) <= SndBuf /\ pcb[s].fin \in BOOLEAN
  BY BlockFields
<1>3. BlocksType
  BY DEF ServerType
<1> QED
  BY <1>1, <1>2, <1>3, BlocksKept

LEMMA ServeCloseBlocks ==
  ASSUME ServerType, NEW s \in Pcbs, ServeClose(s)
  PROVE  BlocksType' /\ pcb'[s] = Free /\ Others(s) /\ pcb[s].fin /\ ~pcb[s].get
<1>1. pcb[s].fin /\ ~pcb[s].get /\ pcb' = [pcb EXCEPT ![s] = Free]
  BY DEF ServeClose
<1>2. /\ <<>> \in Seq(0 .. MaxPixels-1) /\ Len(<<>>) <= SndBuf
  BY SessionAssumption
<1>3. BlocksType /\ pcb \in [Pcbs -> Block]
  BY DEF ServerType, BlocksType
<1>4. pcb' = [pcb EXCEPT ![s] = Rec(None, FALSE, FALSE, <<>>)]
  BY <1>1 DEF Free, Rec
<1>5. BlocksType'
  BY <1>2, <1>3, <1>4, BlocksKept
<1>6. pcb'[s] = Free /\ Others(s)
  BY <1>1, <1>3 DEF Others
<1> QED
  BY <1>1, <1>5, <1>6

LEMMA RequestType ==
  ASSUME ServerType, NEW c \in Clients, Request(c) PROVE BlocksType'
<1>1. pcb' = [s \in Pcbs |-> IF pcb[s].client = c THEN Rec(c, TRUE, pcb[s].fin, pcb[s].flight) ELSE pcb[s]]
  BY RequestBlocks
<1>2. ASSUME NEW s \in Pcbs, pcb[s].client = c
      PROVE  /\ Rec(c, TRUE, pcb[s].fin, pcb[s].flight) \in Block
             /\ Rec(c, TRUE, pcb[s].fin, pcb[s].flight).flight = pcb[s].flight
             /\ Rec(c, TRUE, pcb[s].fin, pcb[s].flight).client = c
  <2>1. pcb[s].flight \in Seq(0 .. MaxPixels-1) /\ pcb[s].fin \in BOOLEAN
    BY BlockFields
  <2>2. \A g \in BOOLEAN : /\ Rec(c, g, pcb[s].fin, pcb[s].flight) \in Block
                           /\ Rec(c, g, pcb[s].fin, pcb[s].flight).flight = pcb[s].flight
                           /\ Rec(c, g, pcb[s].fin, pcb[s].flight).client = c
    <3> HIDE DEF Rec
    <3> QED
      BY <2>1, RecFields
  <2> QED
    BY <2>2
<1> HIDE DEF Rec
<1>3. pcb' \in [Pcbs -> Block]
  BY <1>1, <1>2 DEF ServerType, BlocksType
<1>4. ASSUME NEW s \in Pcbs PROVE Len(pcb'[s].flight) <= SndBuf /\ (pcb'[s].get => pcb'[s].client \in Clients)
  <2>1. CASE pcb[s].client = c
    <3>1. pcb'[s].flight = pcb[s].flight /\ pcb'[s].client = c
      BY <1>1, <1>2, <2>1
    <3> QED
      BY <3>1 DEF ServerType, BlocksType
  <2>2. CASE pcb[s].client # c
    <3>1. pcb'[s] = pcb[s]
      BY <1>1, <2>2
    <3> QED
      BY <3>1 DEF ServerType, BlocksType
  <2> QED
    BY <2>1, <2>2
<1> QED
  BY <1>3, <1>4 DEF BlocksType

LEMMA LeaveType ==
  ASSUME ServerType, NEW c \in Clients, Leave(c) PROVE BlocksType'
<1>1. pcb' = [s \in Pcbs |-> IF pcb[s].client = c THEN Rec(c, pcb[s].get, TRUE, <<>>) ELSE pcb[s]]
  BY LeaveBlocks
<1>2. ASSUME NEW s \in Pcbs, pcb[s].client = c
      PROVE  /\ Rec(c, pcb[s].get, TRUE, <<>>) \in Block
             /\ Rec(c, pcb[s].get, TRUE, <<>>).flight = <<>>
             /\ Rec(c, pcb[s].get, TRUE, <<>>).client = c
  <2>1. pcb[s].get \in BOOLEAN
    BY BlockFields
  <2>2. <<>> \in Seq(0 .. MaxPixels-1)
    OBVIOUS
  <2>3. \A f \in BOOLEAN, fl \in Seq(0 .. MaxPixels-1) :
          /\ Rec(c, pcb[s].get, f, fl) \in Block
          /\ Rec(c, pcb[s].get, f, fl).flight = fl
          /\ Rec(c, pcb[s].get, f, fl).client = c
    BY <2>1, RecFields
  <2>4. \A fl \in Seq(0 .. MaxPixels-1) :
          /\ Rec(c, pcb[s].get, TRUE, fl) \in Block
          /\ Rec(c, pcb[s].get, TRUE, fl).flight = fl
          /\ Rec(c, pcb[s].get, TRUE, fl).client = c
    BY <2>3
  <2> QED
    BY <2>2, <2>4
<1> HIDE DEF Rec
<1>3. pcb' \in [Pcbs -> Block]
  BY <1>1, <1>2 DEF ServerType, BlocksType
<1>4. ASSUME NEW s \in Pcbs PROVE Len(pcb'[s].flight) <= SndBuf /\ (pcb'[s].get => pcb'[s].client \in Clients)
  <2>1. CASE pcb[s].client = c
    <3>1. pcb'[s].flight = <<>> /\ pcb'[s].client = c
      BY <1>1, <1>2, <2>1
    <3> QED
      BY <3>1, SessionAssumption
  <2>2. CASE pcb[s].client # c
    <3>1. pcb'[s] = pcb[s]
      BY <1>1, <2>2
    <3> QED
      BY <3>1 DEF ServerType, BlocksType
  <2> QED
    BY <2>1, <2>2
<1> QED
  BY <1>3, <1>4 DEF BlocksType

LEMMA TransferType ==
  ASSUME ServerType, Transfer
  PROVE  BlocksType' /\ pixels_sent' \in Nat /\ pixels_remaining' \in Nat
         /\ pixels_sent' + pixels_remaining' = pixels_sent + pixels_remaining
<1> DEFINE s == tcp_pcb_tx
           fl(k) == IF pcb[s].fin THEN pcb[s].flight ELSE pcb[s].flight \o [j \in 1 .. k |-> pixels_sent + j - 1]
<1>1. PICK k \in Nat \ {0} :
           /\ s \in Pcbs
           /\ k <= pixels_remaining /\ Len(pcb[s].flight) + k <= SndBuf
           /\ pixels_sent' = pixels_sent + k /\ pixels_remaining' = pixels_remaining - k
           /\ Others(s) /\ pcb' \in [Pcbs -> Block]
           /\ pcb'[s] = Rec(pcb[s].client, pcb[s].get, pcb[s].fin, fl(k))
  BY TransferBlocks
<1>2. pixels_sent \in Nat /\ pixels_remaining \in Nat
  BY DEF ServerType
<1>3. pixels_sent' \in Nat /\ pixels_remaining' \in Nat /\ pixels_sent' + pixels_remaining' = pixels_sent + pixels_remaining
  BY <1>1, <1>2
<1>4. pcb[s].flight \in Seq(0 .. MaxPixels-1) /\ Len(pcb[s].flight) <= SndBuf
  BY <1>1, BlockFields
<1>5. Len(fl(k)) <= SndBuf
  <2> DEFINE more == [j \in 1 .. k |-> pixels_sent + j - 1]
             flight == pcb[s].flight
  <2>1. more \in Seq(Nat) /\ Len(more) = k
    <3>1. \A j \in 1 .. k : pixels_sent + j - 1 \in Nat
      BY <1>2
    <3> QED
      BY <3>1
  <2>2. flight \in Seq(Nat)
    <3>1. 0 .. MaxPixels-1 \subseteq Nat
      BY StreamAssumption
    <3> QED
      BY <1>4, <3>1, SeqMonotonic
  <2> HIDE DEF more, flight
  <2>3. Len(flight \o more) = Len(flight) + k
    BY <2>1, <2>2
  <2> QED
    BY <1>1, <1>4, <2>3 DEF more, flight
<1> HIDE DEF s, fl
<1>6. pcb'[s].flight = fl(k) /\ pcb'[s].get = pcb[s].get /\ pcb'[s].client = pcb[s].client
  BY <1>1, RecFields
<1>7. ASSUME NEW t \in Pcbs PROVE Len(pcb'[t].flight) <= SndBuf /\ (pcb'[t].get => pcb'[t].client \in Clients)
  <2>1. CASE t = s
    BY <1>5, <1>6, <2>1 DEF ServerType, BlocksType
  <2>2. CASE t # s
    <3>1. pcb'[t] = pcb[t]
      BY <1>1, <2>2 DEF Others
    <3> QED
      BY <3>1 DEF ServerType, BlocksType
  <2> QED
    BY <2>1, <2>2
<1>8. BlocksType'
  BY <1>1, <1>7 DEF BlocksType
<1> QED
  BY <1>3, <1>8

------------------------------------------------------------------------------
(* Types are kept.                                                         *)


LEMMA ServerKept ==
  ASSUME ServerType, BlocksType', UNCHANGED <<server, cap_size>> PROVE ServerType'
  BY DEF ServerType, server

\* Every step of a client or of the network keeps the types.
LEMMA ClientTypeStep ==
  ASSUME TypeInv, NEW c \in Clients,
         Begin(c) \/ Hear(c) \/ Lose(c) \/ Connect(c) \/ Request(c) \/ Receive(c) \/ Leave(c)
  PROVE  TypeInv'
<1>1. StreamType /\ ServerType /\ PeopleType /\ BlocksType
  BY DEF TypeInv, ServerType
<1>2. UNCHANGED stream /\ UNCHANGED server
  BY DEF Begin, Hear, Lose, Connect, Request, Receive, Leave, people
<1>3. StreamType' /\ UNCHANGED <<server, cap_size>>
  BY <1>1, <1>2, StreamTypeKept, SameStream DEF streamVars
<1>4. BlocksType'
  <2>1. CASE UNCHANGED pcb
    BY <1>1, <2>1 DEF BlocksType
  <2>2. CASE Connect(c) \/ Request(c) \/ Receive(c) \/ Leave(c)
    BY <1>1, <2>2, ConnectType, RequestType, ReceiveType, LeaveType
  <2> QED
    BY <2>1, <2>2 DEF Begin, Hear, Lose
<1>5. ServerType'
  BY <1>1, <1>3, <1>4, ServerKept
<1>6. advert' \subseteq Clients /\ mine' = mine
  BY <1>1 DEF Begin, Hear, Lose, Connect, Request, Receive, Leave, people, PeopleType
<1>7. client' = client \/ (\E x \in ClientStates : Becomes(c, x))
  BY DEF Begin, Hear, Lose, Connect, Request, Receive, Leave, people, ClientStates
<1>8. client' \in [Clients -> [state : ClientStates, n : 1 .. MaxPixels, i : Nat]]
  <2>1. CASE client' = client
    BY <1>1, <2>1 DEF PeopleType
  <2>2. CASE \E x \in ClientStates : Becomes(c, x)
    BY <1>1, <2>2, BecomesFields
  <2> QED
    BY <1>7, <2>1, <2>2
<1>9. got' \in [Clients -> Seq(Pixel)]
  <2>1. CASE Receive(c)
    <3>1. PICK s \in Pcbs : /\ pcb[s].flight # <<>>
                            /\ got' = [got EXCEPT ![c] = Append(@, cap_buf[Head(pcb[s].flight)])]
      BY <1>1, <2>1, ReceiveBlocks
    <3>2. pcb[s].flight \in Seq(0 .. MaxPixels-1)
      BY <1>1, BlockFields
    <3>3. Head(pcb[s].flight) \in 0 .. MaxPixels-1
      BY <3>1, <3>2, HeadTailProperties
    <3>4. cap_buf[Head(pcb[s].flight)] \in Pixel
      BY <1>1, <3>3 DEF StreamType
    <3>5. got[c] \in Seq(Pixel) /\ got \in [Clients -> Seq(Pixel)]
      BY <1>1 DEF PeopleType
    <3>6. Append(got[c], cap_buf[Head(pcb[s].flight)]) \in Seq(Pixel)
      BY <3>4, <3>5
    <3> QED
      BY <3>1, <3>5, <3>6
  <2>2. CASE UNCHANGED got
    BY <1>1, <2>2 DEF PeopleType
  <2> QED
    BY <2>1, <2>2 DEF Begin, Hear, Lose, Connect, Request, Leave, people
<1>10. PeopleType'
  BY <1>6, <1>8, <1>9, <1>1 DEF PeopleType
<1> QED
  BY <1>3, <1>5, <1>10 DEF TypeInv

LEMMA PeopleKept == PeopleType /\ UNCHANGED people /\ advert' \subseteq Clients => PeopleType'
  BY DEF PeopleType, people

LEMMA ServeTypeStep ==
  ASSUME TypeInv, NEW s \in Pcbs, ServeGet(s) \/ ServeClose(s) PROVE TypeInv'
<1>1. StreamType /\ ServerType /\ PeopleType
  BY DEF TypeInv
<1>2. CASE ServeGet(s)
  <2> DEFINE c == pcb[s].client
  <2>1. c \in Clients
    BY <1>1, <1>2, ServeGetBlocks
  <2>2. /\ tcp_pcb_tx' = s /\ CapStart(client[c].n) /\ mine' = [mine EXCEPT ![c] = capture + 1]
        /\ UNCHANGED <<pixels_remaining, pixels_sent, advert, client, got>>
    BY <1>2 DEF ServeGet
  <2>3. client[c].n \in 1 .. MaxPixels
    BY <1>1, <2>1, ClientFields
  <2>4. StreamType' /\ cap_size' # 0
    BY <1>1, <2>2, <2>3, StartType
  <2>5. BlocksType'
    BY <1>1, <1>2, ServeGetType
  <2>6. ServerType'
    BY <1>1, <2>2, <2>5 DEF ServerType
  <2>7. capture \in Nat
    BY <1>1 DEF StreamType
  <2> HIDE DEF c
  <2>8. PeopleType'
    BY <1>1, <2>1, <2>2, <2>7 DEF PeopleType
  <2> QED
    BY <2>4, <2>6, <2>8 DEF TypeInv
<1>3. CASE ServeClose(s)
  <2>1. BlocksType'
    BY <1>1, <1>3, ServeCloseBlocks
  <2>2. UNCHANGED <<stream, server, advert, people>>
    BY <1>3 DEF ServeClose
  <2>3. StreamType' /\ UNCHANGED <<server, cap_size>>
    BY <1>1, <2>2, StreamTypeKept, SameStream DEF streamVars
  <2>4. ServerType'
    BY <1>1, <2>1, <2>3, ServerKept
  <2>5. PeopleType'
    BY <1>1, <2>2, PeopleKept DEF PeopleType
  <2> QED
    BY <2>3, <2>4, <2>5 DEF TypeInv
<1> QED
  BY <1>2, <1>3

LEMMA AdvertiseTypeStep == TypeInv /\ Advertise => TypeInv'
<1> SUFFICES ASSUME TypeInv, Advertise PROVE TypeInv'
  OBVIOUS
<1>1. StreamType /\ ServerType /\ PeopleType /\ BlocksType
  BY DEF TypeInv, ServerType
<1>2. UNCHANGED <<stream, pcb, server, people>> /\ advert' \subseteq Clients
  BY DEF Advertise
<1>3. StreamType' /\ UNCHANGED <<server, cap_size>>
  BY <1>1, <1>2, StreamTypeKept, SameStream DEF streamVars
<1>4. BlocksType'
  BY <1>1, <1>2 DEF BlocksType
<1> QED
  BY <1>1, <1>2, <1>3, <1>4, ServerKept, PeopleKept DEF TypeInv

LEMMA TransferTypeStep == TypeInv /\ Transfer => TypeInv'
<1> SUFFICES ASSUME TypeInv, Transfer PROVE TypeInv'
  OBVIOUS
<1>1. StreamType /\ ServerType /\ PeopleType
  BY DEF TypeInv
<1>2. UNCHANGED <<stream, tcp_pcb_tx, advert, people>> /\ pixels_remaining # 0
  BY DEF Transfer
<1>3. StreamType' /\ cap_size' = cap_size
  BY <1>1, <1>2, StreamTypeKept, SameStream DEF streamVars
<1>4. /\ BlocksType' /\ pixels_sent' \in Nat /\ pixels_remaining' \in Nat
      /\ pixels_sent' + pixels_remaining' = pixels_sent + pixels_remaining
  BY <1>1, TransferType
<1>5. ServerType'
  BY <1>1, <1>2, <1>3, <1>4 DEF ServerType
<1>6. PeopleType'
  BY <1>1, <1>2, PeopleKept DEF PeopleType
<1> QED
  BY <1>3, <1>5, <1>6 DEF TypeInv

LEMMA PollTypeStep == TypeInv /\ Poll => TypeInv'
<1> SUFFICES ASSUME TypeInv, Poll PROVE TypeInv'
  OBVIOUS
<1>1. StreamType /\ ServerType /\ PeopleType
  BY DEF TypeInv
<1>2. /\ pixels_sent' = 0 /\ pixels_remaining' = CapRdy /\ (cap_en' = 0 \/ cap_en' = cap_en)
      /\ UNCHANGED <<cap_size, pclk, fifo, dma, cap_buf, capture, lost, pcb, tcp_pcb_tx, advert, people>>
  BY DEF Poll, CapTake
<1>3. CapRdy = 0 \/ CapRdy = cap_size
  BY DEF CapRdy
<1>4. cap_size \in 0 .. MaxPixels /\ MaxPixels \in Nat
  BY <1>1, StreamAssumption DEF StreamType
<1>5. pixels_remaining' \in Nat /\ pixels_sent' + pixels_remaining' <= MaxPixels /\ (pixels_remaining' # 0 => cap_size # 0)
  BY <1>2, <1>3, <1>4
<1>6. StreamType'
  BY <1>1, <1>2 DEF StreamType, pclk
<1>7. BlocksType'
  BY <1>1, <1>2 DEF BlocksType, ServerType
<1>8. ServerType'
  BY <1>1, <1>2, <1>5, <1>7 DEF ServerType
<1>9. PeopleType'
  BY <1>1, <1>2, PeopleKept DEF PeopleType
<1> QED
  BY <1>6, <1>8, <1>9 DEF TypeInv

LEMMA HardwareTypeStep == TypeInv /\ Hardware => TypeInv'
<1> SUFFICES ASSUME TypeInv, Hardware PROVE TypeInv'
  OBVIOUS
<1>1. StreamType /\ ServerType /\ PeopleType /\ BlocksType
  BY DEF TypeInv, ServerType
<1>2. UNCHANGED <<pcb, server, advert, people>> /\ (PixelClock \/ DmaTake)
  BY DEF Hardware
<1>3. StreamType'
  BY <1>1, <1>2, ClockType, TakeType
<1>4. cap_size' = cap_size
  BY <1>2 DEF PixelClock, DmaTake, regs
<1>5. BlocksType'
  BY <1>1, <1>2 DEF BlocksType
<1> QED
  BY <1>1, <1>2, <1>3, <1>4, <1>5, ServerKept, PeopleKept DEF TypeInv, PeopleType

LEMMA StutterType == TypeInv /\ UNCHANGED vars => TypeInv'
<1> SUFFICES ASSUME TypeInv, UNCHANGED vars PROVE TypeInv'
  OBVIOUS
<1>1. StreamType /\ ServerType /\ PeopleType /\ BlocksType
  BY DEF TypeInv, ServerType
<1>2. UNCHANGED <<stream, pcb, server, advert, people>>
  BY DEF vars
<1>3. StreamType' /\ UNCHANGED <<server, cap_size>>
  BY <1>1, <1>2, StreamTypeKept, SameStream DEF streamVars
<1>4. BlocksType'
  BY <1>1, <1>2 DEF BlocksType
<1> QED
  BY <1>1, <1>2, <1>3, <1>4, ServerKept, PeopleKept DEF TypeInv, PeopleType

LEMMA TypeStep == TypeInv /\ [Next]_vars => TypeInv'
  BY ClientTypeStep, ServeTypeStep, AdvertiseTypeStep, TransferTypeStep, PollTypeStep, HardwareTypeStep, StutterType DEF Next

------------------------------------------------------------------------------
(* A clock of the pixels.                                                  *)

LEMMA Parity ==
  ASSUME NEW c \in Nat
  PROVE  /\ c % 2 = 0 \/ c % 2 = 1
         /\ c % 2 = 0 => (c+1) % 2 = 1
         /\ c % 2 = 1 => (c+1) % 2 = 0
         /\ c % 2 = 1 => c >= 1
         /\ c # 0 /\ c % 2 = 0 => c >= 2
         /\ 0 % 2 = 0
  OBVIOUS

LEMMA StreamKept == StreamInv /\ UNCHANGED stream => StreamInv'
<1> SUFFICES ASSUME StreamInv, UNCHANGED stream PROVE StreamInv'
  OBVIOUS
<1>1. UNCHANGED streamVars
  BY SameStream
<1>2. EnableInv' /\ WordInv'
  BY <1>1 DEF StreamInv, EnableInv, WordInv, Started, Single, Pair, streamVars
<1>3. CountInv' /\ FifoInv'
  <2>1. CountInv'
    BY <1>1 DEF StreamInv, CountInv, NextPlace, streamVars
  <2>2. ASSUME NEW i, NEW w, Queued(w, i) PROVE Queued(w, i)'
    BY <1>1, <2>2 DEF Queued, Place, Single, Pair, streamVars
  <2>3. FifoInv'
    BY <1>1, <2>2 DEF StreamInv, FifoInv, streamVars
  <2> QED
    BY <2>1, <2>3
<1>4. BufferInv'
  BY <1>1 DEF StreamInv, BufferInv, streamVars
<1> QED
  BY <1>2, <1>3, <1>4 DEF StreamInv

\* A word that is about to be written into the FIFO.
LEMMA Written ==
  ASSUME StreamType, StreamInv, word.we
  PROVE  /\ Started /\ ~dma.idle /\ cap_count >= 1
         /\ NextPlace \in Nat /\ word \in Words
         /\ cap_run = 1 => word.pix = Pair(NextPlace) /\ ~word.last /\ NextPlace = cap_count - 2
                           /\ cap_count % 2 = 0
         /\ cap_run = 0 => /\ word.last
                           /\ \/ word.pix = Single(NextPlace) /\ NextPlace + 1 = cap_size
                              \/ word.pix = Pair(NextPlace) /\ NextPlace + 2 = cap_size
<1>1. word # NoWord /\ cap_run \in {0, 1} /\ cap_count \in Nat /\ cap_size \in Nat
  BY StreamAssumption DEF NoWord, StreamType
<1>2. WordInv /\ CountInv /\ EnableInv
  BY DEF StreamInv
<1>3. ~dma.idle /\ Started
  BY <1>1, <1>2 DEF CountInv, EnableInv
<1>4. cap_size > 0
  BY <1>2, <1>3 DEF EnableInv, Started
<1>5. CASE cap_run = 1
  <2>1. cap_count % 2 # 1
    <3> SUFFICES ASSUME cap_count % 2 = 1 PROVE FALSE
      OBVIOUS
    <3>1. word = [pix |-> Single(cap_count-1), we |-> FALSE, last |-> FALSE]
      BY <1>2, <1>5 DEF WordInv
    <3> QED
      BY <3>1
  <2>2. cap_count # 0 /\ cap_count % 2 = 0
    BY <1>1, <1>2, <1>5, <2>1, Parity DEF WordInv
  <2>3. cap_count >= 2
    BY <1>1, <2>2, Parity
  <2>4. word = [pix |-> Pair(cap_count-2), we |-> TRUE, last |-> FALSE]
    BY <1>2, <1>5, <2>2 DEF WordInv
  <2>5. NextPlace = cap_count - 2
    BY <2>2, <2>1 DEF NextPlace
  <2>6. word.pix = Pair(NextPlace) /\ ~word.last
    BY <2>4, <2>5
  <2> QED
    BY <1>1, <1>3, <1>5, <2>2, <2>3, <2>5, <2>6 DEF StreamType
<1>6. CASE cap_run = 0
  <2>1. cap_count = cap_size /\ cap_count # 0
    BY <1>1, <1>2, <1>4, <1>6 DEF WordInv
  <2>2. CASE cap_count % 2 = 1
    <3>1. word = [pix |-> Single(cap_count-1), we |-> TRUE, last |-> TRUE]
      BY <1>1, <1>2, <1>6, <2>2 DEF WordInv
    <3>2. NextPlace = cap_count - 1 /\ cap_count >= 1
      BY <1>1, <2>1, <2>2 DEF NextPlace
    <3>3. word.pix = Single(NextPlace) /\ word.last
      BY <3>1, <3>2
    <3> QED
      BY <1>1, <1>3, <1>6, <2>1, <3>2, <3>3 DEF StreamType
  <2>3. CASE cap_count % 2 = 0
    <3>1. word = [pix |-> Pair(cap_count-2), we |-> TRUE, last |-> TRUE]
      BY <1>1, <1>2, <1>6, <2>3 DEF WordInv
    <3>2. NextPlace = cap_count - 2 /\ cap_count >= 2
      BY <1>1, <2>1, <2>3, Parity DEF NextPlace
    <3>3. word.pix = Pair(NextPlace) /\ word.last
      BY <3>1, <3>2
    <3> QED
      BY <1>1, <1>3, <1>6, <2>1, <3>2, <3>3 DEF StreamType
  <2> QED
    BY <1>1, <2>2, <2>3, Parity
<1> QED
  BY <1>1, <1>5, <1>6

\* The three things a clock of the pixels may do.
LEMMA ClockCases ==
  ASSUME StreamType, StreamInv, PixelClock
  PROVE  /\ UNCHANGED <<cap_en, cap_size, dma, cap_buf, capture>>
         /\ cap_en_s' = cap_en /\ cap_en_s1' = cap_en_s
         /\ \/ /\ cap_run = 1 /\ Started /\ cap_count' = cap_count + 1 /\ cap_count < cap_size
               /\ \/ cap_count + 1 = cap_size /\ cap_run' = 0 /\ word' = NextWord(TRUE)
                  \/ cap_count + 1 < cap_size /\ cap_run' = 1 /\ word' = NextWord(FALSE)
            \/ /\ cap_run = 0 /\ cap_en = 1 /\ cap_en_s1 = 0 /\ cap_en_s = 1
               /\ cap_run' = 1 /\ cap_count' = 0 /\ word' = NoWord
            \/ /\ cap_run = 0 /\ ~(cap_en_s = 1 /\ cap_en_s1 = 0)
               /\ cap_run' = 0 /\ cap_count' = cap_count /\ word' = NoWord
<1>1. /\ UNCHANGED <<cap_en, cap_size, dma, cap_buf, capture>>
      /\ cap_en_s' = cap_en /\ cap_en_s1' = cap_en_s
  BY DEF PixelClock, regs
<1>2. /\ cap_run \in {0, 1} /\ cap_en \in {0, 1} /\ cap_en_s \in {0, 1} /\ cap_en_s1 \in {0, 1}
      /\ cap_count \in Nat /\ cap_size \in Nat
  BY StreamAssumption DEF StreamType
<1>3. EnableInv /\ WordInv
  BY DEF StreamInv
<1>4. CASE cap_run = 1
  <2>1. Started /\ cap_count < cap_size
    BY <1>3, <1>4 DEF EnableInv, WordInv
  <2>2. cap_count' = cap_count + 1 /\ cap_run' = (IF AtEnd THEN 0 ELSE 1) /\ word' = NextWord(AtEnd)
    BY <1>4 DEF PixelClock
  <2>3. CASE cap_count + 1 = cap_size
    <3>1. AtEnd = TRUE
      BY <2>3 DEF AtEnd
    <3> QED
      BY <1>1, <1>4, <2>1, <2>2, <2>3, <3>1
  <2>4. CASE cap_count + 1 # cap_size
    <3>1. AtEnd = FALSE
      BY <2>4 DEF AtEnd
    <3>2. cap_count + 1 < cap_size
      BY <1>2, <2>1, <2>4
    <3> QED
      BY <1>1, <1>4, <2>1, <2>2, <3>1, <3>2
  <2> QED
    BY <2>3, <2>4
<1>5. CASE cap_run = 0 /\ cap_en_s = 1 /\ cap_en_s1 = 0
  <2>1. cap_en = 1
    BY <1>2, <1>3, <1>5 DEF EnableInv
  <2>2. cap_run' = 1 /\ cap_count' = 0 /\ word' = NoWord
    BY <1>5 DEF PixelClock
  <2> QED
    BY <1>1, <1>5, <2>1, <2>2
<1>6. CASE cap_run = 0 /\ ~(cap_en_s = 1 /\ cap_en_s1 = 0)
  <2>1. cap_run' = 0 /\ cap_count' = cap_count /\ word' = NoWord
    BY <1>6 DEF PixelClock
  <2> QED
    BY <1>1, <1>6, <2>1
<1> QED
  BY <1>2, <1>4, <1>5, <1>6

\* What it does to the FIFO.
LEMMA ClockFifo ==
  ASSUME StreamType, PixelClock
  PROVE  \/ word.we /\ Len(fifo) # Depth /\ fifo' = Append(fifo, word) /\ lost' = lost
         \/ word.we /\ fifo' = fifo /\ lost'
         \/ ~word.we /\ fifo' = fifo /\ lost' = lost
<1>1. /\ fifo' = IF word.we /\ ~(word.we /\ Len(fifo) = Depth) THEN Append(fifo, word) ELSE fifo
      /\ lost' = (lost \/ (word.we /\ Len(fifo) = Depth))
  BY DEF PixelClock
<1>2. word.we \in BOOLEAN /\ lost \in BOOLEAN
  BY WordFields DEF StreamType
<1> QED
  BY <1>1, <1>2

LEMMA NoWordIsNotWritten == ~NoWord.we /\ Len(NoWord.pix) = 0
  BY DEF NoWord

LEMMA ClockEnable == ASSUME StreamType, StreamInv, PixelClock PROVE EnableInv'
<1>1. /\ UNCHANGED <<cap_en, cap_size, dma, cap_buf, capture>>
      /\ cap_en_s' = cap_en /\ cap_en_s1' = cap_en_s
  BY ClockCases
<1>2. EnableInv /\ cap_en \in {0, 1} /\ cap_en_s \in {0, 1} /\ cap_en_s1 \in {0, 1} /\ cap_run \in {0, 1}
  BY DEF StreamInv, StreamType
<1>3. /\ cap_en' = 0 => cap_en_s' <= cap_en_s1'
      /\ cap_en' = 1 => cap_en_s1' <= cap_en_s'
      /\ dma'.length = cap_size' /\ (cap_en' = 1 => cap_size' > 0)
  BY <1>1, <1>2 DEF EnableInv
<1>4. ASSUME ~Started' PROVE UNCHANGED <<cap_run, word, fifo, lost>> /\ ~Started /\ (cap_en' = 1 => cap_en_s1 = 0)
  <2>1. cap_en = 0 \/ cap_en_s = 0
    BY <1>1, <1>2, <1>4 DEF Started
  <2>2. ~Started /\ ~(cap_en_s = 1 /\ cap_en_s1 = 0) /\ (cap_en = 1 => cap_en_s1 = 0)
    BY <1>2, <2>1 DEF EnableInv, Started
  <2>3. cap_run = 0 /\ word = NoWord
    BY <1>2, <2>2 DEF EnableInv
  <2>4. cap_run' = 0 /\ word' = NoWord
    BY <2>2, <2>3, ClockCases
  <2>5. fifo' = fifo /\ lost' = lost
    BY <2>3, ClockFifo, NoWordIsNotWritten
  <2> QED
    BY <1>1, <2>2, <2>3, <2>4, <2>5
<1>5. ~Started' => cap_run' = 0 /\ word' = NoWord /\ fifo' = <<>>
  BY <1>2, <1>4 DEF EnableInv
<1>6. cap_en' = 1 /\ cap_en_s1' = 0 => ~dma'.idle /\ dma'.done = 0 /\ ~lost'
  <2> SUFFICES ASSUME cap_en' = 1, cap_en_s1' = 0 PROVE ~dma'.idle /\ dma'.done = 0 /\ ~lost'
    OBVIOUS
  <2>1. ~Started'
    BY DEF Started
  <2>2. cap_en = 1 /\ cap_en_s1 = 0 /\ lost' = lost /\ dma' = dma
    BY <1>1, <1>4, <2>1
  <2> QED
    BY <1>2, <2>2 DEF EnableInv
<1> QED
  BY <1>3, <1>5, <1>6 DEF EnableInv

LEMMA NextWordIs ==
  ASSUME StreamType, StreamInv, cap_run = 1, NEW l \in BOOLEAN
  PROVE  /\ cap_count % 2 = 0 => NextWord(l) = [pix |-> Single(cap_count), we |-> l, last |-> l]
         /\ cap_count % 2 = 1 => NextWord(l) = [pix |-> Pair(cap_count - 1), we |-> TRUE, last |-> l]
<1>1. cap_count \in Nat
  BY DEF StreamType
<1>2. CASE cap_count % 2 = 0
  <2>1. NextWord(l) = [pix |-> Single(cap_count), we |-> l, last |-> l]
    BY <1>2 DEF NextWord, Single
  <2> QED
    BY <2>1, <1>2
<1>3. CASE cap_count % 2 = 1
  <2>1. word = [pix |-> Single(cap_count-1), we |-> FALSE, last |-> FALSE]
    BY <1>3 DEF StreamInv, WordInv
  <2>2. word.pix = Single(cap_count - 1)
    BY <2>1
  <2>3. Append(Single(cap_count - 1), <<capture, cap_count>>) = Pair(cap_count - 1)
    <3>1. cap_count - 1 + 1 = cap_count
      BY <1>1
    <3>2. Pair(cap_count - 1) = << <<capture, cap_count - 1>>, <<capture, cap_count>> >>
      BY <3>1 DEF Pair
    <3> DEFINE a == <<capture, cap_count - 1>>
               b == <<capture, cap_count>>
    <3>3. Append(<<a>>, b) = <<a, b>>
      <4> HIDE DEF a, b
      <4>1. <<a>> \in Seq({a, b}) /\ <<a, b>> \in Seq({a, b}) /\ Append(<<a>>, b) \in Seq({a, b})
        OBVIOUS
      <4>2. Len(Append(<<a>>, b)) = 2 /\ Len(<<a, b>>) = 2
        BY <4>1
      <4>3. \A i \in 1 .. 2 : Append(<<a>>, b)[i] = <<a, b>>[i]
        BY <4>1
      <4> QED
        BY <4>1, <4>2, <4>3, SeqEqual
    <3> QED
      BY <3>2, <3>3 DEF Single
  <2>4. NextWord(l) = [pix |-> Append(word.pix, <<capture, cap_count>>), we |-> TRUE, last |-> l]
    BY <1>3 DEF NextWord
  <2>5. NextWord(l) = [pix |-> Pair(cap_count - 1), we |-> TRUE, last |-> l]
    BY <2>2, <2>3, <2>4
  <2> QED
    BY <2>5, <1>3
<1> QED
  BY <1>1, <1>2, <1>3, Parity

LEMMA ClockWord == ASSUME StreamType, StreamInv, PixelClock PROVE WordInv'
<1>1. cap_size' = cap_size /\ capture' = capture
  BY ClockCases
<1>2. cap_count \in Nat /\ cap_size \in Nat /\ capture \in Nat
  BY StreamAssumption DEF StreamType
<1>3. \A p : Single(p)' = Single(p) /\ Pair(p)' = Pair(p)
  BY <1>1 DEF Single, Pair
<1>4. CASE cap_run = 1 /\ cap_count' = cap_count + 1 /\ cap_count + 1 = cap_size /\ cap_run' = 0 /\ word' = NextWord(TRUE)
  <2>1. cap_count % 2 = 0 => NextWord(TRUE) = [pix |-> Single(cap_count), we |-> TRUE, last |-> TRUE]
    BY <1>4, NextWordIs
  <2>2. cap_count % 2 = 1 => NextWord(TRUE) = [pix |-> Pair(cap_count - 1), we |-> TRUE, last |-> TRUE]
    BY <1>4, NextWordIs
  <2>3. cap_count' - 1 = cap_count /\ cap_count' - 2 = cap_count - 1
    BY <1>2, <1>4
  <2>4. ASSUME cap_count' % 2 = 1 PROVE word' = [pix |-> Single(cap_count-1)', we |-> TRUE, last |-> TRUE]
    <3>1. cap_count % 2 = 0
      BY <1>2, <1>4, <2>4, Parity
    <3>2. Single(cap_count-1)' = Single(cap_count)
      BY <1>1, <2>3 DEF Single
    <3> QED
      BY <1>4, <2>1, <3>1, <3>2
  <2>5. ASSUME cap_count' % 2 = 0 PROVE word' = [pix |-> Pair(cap_count-2)', we |-> TRUE, last |-> TRUE]
    <3>1. cap_count % 2 = 1
      BY <1>2, <1>4, <2>5, Parity
    <3>2. Pair(cap_count-2)' = Pair(cap_count-1)
      BY <1>1, <2>3 DEF Pair
    <3> QED
      BY <1>4, <2>2, <3>1, <3>2
  <2>6. cap_run' # 1 /\ cap_count' = cap_size'
    BY <1>1, <1>4
  <2> QED
    BY <2>4, <2>5, <2>6, Zenon DEF WordInv
<1>5. CASE cap_run = 1 /\ cap_count' = cap_count + 1 /\ cap_count + 1 < cap_size /\ cap_run' = 1 /\ word' = NextWord(FALSE)
  <2>1. cap_count % 2 = 0 => NextWord(FALSE) = [pix |-> Single(cap_count), we |-> FALSE, last |-> FALSE]
    BY <1>5, NextWordIs
  <2>2. cap_count % 2 = 1 => NextWord(FALSE) = [pix |-> Pair(cap_count - 1), we |-> TRUE, last |-> FALSE]
    BY <1>5, NextWordIs
  <2>3. cap_count' - 1 = cap_count /\ cap_count' - 2 = cap_count - 1 /\ cap_count' # 0
    BY <1>2, <1>5
  <2>4. ASSUME cap_count' % 2 = 1 PROVE word' = [pix |-> Single(cap_count-1)', we |-> FALSE, last |-> FALSE]
    <3>1. cap_count % 2 = 0
      BY <1>2, <1>5, <2>4, Parity
    <3>2. Single(cap_count-1)' = Single(cap_count)
      BY <1>1, <2>3 DEF Single
    <3> QED
      BY <1>5, <2>1, <3>1, <3>2
  <2>5. ASSUME cap_count' % 2 = 0 PROVE word' = [pix |-> Pair(cap_count-2)', we |-> TRUE, last |-> FALSE]
    <3>1. cap_count % 2 = 1
      BY <1>2, <1>5, <2>5, Parity
    <3>2. Pair(cap_count-2)' = Pair(cap_count-1)
      BY <1>1, <2>3 DEF Pair
    <3> QED
      BY <1>5, <2>2, <3>1, <3>2
  <2>6. cap_run' # 0 /\ cap_count' < cap_size' /\ cap_count' # 0
    BY <1>1, <1>2, <1>5
  <2> QED
    BY <2>4, <2>5, <2>6, Zenon DEF WordInv
<1>6. CASE cap_run' = 1 /\ cap_count' = 0 /\ word' = NoWord /\ cap_en = 1
  <2>1. cap_size > 0 /\ 0 % 2 # 1
    BY <1>6 DEF StreamInv, EnableInv
  <2> QED
    BY <1>1, <1>6, <2>1 DEF WordInv
<1>7. CASE cap_run' = 0 /\ word' = NoWord
  BY <1>7 DEF WordInv, NoWord
<1> QED
  BY <1>4, <1>5, <1>6, <1>7, ClockCases

LEMMA ClockCount == ASSUME StreamType, StreamInv, PixelClock PROVE CountInv'
<1>1. cap_size' = cap_size /\ capture' = capture /\ dma' = dma
  BY ClockCases
<1>2. cap_count \in Nat /\ cap_size \in Nat /\ dma.done \in Nat /\ Len(fifo) \in Nat /\ fifo \in Seq(Words) /\ word \in Words
  BY StreamAssumption, LenProperties DEF StreamType
<1>3. CASE cap_run = 1 /\ cap_count' = cap_count + 1
  <2>1. /\ ~dma.idle
        /\ ~lost => dma.done + 2 * Len(fifo) = NextPlace
        /\ lost => dma.done + 2 * Len(fifo) < NextPlace
    BY <1>3 DEF StreamInv, CountInv
  <2>2. WordInv
    BY DEF StreamInv
  <2>3. CASE word.we
    <3>1. NextPlace = cap_count - 2 /\ cap_count % 2 = 0 /\ cap_count >= 1
      BY <1>3, <2>3, Written
    <3>2. cap_count' % 2 = 1 /\ cap_count' # 0
      BY <1>2, <1>3, <3>1, Parity
    <3>3. NextPlace' = cap_count
      BY <1>2, <1>3, <3>2 DEF NextPlace
    <3>4. CASE fifo' = Append(fifo, word) /\ lost' = lost
      <4>1. Len(fifo') = Len(fifo) + 1
        BY <1>2, <3>4
      <4>2. ~lost => dma.done + 2 * Len(fifo') = cap_count
        BY <1>2, <2>1, <3>1, <4>1
      <4>3. lost => dma.done + 2 * Len(fifo') < cap_count
        BY <1>2, <2>1, <3>1, <4>1
      <4> QED
        BY <1>1, <2>1, <3>3, <3>4, <4>2, <4>3 DEF CountInv
    <3>5. CASE fifo' = fifo /\ lost'
      BY <1>1, <1>2, <2>1, <3>1, <3>3, <3>5 DEF CountInv
    <3> QED
      BY <2>3, <3>4, <3>5, ClockFifo
  <2>4. CASE ~word.we
    <3>1. fifo' = fifo /\ lost' = lost
      BY <2>4, ClockFifo
    <3>2. ~(cap_count # 0 /\ cap_count % 2 = 0)
      <4> SUFFICES ASSUME cap_count # 0, cap_count % 2 = 0 PROVE FALSE
        OBVIOUS
      <4>1. word = [pix |-> Pair(cap_count-2), we |-> TRUE, last |-> FALSE]
        BY <1>3, <2>2 DEF WordInv
      <4> QED
        BY <2>4, <4>1
    <3>3. NextPlace' = NextPlace
      <4>1. CASE cap_count = 0
        <5>1. cap_count' = 1 /\ 1 % 2 = 1
          BY <1>3, <4>1
        <5> QED
          BY <4>1, <5>1 DEF NextPlace
      <4>2. CASE cap_count # 0
        <5>1. cap_count % 2 = 1 /\ cap_count' % 2 = 0 /\ cap_count' # 0 /\ cap_count' - 2 = cap_count - 1
          BY <1>2, <1>3, <3>2, <4>2, Parity
        <5> QED
          BY <4>2, <5>1 DEF NextPlace
      <4> QED
        BY <4>1, <4>2
    <3> QED
      BY <1>1, <2>1, <3>1, <3>3 DEF CountInv
  <2> QED
    BY <2>3, <2>4
<1>4. CASE cap_run = 0 /\ cap_en = 1 /\ cap_en_s1 = 0 /\ cap_run' = 1 /\ cap_count' = 0
  <2>1. ~Started
    BY <1>4 DEF Started
  <2>2. ~dma.idle /\ dma.done = 0 /\ ~lost /\ word = NoWord /\ fifo = <<>>
    BY <1>4, <2>1 DEF StreamInv, EnableInv
  <2>3. fifo' = <<>> /\ lost' = lost
    BY <2>2, ClockFifo, NoWordIsNotWritten
  <2>4. NextPlace' = 0 /\ Len(fifo') = 0
    BY <1>4, <2>3 DEF NextPlace
  <2> QED
    BY <1>1, <2>2, <2>3, <2>4 DEF CountInv
<1>5. CASE cap_run' = 0 /\ word' = NoWord
  BY <1>5 DEF CountInv, NoWord
<1> QED
  BY <1>3, <1>4, <1>5, ClockCases

LEMMA WordAtPlace ==
  ASSUME NEW w, NEW p \in Nat
  PROVE  /\ w.pix = Single(p) => Place(w) = p /\ Len(w.pix) = 1 /\ w.pix[1] = <<capture, p>>
         /\ w.pix = Pair(p) => /\ Place(w) = p /\ Len(w.pix) = 2
                               /\ w.pix[1] = <<capture, p>> /\ w.pix[2] = <<capture, p+1>>
<1>1. ASSUME w.pix = Single(p) PROVE Place(w) = p /\ Len(w.pix) = 1 /\ w.pix[1] = <<capture, p>>
  <2>1. Len(w.pix) = 1 /\ w.pix[1] = <<capture, p>>
    BY <1>1 DEF Single
  <2> QED
    BY <2>1 DEF Place
<1>2. ASSUME w.pix = Pair(p)
      PROVE  Place(w) = p /\ Len(w.pix) = 2 /\ w.pix[1] = <<capture, p>> /\ w.pix[2] = <<capture, p+1>>
  <2>1. Len(w.pix) = 2 /\ w.pix[1] = <<capture, p>> /\ w.pix[2] = <<capture, p+1>>
    BY <1>2 DEF Pair
  <2> QED
    BY <2>1 DEF Place
<1> QED
  BY <1>1, <1>2

LEMMA ClockFifoInv == ASSUME StreamType, StreamInv, PixelClock PROVE FifoInv'
<1>1. UNCHANGED <<cap_en, cap_size, dma, cap_buf, capture>>
  BY ClockCases
<1>2. fifo \in Seq(Words) /\ Len(fifo) \in Nat /\ word \in Words /\ dma.done \in Nat /\ lost \in BOOLEAN
  BY LenProperties DEF StreamType
<1>3. FifoInv /\ CountInv /\ EnableInv
  BY DEF StreamInv
\* At the end of a capture nothing starts before the server has seen it.
<1>4. ASSUME Started, cap_run = 0 PROVE cap_run' = 0 /\ word' = NoWord
  BY <1>4, ClockCases DEF Started
<1>5. ASSUME NEW i \in 1 .. Len(fifo), NEW w, w = fifo[i] PROVE Queued(w, i)'
  <2>1. Queued(w, i)
    BY <1>3, <1>5 DEF FifoInv
  <2>2. Started
    BY <1>2, <1>3 DEF EnableInv
  <2>3. ~dma'.idle /\ Place(w) \in Nat /\ (w.pix = Single(Place(w)) \/ w.pix = Pair(Place(w)))
    BY <1>1, <2>1 DEF Queued
  <2>4. /\ ~w.last => w.pix = Pair(Place(w))
        /\ IF lost' THEN dma'.done + 2 * (i-1) <= Place(w) ELSE dma'.done + 2 * (i-1) = Place(w)
    <3>1. ~w.last => w.pix = Pair(Place(w))
      BY <2>1 DEF Queued
    <3>2. IF lost THEN dma.done + 2 * (i-1) <= Place(w) ELSE dma.done + 2 * (i-1) = Place(w)
      BY <2>1 DEF Queued
    <3>3. lost => lost'
      BY ClockFifo
    <3>4. dma' = dma
      BY <1>1
    <3>5. dma.done + 2 * (i-1) = Place(w) => dma.done + 2 * (i-1) <= Place(w)
      BY <1>2, <2>3
    <3> QED
      BY <3>1, <3>2, <3>3, <3>4, <3>5
  <2>5. w.last => /\ i = Len(fifo') /\ cap_run' = 0 /\ word' = NoWord
                  /\ Place(w) + Len(w.pix) = cap_size'
                  /\ lost' => dma'.done + 2 * (i-1) < Place(w)
    <3> SUFFICES ASSUME w.last
                 PROVE  /\ i = Len(fifo') /\ cap_run' = 0 /\ word' = NoWord
                        /\ Place(w) + Len(w.pix) = cap_size'
                        /\ lost' => dma'.done + 2 * (i-1) < Place(w)
      OBVIOUS
    <3>1. /\ i = Len(fifo) /\ cap_run = 0 /\ word = NoWord
          /\ Place(w) + Len(w.pix) = cap_size
          /\ lost => dma.done + 2 * (i-1) < Place(w)
      BY <2>1 DEF Queued
    <3>2. fifo' = fifo /\ lost' = lost
      BY <3>1, ClockFifo, NoWordIsNotWritten
    <3>3. cap_run' = 0 /\ word' = NoWord
      BY <1>4, <2>2, <3>1
    <3> QED
      BY <1>1, <3>1, <3>2, <3>3
  <2>6. Place(w)' = Place(w) /\ (\A p : Single(p)' = Single(p) /\ Pair(p)' = Pair(p))
    BY <1>1 DEF Place, Single, Pair
  <2> QED
    BY <2>3, <2>4, <2>5, <2>6 DEF Queued
<1>6. ASSUME word.we, fifo' = Append(fifo, word), lost' = lost, NEW w, w = word, NEW i, i = Len(fifo) + 1
      PROVE  Queued(w, i)'
  <2>1. /\ Started /\ ~dma.idle /\ NextPlace \in Nat
        /\ cap_run = 1 => w.pix = Pair(NextPlace) /\ ~w.last
        /\ cap_run = 0 => /\ w.last
                          /\ \/ w.pix = Single(NextPlace) /\ NextPlace + 1 = cap_size
                             \/ w.pix = Pair(NextPlace) /\ NextPlace + 2 = cap_size
    BY <1>6, Written
  <2>2. /\ ~lost => dma.done + 2 * Len(fifo) = NextPlace
        /\ lost => dma.done + 2 * Len(fifo) < NextPlace
    BY <1>3, <1>6, NoWordIsNotWritten DEF CountInv
  <2>3. PICK p \in Nat : p = NextPlace
    BY <2>1
  <2>4. cap_run \in {0, 1}
    BY DEF StreamType
  <2>5. (w.pix = Single(p) /\ w.last) \/ w.pix = Pair(p)
    BY <2>1, <2>3, <2>4
  <2>6. Place(w) = p /\ (w.pix = Single(p) => Len(w.pix) = 1) /\ (w.pix = Pair(p) => Len(w.pix) = 2)
    BY <2>5, WordAtPlace
  <2>7. Len(fifo') = i
    BY <1>2, <1>6
  <2>8. /\ lost' => dma'.done + 2 * (i-1) < p
        /\ ~lost' => dma'.done + 2 * (i-1) = p
    BY <1>1, <1>2, <1>6, <2>2, <2>3
  <2>9. IF lost' THEN dma'.done + 2 * (i-1) <= p ELSE dma'.done + 2 * (i-1) = p
    BY <1>1, <1>2, <1>6, <2>8
  <2>10. ASSUME w.last PROVE i = Len(fifo') /\ cap_run' = 0 /\ word' = NoWord /\ p + Len(w.pix) = cap_size'
    <3>1. cap_run = 0
      BY <2>1, <2>4, <2>10
    <3>2. p + Len(w.pix) = cap_size
      BY <2>1, <2>3, <2>6, <3>1
    <3> QED
      BY <1>1, <1>4, <2>1, <2>7, <3>1, <3>2
  <2>11. Place(w)' = Place(w) /\ Single(p)' = Single(p) /\ Pair(p)' = Pair(p)
    BY <1>1 DEF Place, Single, Pair
  <2>12. ~dma'.idle /\ Place(w) \in Nat /\ (~w.last => w.pix = Pair(p))
    BY <1>1, <2>1, <2>5, <2>6
  <2>13. (w.last => /\ i = Len(fifo') /\ cap_run' = 0 /\ word' = NoWord
                    /\ p + Len(w.pix) = cap_size'
                    /\ lost' => dma'.done + 2 * (i-1) < p)
    BY <2>8, <2>10
  <2>14. w.pix = Single(p)' \/ w.pix = Pair(p)'
    BY <2>5, <2>11
  <2> QED
    BY <2>6, <2>9, <2>11, <2>12, <2>13, <2>14 DEF Queued
<1>7. CASE fifo' = fifo
  BY <1>5, <1>7 DEF FifoInv
<1>8. CASE word.we /\ fifo' = Append(fifo, word) /\ lost' = lost
  <2>1. Len(fifo') = Len(fifo) + 1 /\ (\A i \in 1 .. Len(fifo) : fifo'[i] = fifo[i]) /\ fifo'[Len(fifo) + 1] = word
    BY <1>2, <1>8
  <2>2. ASSUME NEW i \in 1 .. Len(fifo') PROVE Queued(fifo[i], i)'
    <3>1. CASE i \in 1 .. Len(fifo)
      <4>1. PICK w : w = fifo[i]
        OBVIOUS
      <4>2. Queued(w, i)'
        BY <1>5, <3>1, <4>1
      <4> QED
        BY <2>1, <3>1, <4>1, <4>2
    <3>2. CASE i = Len(fifo) + 1
      <4>1. PICK w : w = word
        OBVIOUS
      <4>2. Queued(w, i)'
        BY <1>6, <1>8, <3>2, <4>1
      <4> QED
        BY <2>1, <3>2, <4>1, <4>2
    <3> QED
      BY <1>2, <2>1, <3>1, <3>2
  <2> QED
    BY <2>2 DEF FifoInv
<1> QED
  BY <1>7, <1>8, ClockFifo

------------------------------------------------------------------------------
(* The engine, the start of a capture and the poll.                        *)

LEMMA ClockBuffer == ASSUME StreamType, StreamInv, PixelClock PROVE BufferInv'
<1>1. UNCHANGED <<dma, cap_buf, capture>>
  BY ClockCases
<1>2. BufferInv
  BY DEF StreamInv
<1>3. lost => lost'
  BY ClockFifo
<1>4. dma.idle => lost' = lost
  <2> SUFFICES ASSUME dma.idle PROVE lost' = lost
    OBVIOUS
  <2>1. ~word.we
    BY Written
  <2> QED
    BY <2>1, ClockFifo
<1>5. ASSUME NEW k \in 0 .. MaxPixels-1, k < dma.done
      PROVE  cap_buf[k][1] = capture /\ cap_buf[k][2] >= k /\ (~lost' => cap_buf[k][2] = k)
  BY <1>2, <1>3, <1>5 DEF BufferInv
<1>6. \A k \in 0 .. MaxPixels-1 : dma.done <= k /\ k < dma.length => cap_buf[k] = Fill
  BY <1>2 DEF BufferInv
<1>7. dma.idle => IF lost' THEN dma.done < dma.length ELSE dma.done = dma.length
  BY <1>2, <1>4 DEF BufferInv
<1> QED
  BY <1>1, <1>5, <1>6, <1>7 DEF BufferInv

LEMMA ClockStream == StreamType /\ StreamInv /\ PixelClock => StreamInv'
  BY ClockEnable, ClockWord, ClockCount, ClockFifoInv, ClockBuffer DEF StreamInv

LEMMA TakeStream == StreamType /\ StreamInv /\ DmaTake => StreamInv'
<1> SUFFICES ASSUME StreamType, StreamInv, DmaTake PROVE StreamInv'
  OBVIOUS
<1>1. PICK w : w = Head(fifo)
  OBVIOUS
<1>2. PICK n : n = Len(w.pix)
  OBVIOUS
<1>3. PICK d \in Nat : d = dma.done
  BY DEF StreamType
<1>4. /\ fifo # <<>> /\ ~dma.idle /\ d + n <= dma.length /\ fifo' = Tail(fifo)
      /\ UNCHANGED <<cap_en, cap_size, cap_en_s, cap_en_s1, cap_run, cap_stop, cap_count, word, capture, lost>>
      /\ cap_buf' = [k \in DOMAIN cap_buf |-> IF k \in d .. d + n - 1 THEN w.pix[k - d + 1] ELSE cap_buf[k]]
      /\ dma' = [dma EXCEPT !.done = @ + n, !.idle = w.last]
  BY <1>1, <1>2, <1>3 DEF DmaTake, regs, pclk
<1>5. /\ fifo \in Seq(Words) /\ Len(fifo) \in Nat \ {0} /\ w \in Words /\ w = fifo[1]
      /\ fifo' \in Seq(Words) /\ Len(fifo') = Len(fifo) - 1
      /\ \A i \in 1 .. Len(fifo') : fifo'[i] = fifo[i+1]
  <2>1. fifo \in Seq(Words)
    BY DEF StreamType
  <2>2. Head(fifo) = fifo[1] /\ Len(fifo) \in Nat \ {0}
    BY <1>4, <2>1, EmptySeq
  <2> QED
    BY <1>1, <1>4, <2>1, <2>2, HeadTailProperties
<1>6. Queued(w, 1)
  BY <1>5 DEF StreamInv, FifoInv
<1>7. PICK p \in Nat : p = Place(w)
  BY <1>6 DEF Queued
<1>8. /\ w.pix = Single(p) \/ w.pix = Pair(p)
      /\ ~w.last => w.pix = Pair(p)
      /\ IF lost THEN d <= p ELSE d = p
      /\ w.last => /\ Len(fifo) = 1 /\ cap_run = 0 /\ word = NoWord
                   /\ p + n = cap_size
                   /\ lost => d < p
  <2>1. d + 2 * (1 - 1) = d
    BY <1>3
  <2> QED
    BY <1>2, <1>3, <1>6, <1>7, <2>1 DEF Queued
<1>9. /\ w.pix = Single(p) => n = 1 /\ w.pix[1] = <<capture, p>>
      /\ w.pix = Pair(p) => n = 2 /\ w.pix[1] = <<capture, p>> /\ w.pix[2] = <<capture, p+1>>
  BY <1>2, <1>7, WordAtPlace
<1>10. n \in 1 .. 2 /\ (\A j \in 1 .. n : w.pix[j] = <<capture, p + j - 1>>)
  <2>1. CASE w.pix = Single(p)
    <3>1. \A j \in 1 .. n : j = 1
      BY <1>9, <2>1
    <3>2. p + 1 - 1 = p
      OBVIOUS
    <3> QED
      BY <1>9, <2>1, <3>1, <3>2
  <2>2. CASE w.pix = Pair(p)
    <3>1. \A j \in 1 .. n : j = 1 \/ j = 2
      BY <1>9, <2>2
    <3>2. p + 1 - 1 = p /\ p + 2 - 1 = p + 1
      OBVIOUS
    <3> QED
      BY <1>9, <2>2, <3>1, <3>2
  <2> QED
    BY <1>8, <2>1, <2>2
<1>11. dma'.done = d + n /\ dma'.idle = w.last /\ dma'.length = dma.length
  <2>1. dma \in [idle : BOOLEAN, length : 0 .. MaxPixels, done : Nat]
    BY DEF StreamType
  <2>2. dma' = [idle |-> w.last, length |-> dma.length, done |-> dma.done + n]
    BY <1>4, <2>1
  <2> QED
    BY <1>3, <2>2
<1>12. w.last \in BOOLEAN
  BY <1>5, WordFields
<1>13. EnableInv /\ WordInv /\ CountInv /\ FifoInv /\ BufferInv
  BY DEF StreamInv
<1>14. Started
  BY <1>4, <1>13 DEF EnableInv
<1>15. EnableInv'
  <2>1. Started' /\ cap_en' = 1 /\ cap_en_s1' = 1
    BY <1>4, <1>14 DEF Started
  <2> QED
    BY <1>4, <1>11, <1>13, <2>1 DEF EnableInv
<1>16. WordInv'
  BY <1>4, <1>13 DEF WordInv, Single, Pair
<1>17. CountInv'
  <2> SUFFICES ASSUME (cap_run = 1 \/ word # NoWord)'
               PROVE  (/\ ~dma.idle
                       /\ ~lost => dma.done + 2 * Len(fifo) = NextPlace
                       /\ lost => dma.done + 2 * Len(fifo) < NextPlace)'
    BY DEF CountInv
  <2>1. cap_run = 1 \/ word # NoWord
    BY <1>4
  <2>2. ~w.last
    BY <1>8, <2>1
  <2>3. n = 2
    BY <1>8, <1>9, <2>2
  <2>4. /\ ~lost => d + 2 * Len(fifo) = NextPlace
        /\ lost => d + 2 * Len(fifo) < NextPlace
    BY <1>3, <1>13, <2>1 DEF CountInv
  <2>5. NextPlace' = NextPlace
    BY <1>4 DEF NextPlace
  <2>6. d + 2 + 2 * (Len(fifo) - 1) = d + 2 * Len(fifo)
    BY <1>5
  <2>7. dma'.done + 2 * Len(fifo') = d + 2 * Len(fifo)
    BY <1>5, <1>11, <2>3, <2>6
  <2> QED
    BY <1>4, <1>11, <2>2, <2>4, <2>5, <2>7
<1>18. FifoInv'
  <2>1. ASSUME NEW i \in 1 .. Len(fifo'), NEW x, x = fifo[i+1] PROVE Queued(x, i)'
    <3>1. i + 1 \in 1 .. Len(fifo) /\ Len(fifo) > 1 /\ i \in Nat
      BY <1>5
    <3>2. Queued(x, i + 1)
      BY <1>13, <2>1, <3>1 DEF FifoInv
    <3>3. ~w.last /\ n = 2
      <4>1. Len(fifo) # 1
        BY <1>5, <3>1
      <4>2. ~w.last
        BY <1>8, <4>1
      <4> QED
        BY <1>8, <1>9, <4>2
    <3>4. d + 2 * (i + 1 - 1) = d + n + 2 * (i - 1)
      BY <3>1, <3>3
    <3>5. ~dma'.idle /\ Place(x) \in Nat
      BY <1>11, <3>2, <3>3 DEF Queued
    <3>6. /\ x.pix = Single(Place(x)) \/ x.pix = Pair(Place(x))
          /\ ~x.last => x.pix = Pair(Place(x))
      BY <3>2 DEF Queued
    <3>7. IF lost THEN d + n + 2 * (i - 1) <= Place(x) ELSE d + n + 2 * (i - 1) = Place(x)
      BY <1>3, <3>2, <3>4 DEF Queued
    <3>8. x.last => /\ i + 1 = Len(fifo) /\ cap_run = 0 /\ word = NoWord
                    /\ Place(x) + Len(x.pix) = cap_size
                    /\ lost => d + n + 2 * (i - 1) < Place(x)
      BY <1>3, <3>2, <3>4 DEF Queued
    <3>9. i + 1 = Len(fifo) => i = Len(fifo')
      BY <1>5, <3>1
    <3>10. Place(x)' = Place(x) /\ (\A q : Single(q)' = Single(q) /\ Pair(q)' = Pair(q))
      BY <1>4 DEF Place, Single, Pair
    <3> QED
      BY <1>4, <1>11, <3>5, <3>6, <3>7, <3>8, <3>9, <3>10 DEF Queued
  <2>2. ASSUME NEW i \in 1 .. Len(fifo') PROVE Queued(fifo[i], i)'
    <3>1. PICK x : x = fifo[i+1]
      OBVIOUS
    <3>2. Queued(x, i)'
      BY <2>1, <3>1
    <3> QED
      BY <1>5, <3>1, <3>2
  <2> QED
    BY <2>2 DEF FifoInv
<1>19. ASSUME NEW k \in 0 .. MaxPixels-1
       PROVE  cap_buf'[k] = IF k \in d .. d + n - 1 THEN <<capture, p + k - d>> ELSE cap_buf[k]
  <2>1. DOMAIN cap_buf = 0 .. MaxPixels-1
    BY DEF StreamType
  <2>2. cap_buf'[k] = IF k \in d .. d + n - 1 THEN w.pix[k - d + 1] ELSE cap_buf[k]
    BY <1>4, <2>1
  <2>3. MaxPixels \in Nat /\ k \in Nat /\ n \in Nat
    BY <1>10, StreamAssumption
  <2>4. ASSUME k \in d .. d + n - 1 PROVE w.pix[k - d + 1] = <<capture, p + k - d>>
    <3>1. k - d + 1 \in 1 .. n /\ p + (k - d + 1) - 1 = p + k - d
      BY <2>3, <2>4
    <3> QED
      BY <1>10, <3>1
  <2> QED
    BY <2>2, <2>4
<1>20. MaxPixels \in Nat /\ dma.length \in Nat /\ dma.length = cap_size /\ n \in Nat
  BY <1>10, <1>13, StreamAssumption DEF StreamType, EnableInv
<1>21. BufferInv'
  <2>1. ASSUME NEW k \in 0 .. MaxPixels-1, k < d + n
        PROVE  cap_buf'[k][1] = capture /\ cap_buf'[k][2] >= k /\ (~lost => cap_buf'[k][2] = k)
    <3>1. CASE k \in d .. d + n - 1
      <4>1. cap_buf'[k] = <<capture, p + k - d>>
        BY <1>19, <3>1
      <4>2. k \in Nat /\ p + k - d >= k /\ (~lost => p + k - d = k)
        BY <1>8, <1>20, <3>1
      <4> QED
        BY <4>1, <4>2
    <3>2. CASE k \notin d .. d + n - 1
      <4>1. cap_buf'[k] = cap_buf[k]
        BY <1>19, <3>2
      <4>2. k < d
        BY <1>20, <2>1, <3>2
      <4> QED
        BY <1>3, <1>13, <4>1, <4>2 DEF BufferInv
    <3> QED
      BY <3>1, <3>2
  <2>2. ASSUME NEW k \in 0 .. MaxPixels-1, d + n <= k, k < dma.length PROVE cap_buf'[k] = Fill
    <3>1. k \notin d .. d + n - 1 /\ d <= k
      BY <1>20, <2>2
    <3>2. cap_buf'[k] = cap_buf[k]
      BY <1>19, <3>1
    <3> QED
      BY <1>3, <1>13, <2>2, <3>1, <3>2 DEF BufferInv
  <2>3. w.last => IF lost THEN d + n < dma.length ELSE d + n = dma.length
    BY <1>8, <1>10, <1>20
  <2>4. capture' = capture /\ lost' = lost
    BY <1>4
  <2> QED
    BY <1>11, <2>1, <2>2, <2>3, <2>4 DEF BufferInv
<1> QED
  BY <1>15, <1>16, <1>17, <1>18, <1>21 DEF StreamInv

LEMMA StartStream ==
  ASSUME StreamType, StreamInv, NEW n \in 1 .. MaxPixels, CapStart(n), Quiet PROVE StreamInv'
<1>1. /\ cap_buf' = [k \in DOMAIN cap_buf |-> IF k < n THEN Fill ELSE cap_buf[k]]
      /\ dma' = [idle |-> FALSE, length |-> n, done |-> 0]
      /\ cap_size' = n /\ cap_en' = 1 /\ capture' = capture + 1 /\ lost' = FALSE
      /\ UNCHANGED <<cap_en_s, cap_en_s1, cap_run, cap_stop, cap_count, word, fifo>>
  BY DEF CapStart, pclk
<1>2. cap_en_s = cap_en /\ cap_en_s1 = cap_en /\ cap_run = 0 /\ word = NoWord /\ fifo = <<>>
  BY DEF Quiet
<1>3. dma'.idle = FALSE /\ dma'.length = n /\ dma'.done = 0 /\ Len(fifo) = 0
  BY <1>1, <1>2
<1>4. EnableInv'
  <2>1. cap_en_s1' <= cap_en_s' /\ n > 0
    BY <1>1, <1>2 DEF StreamType
  <2> QED
    BY <1>1, <1>2, <1>3, <2>1 DEF EnableInv
<1>5. WordInv' /\ CountInv'
  BY <1>1, <1>2 DEF WordInv, CountInv, NoWord
<1>6. FifoInv'
  BY <1>1, <1>3 DEF FifoInv
<1>7. BufferInv'
  <2>1. \A k \in 0 .. MaxPixels-1 : ~(k < 0) /\ (k < n => cap_buf'[k] = Fill)
    BY <1>1, StreamAssumption DEF StreamType
  <2> QED
    BY <1>3, <2>1 DEF BufferInv
<1> QED
  BY <1>4, <1>5, <1>6, <1>7 DEF StreamInv

\* A capture that has ended left nothing in the hardware.
LEMMA IdleIsEmpty ==
  ASSUME StreamType, StreamInv, cap_en = 1, dma.idle
  PROVE  cap_en_s = 1 /\ cap_en_s1 = 1 /\ cap_run = 0 /\ word = NoWord /\ fifo = <<>>
<1>1. /\ cap_en_s1 \in {0, 1} /\ cap_en_s \in {0, 1} /\ cap_run \in {0, 1} /\ fifo \in Seq(Words)
      /\ EnableInv /\ CountInv /\ FifoInv
  BY DEF StreamType, StreamInv
<1>2. cap_en_s = 1 /\ cap_en_s1 = 1
  BY <1>1 DEF EnableInv
<1>3. cap_run = 0 /\ word = NoWord
  BY <1>1 DEF CountInv
<1>4. fifo = <<>>
  <2> SUFFICES ASSUME fifo # <<>> PROVE FALSE
    OBVIOUS
  <2>1. 1 \in 1 .. Len(fifo)
    BY <1>1, EmptySeq
  <2> QED
    BY <1>1, <2>1 DEF FifoInv, Queued
<1> QED
  BY <1>2, <1>3, <1>4

LEMMA PollStream == ASSUME StreamType, StreamInv, Poll PROVE StreamInv'
<1>1. /\ (Stopped /\ cap_en' = 0) \/ (~Stopped /\ cap_en' = cap_en)
      /\ UNCHANGED <<cap_size, cap_en_s, cap_en_s1, cap_run, cap_stop, cap_count, word, fifo, dma, cap_buf, capture, lost>>
  <2>1. IF Stopped THEN cap_en' = 0 ELSE cap_en' = cap_en
    BY DEF Poll, CapTake
  <2>2. UNCHANGED <<cap_size, cap_en_s, cap_en_s1, cap_run, cap_stop, cap_count, word, fifo, dma, cap_buf, capture, lost>>
    BY DEF Poll, pclk
  <2>3. (Stopped /\ cap_en' = 0) \/ (~Stopped /\ cap_en' = cap_en)
    <3>1. CASE Stopped
      BY <2>1, <3>1
    <3>2. CASE ~Stopped
      BY <2>1, <3>2
    <3> QED
      BY <3>1, <3>2
  <2> QED
    BY <2>2, <2>3
<1>2. EnableInv /\ WordInv /\ CountInv /\ FifoInv /\ BufferInv
  BY DEF StreamInv
<1>3. EnableInv'
  <2>1. CASE cap_en' = cap_en
    BY <1>1, <1>2, <2>1 DEF EnableInv, Started
  <2>2. CASE Stopped /\ cap_en' = 0
    <3>1. cap_en_s = 1 /\ cap_en_s1 = 1 /\ cap_run = 0 /\ word = NoWord /\ fifo = <<>>
      BY <2>2, IdleIsEmpty DEF Stopped
    <3> QED
      BY <1>1, <1>2, <2>2, <3>1 DEF EnableInv
  <2> QED
    BY <1>1, <2>1, <2>2
<1>4. WordInv'
  BY <1>1, <1>2 DEF WordInv, Single, Pair
<1>5. CountInv'
  BY <1>1, <1>2 DEF CountInv, NextPlace
<1>6. FifoInv'
  <2>1. ASSUME NEW i, NEW w, Queued(w, i) PROVE Queued(w, i)'
    BY <1>1, <2>1 DEF Queued, Place, Single, Pair
  <2> QED
    BY <1>1, <1>2, <2>1 DEF FifoInv
<1>7. BufferInv'
  BY <1>1, <1>2 DEF BufferInv
<1> QED
  BY <1>3, <1>4, <1>5, <1>6, <1>7 DEF StreamInv

------------------------------------------------------------------------------
(* The hardware, whatever clients do.                                      *)

\* What holds of the hardware and the server with clients of any manners.
HardwareInv == TypeInv /\ StreamInv /\ cap_count <= MaxPixels

LEMMA InitStream == Init => StreamInv /\ cap_count <= MaxPixels
<1> SUFFICES ASSUME Init PROVE StreamInv /\ cap_count <= MaxPixels
  OBVIOUS
<1>1. /\ cap_en = 0 /\ cap_size = 0 /\ cap_en_s = 0 /\ cap_en_s1 = 0 /\ cap_run = 0 /\ cap_count = 0
      /\ word = NoWord /\ fifo = <<>> /\ dma = [idle |-> FALSE, length |-> 0, done |-> 0]
  BY DEF Init, StreamInit
<1>2. dma.idle = FALSE /\ dma.length = 0 /\ dma.done = 0 /\ Len(fifo) = 0
  BY <1>1
<1>3. EnableInv
  BY <1>1, <1>2 DEF EnableInv
<1>4. WordInv /\ CountInv
  BY <1>1 DEF WordInv, CountInv
<1>5. FifoInv
  BY <1>2 DEF FifoInv
<1>6. BufferInv
  <2>1. \A k \in 0 .. MaxPixels-1 : ~(k < 0)
    BY StreamAssumption
  <2> QED
    BY <1>2, <2>1 DEF BufferInv
<1> QED
  BY <1>1, <1>3, <1>4, <1>5, <1>6, StreamAssumption DEF StreamInv

\* What moves the hardware, and what leaves it alone.
LEMMA Movers ==
  ASSUME TypeInv, Next
  PROVE  \/ UNCHANGED stream
         \/ \E s \in Pcbs : ServeGet(s)
         \/ Poll
         \/ Hardware
<1>1. CASE \E c \in Clients : Begin(c) \/ Hear(c) \/ Lose(c) \/ Connect(c) \/ Request(c) \/ Receive(c) \/ Leave(c)
  BY <1>1 DEF Begin, Hear, Lose, Connect, Request, Receive, Leave
<1>2. CASE \E s \in Pcbs : ServeClose(s)
  BY <1>2 DEF ServeClose
<1>3. CASE Advertise \/ Transfer
  BY <1>3 DEF Advertise, Transfer
<1> QED
  BY <1>1, <1>2, <1>3 DEF Next

LEMMA ServeGetStarts ==
  ASSUME TypeInv, NEW s \in Pcbs, ServeGet(s)
  PROVE  \E n \in 1 .. MaxPixels : n = client[pcb[s].client].n /\ CapStart(n) /\ Quiet
<1>1. pcb[s].client \in Clients
  BY ServeGetBlocks DEF TypeInv
<1>2. client[pcb[s].client].n \in 1 .. MaxPixels
  BY <1>1, ClientFields DEF TypeInv
<1> QED
  BY <1>2 DEF ServeGet

LEMMA HardwareStep == HardwareInv /\ [Next]_vars => HardwareInv'
<1> SUFFICES ASSUME HardwareInv, [Next]_vars PROVE HardwareInv'
  OBVIOUS
<1>1. TypeInv /\ StreamType /\ StreamInv /\ cap_count <= MaxPixels
  BY DEF HardwareInv, TypeInv
<1>2. TypeInv'
  BY <1>1, TypeStep
<1>3. CASE UNCHANGED stream
  <2>1. StreamInv' /\ cap_count' = cap_count
    BY <1>1, <1>3, StreamKept, SameStream DEF streamVars
  <2> QED
    BY <1>1, <1>2, <2>1 DEF HardwareInv
<1>4. ASSUME NEW s \in Pcbs, ServeGet(s) PROVE HardwareInv'
  <2>1. PICK n \in 1 .. MaxPixels : CapStart(n) /\ Quiet
    BY <1>1, <1>4, ServeGetStarts
  <2>2. StreamInv'
    BY <1>1, <2>1, StartStream
  <2>3. cap_count' = cap_count
    BY <2>1 DEF CapStart, pclk
  <2> QED
    BY <1>1, <1>2, <2>2, <2>3 DEF HardwareInv
<1>5. CASE Poll
  <2>1. cap_count' = cap_count
    BY <1>5 DEF Poll, pclk
  <2> QED
    BY <1>1, <1>2, <1>5, <2>1, PollStream DEF HardwareInv
<1>6. CASE Hardware
  <2>1. StreamInv'
    BY <1>1, <1>6, ClockStream, TakeStream DEF Hardware
  <2>2. cap_count' <= MaxPixels
    <3>1. MaxPixels \in Nat /\ cap_count \in Nat /\ cap_size \in 0 .. MaxPixels
      BY <1>1, StreamAssumption DEF StreamType
    <3>2. CASE PixelClock
      <4>1. (cap_count' = cap_count + 1 /\ cap_count < cap_size) \/ cap_count' = 0 \/ cap_count' = cap_count
        BY <1>1, <3>2, ClockCases
      <4> QED
        BY <1>1, <3>1, <4>1
    <3>3. CASE DmaTake
      BY <1>1, <3>3 DEF DmaTake, pclk
    <3> QED
      BY <1>6, <3>2, <3>3 DEF Hardware
  <2> QED
    BY <1>2, <2>1, <2>2 DEF HardwareInv
<1>7. CASE UNCHANGED vars
  <2>1. UNCHANGED stream
    BY <1>7 DEF vars
  <2> QED
    BY <1>3, <2>1
<1> QED
  BY <1>1, <1>3, <1>4, <1>5, <1>6, <1>7, Movers

\* What was written at each place of the buffer, in every state: types, the
\* words of the capture, and its counter.
THEOREM StreamInvariant == Spec => []HardwareInv
<1>1. Init => HardwareInv
  BY InitType, InitStream DEF HardwareInv
<1> QED
  BY <1>1, HardwareStep, PTL DEF Spec

LEMMA WordIsShort == ASSUME StreamType, StreamInv PROVE Len(word.pix) <= 2
<1>1. cap_run \in {0, 1} /\ cap_count \in Nat /\ WordInv
  BY DEF StreamType, StreamInv
<1>2. CASE word = NoWord
  BY <1>2 DEF NoWord
<1>3. CASE word # NoWord
  <2>1. cap_run = 1 => cap_count # 0
    BY <1>1, <1>3 DEF WordInv
  <2>2. \/ \E p, x, y : word = [pix |-> Single(p), we |-> x, last |-> y]
        \/ \E p, x, y : word = [pix |-> Pair(p), we |-> x, last |-> y]
    BY <1>1, <1>3, <2>1, Parity DEF WordInv
  <2>3. \/ \E p : word.pix = Single(p)
        \/ \E p : word.pix = Pair(p)
    BY <2>2
  <2>4. CASE \E p : word.pix = Single(p)
    <3>1. PICK p : word.pix = Single(p)
      BY <2>4
    <3> QED
      BY <3>1 DEF Single
  <2>5. CASE \E p : word.pix = Pair(p)
    <3>1. PICK p : word.pix = Pair(p)
      BY <2>5
    <3> QED
      BY <3>1 DEF Pair
  <2> QED
    BY <2>3, <2>4, <2>5
<1> QED
  BY <1>2, <1>3

\* The registers, the FIFO, the engine and the server's counters keep their
\* ranges, whatever the clients do.
THEOREM TypeCorrect == Spec => []TypeOK
<1>1. HardwareInv => TypeOK
  <2> SUFFICES ASSUME HardwareInv PROVE TypeOK
    OBVIOUS
  <2>1. StreamType /\ ServerType /\ StreamInv /\ cap_count <= MaxPixels
    BY DEF HardwareInv, TypeInv
  <2>2. MaxPixels \in Nat
    BY StreamAssumption
  <2>3. {cap_en, cap_en_s, cap_en_s1, cap_run, cap_stop} \subseteq {0, 1}
    BY <2>1 DEF StreamType
  <2>4. cap_size \in 0 .. MaxPixels /\ cap_count \in 0 .. MaxPixels
    BY <2>1, <2>2 DEF StreamType
  <2>5. Len(fifo) <= Depth /\ Len(word.pix) <= 2
    BY <2>1, WordIsShort DEF StreamType
  <2>6. dma.length \in 0 .. MaxPixels /\ dma.done \in 0 .. dma.length
    BY <2>1, <2>2 DEF StreamType
  <2>7. tcp_pcb_tx \in Pcbs \cup {None} /\ pixels_sent + pixels_remaining \in 0 .. MaxPixels
    BY <2>1, <2>2 DEF ServerType
  <2>8. \A s \in Pcbs : Len(pcb[s].flight) <= SndBuf
    BY <2>1 DEF ServerType, BlocksType
  <2> QED
    BY <2>3, <2>4, <2>5, <2>6, <2>7, <2>8 DEF TypeOK
<1> QED
  BY <1>1, StreamInvariant, PTL

\* What a poll takes is complete.
LEMMA TakenIsComplete ==
  ASSUME HardwareInv, Stopped
  PROVE  /\ dma.length = cap_size /\ cap_size \in 1 .. MaxPixels
         /\ lost => dma.done < cap_size /\ cap_buf[dma.done] = Fill
         /\ ~lost => \A k \in 0 .. cap_size-1 : cap_buf[k] = <<capture, k>>
<1>1. StreamType /\ EnableInv /\ BufferInv
  BY DEF HardwareInv, TypeInv, StreamInv
<1>2. cap_en = 1 /\ dma.idle
  BY DEF Stopped
<1>3. dma.length = cap_size /\ cap_size \in 1 .. MaxPixels /\ dma.done \in Nat /\ MaxPixels \in Nat
  BY <1>1, <1>2, StreamAssumption DEF EnableInv, StreamType
<1>4. ASSUME lost PROVE dma.done < cap_size /\ cap_buf[dma.done] = Fill
  <2>1. dma.done < dma.length
    BY <1>1, <1>2, <1>4 DEF BufferInv
  <2>2. dma.done \in 0 .. MaxPixels-1 /\ dma.done <= dma.done
    BY <1>3, <2>1
  <2> QED
    BY <1>1, <1>3, <2>1, <2>2 DEF BufferInv
<1>5. ASSUME ~lost, NEW k \in 0 .. cap_size-1 PROVE cap_buf[k] = <<capture, k>>
  <2>1. dma.done = cap_size
    BY <1>1, <1>2, <1>3, <1>5 DEF BufferInv
  <2>2. k \in 0 .. MaxPixels-1 /\ k < dma.done
    BY <1>3, <2>1
  <2>3. cap_buf[k][1] = capture /\ cap_buf[k][2] = k
    BY <1>1, <1>5, <2>2 DEF BufferInv
  <2>4. cap_buf[k] \in Nat \X Nat
    BY <1>1, <2>2 DEF StreamType, Pixel
  <2> QED
    BY <2>3, <2>4
<1> QED
  BY <1>3, <1>4, <1>5

LEMMA PollIsComplete == HardwareInv /\ [Next]_vars => ReadyIsComplete
<1> SUFFICES ASSUME HardwareInv, [Next]_vars, pixels_remaining = 0, pixels_remaining' # 0
             PROVE  IF lost THEN \E k \in 0 .. pixels_remaining'-1 : cap_buf[k] = Fill
                    ELSE \A k \in 0 .. pixels_remaining'-1 : cap_buf[k] = <<capture, k>>
  BY DEF ReadyIsComplete
<1>1. Poll
  BY DEF Next, vars, server, Begin, Hear, Lose, Connect, Request, Receive, Leave, ServeGet, ServeClose,
         Advertise, Transfer, Hardware
<1>2. Stopped /\ pixels_remaining' = cap_size
  <2>1. pixels_remaining' = CapRdy
    BY <1>1 DEF Poll
  <2> QED
    BY <2>1 DEF CapRdy
<1>3. /\ cap_size \in Nat /\ dma.done \in Nat
  BY StreamAssumption DEF HardwareInv, TypeInv, StreamType
<1>4. CASE lost
  <2>1. dma.done < cap_size /\ cap_buf[dma.done] = Fill
    BY <1>2, <1>4, TakenIsComplete
  <2>2. dma.done \in 0 .. pixels_remaining'-1
    BY <1>2, <1>3, <2>1
  <2> QED
    BY <1>4, <2>1, <2>2
<1>5. CASE ~lost
  BY <1>2, <1>5, TakenIsComplete
<1> QED
  BY <1>4, <1>5

\* "if (CSR_PEEKF(... CAP_STOP) && !XAxiDma_Busy(...)": what cap_rdy reports is
\* the whole of the last capture, in order, or one that shows what it lost.
\* Clients need not be polite for it.
THEOREM ReadyMeansComplete == Spec => [][ReadyIsComplete]_vars
<1>1. HardwareInv /\ [Next]_vars => [ReadyIsComplete]_vars
  BY PollIsComplete
<1> QED
  BY <1>1, StreamInvariant, PTL DEF Spec

------------------------------------------------------------------------------
(* Polite clients: what a step that serves the same ones keeps.            *)

\* What most steps leave alone of who is there.
LEMMA PeopleSame ==
  ASSUME PeopleInv,
         \A c \in Clients : client'[c].state = client[c].state /\ client'[c].i = client[c].i,
         \A s \in Pcbs : /\ pcb'[s].client = pcb[s].client /\ pcb'[s].fin = pcb[s].fin
                         /\ pcb'[s].get => pcb[s].get
                         /\ pcb[s] = Free => pcb'[s] = Free,
         \A c \in Clients : \/ got'[c] = got[c]
                            \/ Is(c, "receiving") /\ \A s \in Pcbs : pcb[s].client = c => ~pcb'[s].get
  PROVE  PeopleInv'
<1>1. \A c \in Clients : Here(c)' <=> Here(c)
  BY DEF Here, Present, Gone, Is
<1>2. \A s \in Pcbs : Linked(s)' <=> Linked(s)
  BY DEF Linked
<1>3. OneAtATime'
  BY <1>1, <1>2 DEF PeopleInv, OneAtATime
<1>4. ASSUME NEW s \in Pcbs, ~Linked(s)' PROVE pcb'[s] = Free
  BY <1>2, <1>4 DEF PeopleInv, LinkInv
<1>5. ASSUME NEW s \in Pcbs, NEW c \in Clients, pcb'[s].client = c
      PROVE  /\ client'[c].state \in {"connected", "receiving", "gone"}
             /\ pcb'[s].fin <=> client'[c].state = "gone"
             /\ pcb'[s].get => client'[c].state = "receiving" /\ got'[c] = <<>>
  <2>1. /\ client[c].state \in {"connected", "receiving", "gone"}
        /\ pcb[s].fin <=> client[c].state = "gone"
        /\ pcb[s].get => client[c].state = "receiving" /\ got[c] = <<>>
    BY <1>5 DEF PeopleInv, LinkInv, Is
  <2> QED
    BY <1>5, <2>1
<1>6. LinkInv'
  BY <1>4, <1>5 DEF LinkInv, Is
<1>7. WaitInv'
  BY DEF PeopleInv, WaitInv, Is
<1> QED
  BY <1>3, <1>6, <1>7 DEF PeopleInv

\* What a step that serves the same blocks leaves alone.
LEMMA TransferSame ==
  ASSUME TransferInv, UNCHANGED stream, UNCHANGED server, UNCHANGED <<mine, got>>,
         \A c \in Clients : client'[c].n = client[c].n,
         \A s \in Pcbs : /\ pcb'[s].flight = pcb[s].flight
                         /\ Serving(s)' <=> Serving(s)
                         /\ Serving(s) => pcb'[s].client = pcb[s].client
  PROVE  TransferInv'
<1>1. UNCHANGED streamVars /\ UNCHANGED <<tcp_pcb_tx, pixels_remaining, pixels_sent>>
  BY SameStream DEF server
<1>2. ASSUME NEW s \in Pcbs, NEW c \in Clients, Moving(s, c) PROVE Moving(s, c)'
  BY <1>1, <1>2 DEF Moving, streamVars
<1>3. ASSUME NEW s \in Pcbs, NEW c \in Clients, Serving(s)', pcb'[s].client = c PROVE Moving(s, c)'
  <2>1. Serving(s) /\ pcb[s].client = c
    BY <1>3
  <2> QED
    BY <1>2, <2>1 DEF TransferInv
<1>4. (\A s \in Pcbs : ~Serving(s)') => cap_en' = 0 /\ pixels_remaining' = 0
  BY <1>1 DEF TransferInv, streamVars
<1>5. \A s \in Pcbs : ~Serving(s)' => pcb'[s].flight = <<>>
  BY DEF TransferInv
<1> QED
  BY <1>3, <1>4, <1>5 DEF TransferInv

\* What everyone has received stays its own: nothing new is received or
\* captured, or the capture loses words.
LEMMA OwnSame ==
  ASSUME OwnInv, UNCHANGED <<mine, got, capture>>, lost => lost',
         \A c \in Clients : client'[c].n = client[c].n /\ mine[c] \in Nat /\ got[c] \in Seq(Pixel)
  PROVE  OwnInv'
<1>1. ASSUME NEW c \in Clients, NEW k \in 1 .. Len(got[c]), NEW x, x = got[c][k] PROVE Own(c, k, x)'
  <2>1. Own(c, k, x)
    BY <1>1 DEF OwnInv
  <2>2. mine[c] \in Nat /\ k \in Nat
    OBVIOUS
  <2>3. x = <<mine[c], k-1>> => x[1] = mine[c] /\ x[2] >= k-1
    BY <2>2
  <2>4. x = Fill \/ (x[1] = mine[c] /\ x[2] >= k-1)
    BY <2>1, <2>3 DEF Own
  <2>5. ~(lost' \/ mine[c] # capture) => x = <<mine[c], k-1>>
    BY <2>1 DEF Own
  <2> QED
    BY <2>4, <2>5 DEF Own
<1>2. ASSUME NEW c \in Clients, NEW k \in 1 .. Len(got[c]) PROVE Own(c, k, got[c][k])'
  <2>1. PICK x : x = got[c][k]
    OBVIOUS
  <2>2. Own(c, k, x)'
    BY <1>1, <2>1
  <2>3. got'[c][k] = x
    BY <2>1
  <2> QED
    BY <2>2, <2>3
<1> QED
  BY <1>2 DEF OwnInv

\* Whoever receives is served; a request that has not been read has nothing.
LEMMA OnlyOneServed ==
  ASSUME PeopleInv, TransferInv, NEW s \in Pcbs, NEW t \in Pcbs
  PROVE  /\ Linked(s) /\ Linked(t) => s = t
         /\ Serving(s) => Linked(s) /\ ~pcb[s].get /\ ~pcb[s].fin
         /\ pcb[s].flight # <<>> => Serving(s)
         /\ pcb[s].get => (\A r \in Pcbs : ~Serving(r)) /\ cap_en = 0 /\ pixels_remaining = 0
<1>1. Linked(s) /\ Linked(t) => s = t
  BY DEF PeopleInv, OneAtATime
<1>2. Serving(s) => Linked(s) /\ ~pcb[s].get /\ ~pcb[s].fin
  BY DEF Serving
<1>3. pcb[s].flight # <<>> => Serving(s)
  BY DEF TransferInv
<1>4. ASSUME pcb[s].get PROVE (\A r \in Pcbs : ~Serving(r)) /\ cap_en = 0 /\ pixels_remaining = 0
  <2>1. Linked(s)
    BY <1>4 DEF PeopleInv, LinkInv, Free
  <2>2. ASSUME NEW r \in Pcbs, Serving(r) PROVE FALSE
    <3>1. r = s
      BY <2>1, <2>2 DEF PeopleInv, OneAtATime, Serving
    <3> QED
      BY <1>4, <2>2, <3>1 DEF Serving
  <2> QED
    BY <2>2 DEF TransferInv
<1> QED
  BY <1>1, <1>2, <1>3, <1>4

------------------------------------------------------------------------------
(* Who is there.                                                           *)

LEMMA BlockOpens ==
  ASSUME NEW b, NEW c, b = Rec(c, FALSE, FALSE, <<>>)
  PROVE  b.client = c /\ b.get = FALSE /\ b.fin = FALSE /\ b.flight = <<>>
BY DEF Rec
LEMMA BeginPeople ==
  ASSUME Polite = TRUE, TypeInv, PeopleInv, NEW c \in Clients, Begin(c)
  PROVE  PeopleInv' /\ (\A s \in Pcbs : ~Linked(s))
<1>1. Is(c, "new") /\ Becomes(c, "listening") /\ UNCHANGED <<pcb, got>>
  BY DEF Begin
<1>2. \A d \in Clients : ~Present(d) /\ \A s \in Pcbs : pcb[s].client # d
  BY DEF Begin
<1>3. /\ \A d \in Clients : d # c => client'[d] = client[d]
      /\ client'[c].state = "listening" /\ client'[c].i = client[c].i
  BY <1>1, BecomesFields DEF TypeInv
<1>4. \A s \in Pcbs : ~Linked(s)
  BY <1>2, BlockFields DEF Linked, TypeInv
<1>5. \A d \in Clients : Here(d)' => d = c
  <2>1. ASSUME NEW d \in Clients, d # c PROVE ~Here(d)'
    <3>1. ~Present(d)'
      BY <1>2, <1>3, <2>1 DEF Present, Gone, Is
    <3> QED
      BY <1>1, <1>2, <3>1 DEF Here
  <2> QED
    BY <2>1
<1>6. OneAtATime'
  BY <1>1, <1>4, <1>5 DEF OneAtATime, Linked
<1>7. LinkInv'
  <2>1. \A s \in Pcbs : ~Linked(s)' => pcb'[s] = Free
    BY <1>1 DEF PeopleInv, LinkInv, Linked
  <2> QED
    BY <1>1, <1>2, <2>1 DEF LinkInv
<1>8. WaitInv'
  BY <1>1, <1>3 DEF PeopleInv, WaitInv, Is
<1> QED
  BY <1>4, <1>6, <1>7, <1>8 DEF PeopleInv

LEMMA HearPeople ==
  ASSUME TypeInv, PeopleInv, NEW c \in Clients, Is(c, "listening"), Becomes(c, "connecting"), UNCHANGED <<pcb, got>>
  PROVE  PeopleInv' /\ (\A s \in Pcbs : pcb[s].client # c)
<1>1. /\ \A d \in Clients : d # c => client'[d] = client[d]
      /\ client'[c].state = "connecting" /\ client'[c].i = client[c].i /\ client[c].state = "listening"
  BY BecomesFields DEF TypeInv, Is
<1>2. \A s \in Pcbs : pcb[s].client # c
  BY <1>1 DEF PeopleInv, LinkInv
<1>3. \A d \in Clients : Here(d)' => Here(d)
  BY <1>1 DEF Here, Present, Gone, Is
<1>4. OneAtATime'
  BY <1>3 DEF PeopleInv, OneAtATime, Linked
<1>5. LinkInv'
  <2>1. \A s \in Pcbs : ~Linked(s)' => pcb'[s] = Free
    BY DEF PeopleInv, LinkInv, Linked
  <2>2. ASSUME NEW s \in Pcbs, NEW d \in Clients, pcb[s].client = d
        PROVE  /\ client'[d].state \in {"connected", "receiving", "gone"}
               /\ pcb[s].fin <=> client'[d].state = "gone"
               /\ pcb[s].get => client'[d].state = "receiving" /\ got[d] = <<>>
    <3>1. client'[d] = client[d]
      BY <1>1, <1>2, <2>2
    <3> QED
      BY <2>2, <3>1 DEF PeopleInv, LinkInv, Is
  <2> QED
    BY <2>1, <2>2 DEF LinkInv, Is
<1>6. WaitInv'
  BY <1>1 DEF PeopleInv, WaitInv, Is
<1> QED
  BY <1>2, <1>4, <1>5, <1>6 DEF PeopleInv

LEMMA ConnectPeople ==
  ASSUME TypeInv, PeopleInv, NEW c \in Clients, Connect(c)
  PROVE  PeopleInv' /\ (\A s \in Pcbs : ~Linked(s))
<1>1. Is(c, "connecting") /\ Becomes(c, "connected") /\ UNCHANGED got
  BY DEF Connect
<1>2. /\ \A d \in Clients : d # c => client'[d] = client[d]
      /\ client'[c].state = "connected" /\ client'[c].i = client[c].i /\ client[c].state = "connecting"
  BY <1>1, BecomesFields DEF TypeInv, Is
<1>3. Here(c)
  BY <1>2 DEF Here, Present, Gone, Is
<1>4. ASSUME NEW t \in Pcbs, Linked(t) PROVE FALSE
  <2>1. PICK d \in Clients : pcb[t].client = d
    BY <1>4, BlockFields DEF Linked, TypeInv
  <2>2. d = c
    BY <1>3, <2>1 DEF Here, PeopleInv, OneAtATime
  <2> QED
    BY <1>2, <2>1, <2>2 DEF PeopleInv, LinkInv
<1>5. PICK s \in Pcbs : pcb'[s] = Rec(c, FALSE, FALSE, <<>>) /\ Others(s)
  BY ConnectBlocks DEF TypeInv
<1>6. pcb'[s].client = c /\ pcb'[s].get = FALSE /\ pcb'[s].fin = FALSE
  BY <1>5, BlockOpens
<1>7. ASSUME NEW t \in Pcbs, t # s PROVE pcb'[t] = Free
  BY <1>4, <1>5, <1>7 DEF Others, PeopleInv, LinkInv
<1>8. c # None /\ Free.client = None /\ None \notin Clients
  BY SessionAssumption DEF Free
<1>9. \A d \in Clients : Here(d)' => d = c
  <2>1. ASSUME NEW d \in Clients, d # c PROVE ~Here(d)'
    <3>1. ~Here(d)
      BY <1>3, <2>1 DEF PeopleInv, OneAtATime
    <3>2. ~Present(d)'
      BY <1>2, <2>1, <3>1 DEF Here, Present, Gone, Is
    <3>3. \A t \in Pcbs : pcb'[t].client # d
      BY <1>6, <1>7, <1>8, <2>1
    <3> QED
      BY <3>2, <3>3 DEF Here
  <2> QED
    BY <2>1
<1>10. \A t \in Pcbs : Linked(t)' => t = s
  BY <1>7, <1>8 DEF Linked
<1>11. OneAtATime'
  BY <1>9, <1>10 DEF OneAtATime
<1>12. LinkInv'
  <2>1. \A t \in Pcbs : ~Linked(t)' => pcb'[t] = Free
    BY <1>6, <1>7, <1>8 DEF Linked
  <2>2. ASSUME NEW t \in Pcbs, NEW d \in Clients, pcb'[t].client = d
        PROVE  /\ client'[d].state \in {"connected", "receiving", "gone"}
               /\ pcb'[t].fin <=> client'[d].state = "gone"
               /\ pcb'[t].get => client'[d].state = "receiving" /\ got'[d] = <<>>
    <3>1. t = s /\ d = c
      BY <1>6, <1>7, <1>8, <2>2
    <3> QED
      BY <1>2, <1>6, <3>1
  <2> QED
    BY <2>1, <2>2 DEF LinkInv, Is
<1>13. WaitInv'
  BY <1>1, <1>2 DEF PeopleInv, WaitInv, Is
<1> QED
  BY <1>4, <1>11, <1>12, <1>13 DEF PeopleInv

LEMMA RequestPeople ==
  ASSUME TypeInv, PeopleInv, NEW c \in Clients, Request(c)
  PROVE  /\ PeopleInv' /\ client[c].state = "connected" /\ client'[c].state = "receiving"
         /\ \A d \in Clients : d # c => client'[d] = client[d]
         /\ \A s \in Pcbs : /\ pcb'[s].client = pcb[s].client /\ pcb'[s].fin = pcb[s].fin
                            /\ pcb'[s].flight = pcb[s].flight
                            /\ pcb[s].client = c => pcb'[s].get = TRUE
                            /\ pcb[s].client # c => pcb'[s] = pcb[s]
<1>1. Is(c, "connected") /\ Becomes(c, "receiving") /\ UNCHANGED got
  BY DEF Request
<1>2. /\ \A d \in Clients : d # c => client'[d] = client[d]
      /\ client'[c].state = "receiving" /\ client'[c].i = client[c].i /\ client[c].state = "connected"
  BY <1>1, BecomesFields DEF TypeInv, Is
<1>3. ASSUME NEW s \in Pcbs
      PROVE  /\ pcb'[s].client = pcb[s].client /\ pcb'[s].fin = pcb[s].fin
             /\ pcb'[s].flight = pcb[s].flight
             /\ pcb[s].client = c => pcb'[s].get = TRUE
             /\ pcb[s].client # c => pcb'[s] = pcb[s]
  <2>1. pcb'[s] = IF pcb[s].client = c THEN Rec(c, TRUE, pcb[s].fin, pcb[s].flight) ELSE pcb[s]
    BY RequestBlocks DEF TypeInv
  <2>2. CASE pcb[s].client = c
    <3>1. pcb'[s] = Rec(c, TRUE, pcb[s].fin, pcb[s].flight)
      BY <2>1, <2>2
    <3> HIDE DEF Rec
    <3>2. pcb'[s].client = c /\ pcb'[s].get = TRUE /\ pcb'[s].fin = pcb[s].fin /\ pcb'[s].flight = pcb[s].flight
      BY <3>1 DEF Rec
    <3> QED
      BY <2>2, <3>2
  <2>3. CASE pcb[s].client # c
    BY <2>1, <2>3
  <2> QED
    BY <2>2, <2>3
<1>4. \A d \in Clients : Here(d)' <=> Here(d)
  BY <1>2, <1>3 DEF Here, Present, Gone, Is
<1>5. OneAtATime'
  BY <1>3, <1>4 DEF PeopleInv, OneAtATime, Linked
<1>6. got[c] = <<>>
  BY <1>2 DEF PeopleInv, WaitInv, Is
<1>7. LinkInv'
  <2>1. ASSUME NEW s \in Pcbs, ~Linked(s)' PROVE pcb'[s] = Free
    <3>1. pcb[s].client = None /\ None # c
      BY <1>3, <2>1, SessionAssumption DEF Linked
    <3> QED
      BY <1>3, <3>1 DEF PeopleInv, LinkInv, Linked
  <2>2. ASSUME NEW s \in Pcbs, NEW d \in Clients, pcb'[s].client = d
        PROVE  /\ client'[d].state \in {"connected", "receiving", "gone"}
               /\ pcb'[s].fin <=> client'[d].state = "gone"
               /\ pcb'[s].get => client'[d].state = "receiving" /\ got'[d] = <<>>
    <3>1. /\ client[d].state \in {"connected", "receiving", "gone"}
          /\ pcb[s].fin <=> client[d].state = "gone"
          /\ pcb[s].get => client[d].state = "receiving" /\ got[d] = <<>>
      BY <1>3, <2>2 DEF PeopleInv, LinkInv, Is
    <3>2. CASE d = c
      BY <1>1, <1>2, <1>3, <1>6, <3>1, <3>2
    <3>3. CASE d # c
      BY <1>1, <1>2, <1>3, <2>2, <3>1, <3>3
    <3> QED
      BY <3>2, <3>3
  <2> QED
    BY <2>1, <2>2 DEF LinkInv, Is
<1>8. WaitInv'
  BY <1>1, <1>2 DEF PeopleInv, WaitInv, Is
<1> QED
  BY <1>2, <1>3, <1>5, <1>7, <1>8 DEF PeopleInv

LEMMA LeavePeople ==
  ASSUME Polite = TRUE, TypeInv, PeopleInv, NEW c \in Clients, Leave(c)
  PROVE  /\ PeopleInv' /\ Is(c, "receiving") /\ Served(c) /\ client'[c].state = "gone"
         /\ \A d \in Clients : d # c => client'[d] = client[d]
         /\ \A s \in Pcbs : IF pcb[s].client = c
                            THEN pcb'[s] = Rec(c, pcb[s].get, TRUE, <<>>) /\ ~pcb[s].get
                            ELSE pcb'[s] = pcb[s]
<1>1. Is(c, "receiving") /\ Served(c) /\ Becomes(c, "gone") /\ UNCHANGED got
  BY DEF Leave
<1>2. /\ \A d \in Clients : d # c => client'[d] = client[d]
      /\ client'[c].state = "gone" /\ client'[c].i = client[c].i /\ client[c].state = "receiving"
  BY <1>1, BecomesFields DEF TypeInv, Is
<1>3. got[c] # <<>>
  <2>1. client[c].n \in 1 .. MaxPixels /\ MaxPixels \in Nat
    BY ClientFields, StreamAssumption DEF TypeInv
  <2>2. Len(got[c]) # 0
    BY <1>1, <2>1 DEF Served
  <2>3. Len(<<>>) = 0
    OBVIOUS
  <2> QED
    BY <2>2, <2>3
<1>4. ASSUME NEW s \in Pcbs
      PROVE  IF pcb[s].client = c THEN pcb'[s] = Rec(c, pcb[s].get, TRUE, <<>>) /\ ~pcb[s].get
             ELSE pcb'[s] = pcb[s]
  <2>1. pcb'[s] = IF pcb[s].client = c THEN Rec(c, pcb[s].get, TRUE, <<>>) ELSE pcb[s]
    BY LeaveBlocks DEF TypeInv
  <2>2. pcb[s].client = c => ~pcb[s].get
    BY <1>3 DEF PeopleInv, LinkInv
  <2> HIDE DEF Rec
  <2> QED
    BY <2>1, <2>2
<1>5. ASSUME NEW s \in Pcbs
      PROVE  /\ pcb'[s].client = pcb[s].client /\ (pcb'[s].get => pcb[s].get)
             /\ pcb[s].client = c => pcb'[s].fin = TRUE /\ ~pcb'[s].get
  <2>1. CASE pcb[s].client = c
    <3>1. pcb'[s] = Rec(c, pcb[s].get, TRUE, <<>>) /\ ~pcb[s].get
      BY <1>4, <2>1
    <3> HIDE DEF Rec
    <3>2. pcb'[s].client = c /\ pcb'[s].get = pcb[s].get /\ pcb'[s].fin = TRUE
      BY <3>1 DEF Rec
    <3> QED
      BY <2>1, <3>1, <3>2
  <2>2. CASE pcb[s].client # c
    BY <1>4, <2>2
  <2> QED
    BY <2>1, <2>2
<1>6. \A d \in Clients : Here(d)' => Here(d)
  BY <1>2, <1>5 DEF Here, Present, Gone, Is
<1>7. OneAtATime'
  BY <1>5, <1>6 DEF PeopleInv, OneAtATime, Linked
<1>8. LinkInv'
  <2>1. ASSUME NEW s \in Pcbs, ~Linked(s)' PROVE pcb'[s] = Free
    <3>1. pcb[s].client = None /\ None # c
      BY <1>5, <2>1, SessionAssumption DEF Linked
    <3>2. pcb[s] = Free
      BY <3>1 DEF PeopleInv, LinkInv, Linked
    <3> QED
      BY <1>4, <3>1, <3>2
  <2>2. ASSUME NEW s \in Pcbs, NEW d \in Clients, pcb'[s].client = d
        PROVE  /\ client'[d].state \in {"connected", "receiving", "gone"}
               /\ pcb'[s].fin <=> client'[d].state = "gone"
               /\ pcb'[s].get => client'[d].state = "receiving" /\ got'[d] = <<>>
    <3>2. CASE d = c
      BY <1>2, <1>5, <2>2, <3>2
    <3>3. CASE d # c
      <4>1. pcb[s].client = d
        BY <1>5, <2>2
      <4>2. pcb'[s] = pcb[s] /\ client'[d] = client[d] /\ got'[d] = got[d]
        BY <1>1, <1>2, <1>4, <3>3, <4>1
      <4> QED
        BY <4>1, <4>2 DEF PeopleInv, LinkInv, Is
    <3> QED
      BY <3>2, <3>3
  <2> QED
    BY <2>1, <2>2 DEF LinkInv, Is
<1>9. WaitInv'
  BY <1>1, <1>2 DEF PeopleInv, WaitInv, Is
<1> QED
  BY <1>1, <1>2, <1>4, <1>7, <1>8, <1>9 DEF PeopleInv

LEMMA ServeClosePeople ==
  ASSUME TypeInv, PeopleInv, NEW s \in Pcbs, ServeClose(s)
  PROVE  PeopleInv' /\ pcb'[s] = Free /\ Others(s) /\ ~Serving(s)
<1>1. pcb'[s] = Free /\ Others(s) /\ pcb[s].fin /\ ~pcb[s].get
  BY ServeCloseBlocks DEF TypeInv
<1>2. UNCHANGED <<client, got>>
  BY DEF ServeClose, people
<1>3. Free.client = None /\ None \notin Clients
  BY SessionAssumption DEF Free
<1>4. ~Linked(s)' /\ (\A t \in Pcbs : Linked(t)' => Linked(t))
  BY <1>1, <1>3 DEF Linked, Others
<1>5. ASSUME NEW t \in Pcbs, NEW d \in Clients, pcb'[t].client = d PROVE pcb'[t] = pcb[t]
  BY <1>1, <1>3, <1>5 DEF Others
<1>6. \A d \in Clients : Here(d)' => Here(d)
  BY <1>2, <1>5 DEF Here, Present, Gone, Is
<1>7. OneAtATime'
  BY <1>4, <1>6 DEF PeopleInv, OneAtATime
<1>8. LinkInv'
  <2>1. \A t \in Pcbs : ~Linked(t)' => pcb'[t] = Free
    BY <1>1 DEF PeopleInv, LinkInv, Linked, Others
  <2> QED
    BY <1>2, <1>5, <2>1 DEF PeopleInv, LinkInv, Is
<1>9. WaitInv'
  BY <1>2 DEF PeopleInv, WaitInv, Is
<1>10. ~Serving(s)
  BY <1>1 DEF Serving
<1> QED
  BY <1>1, <1>7, <1>8, <1>9, <1>10 DEF PeopleInv

------------------------------------------------------------------------------
(* The request, and the pixels it brings.                                  *)

LEMMA ServeGetSession ==
  ASSUME HardwareInv, SessionInv, NEW s \in Pcbs, ServeGet(s) PROVE SessionInv'
<1>1. TypeInv /\ ServerType /\ PeopleType /\ PeopleInv /\ TransferInv /\ OwnInv
  BY DEF HardwareInv, TypeInv, SessionInv
<1>2. PICK c \in Clients : c = pcb[s].client
  BY <1>1, ServeGetBlocks
<1>3. pcb[s].get
  BY DEF ServeGet
<1>4. (\A r \in Pcbs : ~Serving(r)) /\ cap_en = 0 /\ pixels_remaining = 0
  BY <1>1, <1>3, OnlyOneServed
<1>5. \A r \in Pcbs : pcb[r].flight = <<>>
  BY <1>1, <1>4 DEF TransferInv
<1>6. client[c].state = "receiving" /\ got[c] = <<>> /\ ~pcb[s].fin /\ Linked(s)
  <2>1. /\ pcb[s].fin <=> client[c].state = "gone"
        /\ client[c].state = "receiving" /\ got[c] = <<>>
    BY <1>1, <1>2, <1>3 DEF PeopleInv, LinkInv, Is
  <2> QED
    BY <1>2, <2>1, SessionAssumption DEF Linked
<1>7. /\ tcp_pcb_tx' = s /\ CapStart(client[c].n)
      /\ mine' = [mine EXCEPT ![c] = capture + 1]
      /\ UNCHANGED <<pixels_remaining, pixels_sent, client, got>>
  BY <1>2 DEF ServeGet
<1>8. cap_size' = client[c].n /\ cap_en' = 1 /\ capture' = capture + 1
  BY <1>7 DEF CapStart
<1>9. pcb'[s].client = c /\ pcb'[s].get = FALSE /\ pcb'[s].fin = pcb[s].fin /\ pcb'[s].flight = pcb[s].flight /\ Others(s)
  <2>1. pcb'[s] = Rec(pcb[s].client, FALSE, pcb[s].fin, pcb[s].flight) /\ Others(s)
    BY <1>1, ServeGetBlocks
  <2> QED
    BY <1>2, <2>1 DEF Rec
<1>10. PeopleInv'
  <2>1. ASSUME NEW t \in Pcbs
        PROVE  /\ pcb'[t].client = pcb[t].client /\ pcb'[t].fin = pcb[t].fin
               /\ pcb'[t].get => pcb[t].get
               /\ pcb[t] = Free => pcb'[t] = Free
    <3>1. CASE t = s
      <4>1. pcb[s] # Free
        BY <1>3 DEF Free
      <4> QED
        BY <1>2, <1>9, <3>1, <4>1
    <3>2. CASE t # s
      BY <1>9, <3>2 DEF Others
    <3> QED
      BY <3>1, <3>2
  <2> QED
    BY <1>1, <1>7, <2>1, PeopleSame
<1>11. capture \in Nat /\ (\A d \in Clients : mine[d] \in Nat /\ mine'[d] = IF d = c THEN capture + 1 ELSE mine[d])
  <2>1. capture \in Nat
    BY DEF HardwareInv, TypeInv, StreamType
  <2> QED
    BY <1>1, <1>7, <2>1 DEF PeopleType
<1>12. Serving(s)'
  BY <1>6, <1>7, <1>9, <1>2 DEF Serving, Linked, Is
<1>13. ASSUME NEW t \in Pcbs, Serving(t)' PROVE t = s
  <2>1. CASE t # s
    <3>1. pcb'[t] = pcb[t]
      BY <1>9, <2>1 DEF Others
    <3>2. Linked(t)
      BY <1>13, <3>1 DEF Serving, Linked
    <3> QED
      BY <1>1, <1>6, <3>2 DEF PeopleInv, OneAtATime
  <2> QED
    BY <2>1
<1>14. Moving(s, c)'
  BY <1>4, <1>5, <1>6, <1>7, <1>8, <1>9, <1>11 DEF Moving
<1>15. TransferInv'
  <2>1. \A t \in Pcbs : pcb'[t].flight = <<>>
    BY <1>5, <1>9 DEF Others
  <2>2. ASSUME NEW t \in Pcbs, NEW d \in Clients, Serving(t)', pcb'[t].client = d PROVE Moving(t, d)'
    <3>1. t = s /\ d = c
      BY <1>9, <1>13, <2>2
    <3> QED
      BY <1>14, <3>1
  <2> QED
    BY <1>12, <2>1, <2>2 DEF TransferInv
<1>16. OwnInv'
  <2>1. ASSUME NEW d \in Clients PROVE mine'[d] <= capture' /\ Len(got'[d]) <= client'[d].n
    BY <1>1, <1>7, <1>8, <1>11 DEF OwnInv
  <2>2. ASSUME NEW d \in Clients, NEW k \in 1 .. Len(got[d]), NEW x, x = got[d][k] PROVE Own(d, k, x)'
    <3>1. d # c
      <4>1. Len(<<>>) = 0
        OBVIOUS
      <4> QED
        BY <1>6, <2>2, <4>1
    <3>2. mine'[d] = mine[d] /\ mine[d] <= capture /\ mine[d] \in Nat /\ k \in Nat
      BY <1>1, <1>11, <3>1 DEF OwnInv
    <3>3. mine'[d] # capture'
      BY <1>8, <1>11, <3>2
    <3>4. Own(d, k, x)
      BY <1>1, <2>2 DEF OwnInv
    <3>5. x = <<mine[d], k-1>> => x[1] = mine[d] /\ x[2] >= k-1
      BY <3>2
    <3>6. x = Fill \/ (x[1] = mine[d] /\ x[2] >= k-1)
      BY <3>4, <3>5 DEF Own
    <3> QED
      BY <3>2, <3>3, <3>6 DEF Own
  <2>3. ASSUME NEW d \in Clients, NEW k \in 1 .. Len(got[d]) PROVE Own(d, k, got[d][k])'
    <3>1. PICK x : x = got[d][k]
      OBVIOUS
    <3>2. Own(d, k, x)'
      BY <2>2, <3>1
    <3>3. got'[d][k] = x
      BY <1>7, <3>1
    <3> QED
      BY <3>2, <3>3
  <2> QED
    BY <1>7, <2>1, <2>3 DEF OwnInv
<1> QED
  BY <1>10, <1>15, <1>16 DEF SessionInv

\* The pixel a client receives next is that of its place, in the capture made for it.
LEMMA NextReceived ==
  ASSUME HardwareInv, SessionInv, NEW s \in Pcbs, NEW c \in Clients, pcb[s].client = c, pcb[s].flight # <<>>
  PROVE  /\ Serving(s) /\ Moving(s, c) /\ cap_en = 0 /\ dma.idle
         /\ Head(pcb[s].flight) = Len(got[c]) /\ Len(got[c]) + 1 <= client[c].n
         /\ Len(got[c]) \in Nat
         /\ Own(c, Len(got[c]) + 1, cap_buf[Len(got[c])])
<1>1. TypeInv /\ StreamType /\ ServerType /\ PeopleType /\ PeopleInv /\ TransferInv /\ OwnInv /\ BufferInv /\ EnableInv
  BY DEF HardwareInv, TypeInv, SessionInv, StreamInv
<1>2. Serving(s) /\ Moving(s, c)
  BY <1>1 DEF TransferInv
<1>3. cap_en = 0
  <2>1. cap_en \in {0, 1}
    BY <1>1 DEF StreamType
  <2> QED
    BY <1>2, <2>1 DEF Moving
<1> DEFINE fl == pcb[s].flight
<1>4. fl \in Seq(0 .. MaxPixels-1) /\ Len(fl) \in Nat \ {0} /\ fl # <<>>
  <2>1. fl \in Seq(0 .. MaxPixels-1)
    BY <1>1, BlockFields
  <2> QED
    BY <2>1, EmptySeq
<1>5. PICK m \in Nat : m = Len(got[c])
  <2>1. got[c] \in Seq(Pixel)
    BY <1>1, ClientFields
  <2> QED
    BY <2>1
<1>6. /\ dma.idle /\ mine[c] = capture /\ cap_size = client[c].n
      /\ m + Len(fl) + pixels_remaining = client[c].n
      /\ \A j \in 1 .. Len(fl) : fl[j] = m + j - 1
  BY <1>2, <1>3, <1>5 DEF Moving
<1>7. Head(fl) = m
  <2> HIDE DEF fl
  <2>1. fl[1] = m + 1 - 1
    BY <1>4, <1>6
  <2> QED
    BY <1>4, <1>5, <2>1
<1>8. pixels_remaining \in Nat /\ client[c].n \in 1 .. MaxPixels /\ MaxPixels \in Nat /\ dma.done \in Nat
  BY <1>1, ClientFields, StreamAssumption DEF ServerType, StreamType
<1>9. m + 1 <= client[c].n /\ m \in 0 .. MaxPixels-1 /\ m < dma.length
  <2>1. m < client[c].n
    <3> HIDE DEF fl
    <3>1. Len(fl) >= 1 /\ client[c].n \in Nat
      BY <1>4, <1>8
    <3> QED
      BY <1>4, <1>5, <1>6, <1>8, <3>1
  <2> QED
    BY <1>1, <1>5, <1>6, <1>8, <2>1 DEF EnableInv
<1>10. /\ ~lost => cap_buf[m] = <<capture, m>>
       /\ lost => cap_buf[m] = Fill \/ (cap_buf[m][1] = capture /\ cap_buf[m][2] >= m)
  <2>1. CASE lost
    BY <1>1, <1>8, <1>9, <2>1 DEF BufferInv
  <2>2. CASE ~lost
    <3>1. m < dma.done
      BY <1>1, <1>6, <1>9, <2>2 DEF BufferInv
    <3>2. cap_buf[m][1] = capture /\ cap_buf[m][2] = m
      BY <1>1, <1>9, <2>2, <3>1 DEF BufferInv
    <3>3. cap_buf[m] \in Nat \X Nat
      BY <1>1, <1>9 DEF StreamType, Pixel
    <3> QED
      BY <2>2, <3>2, <3>3
  <2> QED
    BY <2>1, <2>2
<1>11. Own(c, m + 1, cap_buf[m])
  <2>1. (m + 1) - 1 = m
    OBVIOUS
  <2> QED
    BY <1>6, <1>10, <2>1 DEF Own
<1> QED
  BY <1>2, <1>3, <1>5, <1>6, <1>7, <1>9, <1>11

LEMMA ReceiveSession ==
  ASSUME HardwareInv, SessionInv, NEW c \in Clients, Receive(c) PROVE SessionInv'
<1>1. TypeInv /\ StreamType /\ ServerType /\ PeopleType /\ PeopleInv /\ TransferInv /\ OwnInv
  BY DEF HardwareInv, TypeInv, SessionInv
<1>2. PICK s \in Pcbs :
           /\ pcb[s].client = c /\ pcb[s].flight # <<>>
           /\ got' = [got EXCEPT ![c] = Append(@, cap_buf[Head(pcb[s].flight)])]
           /\ pcb'[s] = Rec(c, pcb[s].get, pcb[s].fin, Tail(pcb[s].flight)) /\ Others(s)
  BY <1>1, ReceiveBlocks
<1>3. PICK m : m = Len(got[c])
  OBVIOUS
<1>4. PICK x : x = cap_buf[m]
  OBVIOUS
<1>5. PICK fl : fl = pcb[s].flight
  OBVIOUS
<1>6. /\ Serving(s) /\ Moving(s, c) /\ cap_en = 0 /\ dma.idle /\ Head(fl) = m /\ m + 1 <= client[c].n
      /\ m \in Nat /\ Own(c, m + 1, x)
  BY <1>2, <1>3, <1>4, <1>5, NextReceived
<1>7. /\ fl \in Seq(0 .. MaxPixels-1) /\ Len(fl) \in Nat \ {0} /\ fl # <<>>
      /\ Tail(fl) \in Seq(0 .. MaxPixels-1) /\ Len(Tail(fl)) = Len(fl) - 1
      /\ \A j \in 1 .. Len(Tail(fl)) : Tail(fl)[j] = fl[j+1]
  <2>1. fl \in Seq(0 .. MaxPixels-1) /\ fl # <<>>
    BY <1>1, <1>2, <1>5, BlockFields
  <2> QED
    BY <2>1, EmptySeq, HeadTailProperties
<1>8. got[c] \in Seq(Pixel) /\ x \in Pixel
  <2>1. got[c] \in Seq(Pixel)
    BY <1>1, ClientFields
  <2>2. m \in 0 .. MaxPixels-1
    <3>1. client[c].n \in 1 .. MaxPixels /\ MaxPixels \in Nat
      BY <1>1, ClientFields, StreamAssumption
    <3> QED
      BY <1>6, <3>1
  <2>3. cap_buf[m] \in Pixel
    BY <1>1, <2>2 DEF StreamType
  <2> QED
    BY <1>4, <2>1, <2>3
<1>9. got' = [got EXCEPT ![c] = Append(got[c], x)]
  BY <1>2, <1>4, <1>5, <1>6
<1>10. /\ \A d \in Clients : d # c => got'[d] = got[d]
       /\ got'[c] = Append(got[c], x)
  BY <1>1, <1>9 DEF PeopleType
<1>11. /\ Len(got'[c]) = m + 1 /\ (\A k \in 1 .. m : got'[c][k] = got[c][k]) /\ got'[c][m+1] = x
  BY <1>3, <1>8, <1>10
<1>12. /\ \A d \in Clients : d # c => client'[d] = client[d]
       /\ client'[c].state = "receiving" /\ client'[c].n = client[c].n /\ client'[c].i = client[c].i
       /\ client[c].state = "receiving"
  <2>1. client[c].i = 0 /\ client[c].n \in 1 .. MaxPixels
    BY <1>1, ClientFields DEF PeopleInv, WaitInv
  <2>2. 0 < client[c].n
    BY <2>1
  <2>3. Becomes(c, "receiving") /\ Is(c, "receiving")
    BY <2>1, <2>2 DEF Receive
  <2> QED
    BY <1>1, <2>3, BecomesFields DEF Is
<1>13. /\ pcb'[s].client = pcb[s].client /\ pcb'[s].get = pcb[s].get /\ pcb'[s].fin = pcb[s].fin
       /\ pcb'[s].flight = Tail(fl)
  BY <1>2, <1>5, RecFields
<1>14. UNCHANGED stream /\ UNCHANGED <<tcp_pcb_tx, pixels_remaining, pixels_sent>> /\ UNCHANGED mine /\ UNCHANGED streamVars
  BY SameStream DEF Receive, server
<1>15. Linked(s) /\ ~pcb[s].get /\ ~pcb[s].fin
  BY <1>6 DEF Serving
<1>16. PeopleInv'
  <2>1. ASSUME NEW t \in Pcbs
        PROVE  /\ pcb'[t].client = pcb[t].client /\ pcb'[t].fin = pcb[t].fin
               /\ pcb'[t].get => pcb[t].get
               /\ pcb[t] = Free => pcb'[t] = Free
    <3>1. CASE t = s
      BY <1>2, <1>13, <3>1 DEF Free
    <3>2. CASE t # s
      BY <1>2, <3>2 DEF Others
    <3> QED
      BY <3>1, <3>2
  <2>2. \A t \in Pcbs : pcb[t].client = c => ~pcb'[t].get
    <3>1. ASSUME NEW t \in Pcbs, pcb[t].client = c PROVE t = s
      <4>1. Linked(t)
        BY <3>1, SessionAssumption DEF Linked
      <4> QED
        BY <1>1, <1>15, <4>1 DEF PeopleInv, OneAtATime
    <3> QED
      BY <1>13, <1>15, <3>1
  <2>3. \A d \in Clients : client'[d].state = client[d].state /\ client'[d].i = client[d].i
    BY <1>12
  <2>4. \A d \in Clients : \/ got'[d] = got[d]
                           \/ Is(d, "receiving") /\ \A t \in Pcbs : pcb[t].client = d => ~pcb'[t].get
    BY <1>10, <1>12, <2>2 DEF Is
  <2> QED
    BY <1>1, <2>1, <2>3, <2>4, PeopleSame
<1>17. Serving(s)' /\ (\A t \in Pcbs : Serving(t)' => t = s)
  <2>1. Serving(s)'
    BY <1>2, <1>12, <1>13, <1>15 DEF Serving, Linked, Is
  <2>2. ASSUME NEW t \in Pcbs, Serving(t)', t # s PROVE FALSE
    <3>1. Linked(t)
      BY <1>2, <2>2 DEF Serving, Linked, Others
    <3> QED
      BY <1>1, <1>15, <2>2, <3>1 DEF PeopleInv, OneAtATime
  <2> QED
    BY <2>1, <2>2
<1>18. Moving(s, c)'
  <2>1. /\ tcp_pcb_tx = s /\ mine[c] = capture /\ cap_size = client[c].n
        /\ m + Len(fl) + pixels_remaining = client[c].n
        /\ pixels_remaining # 0 => pixels_sent = client[c].n - pixels_remaining
        /\ \A j \in 1 .. Len(fl) : fl[j] = m + j - 1
    BY <1>3, <1>5, <1>6 DEF Moving
  <2>2. /\ tcp_pcb_tx' = s /\ mine'[c] = capture' /\ cap_size' = client'[c].n /\ cap_en' = 0 /\ dma'.idle
        /\ pixels_remaining' # 0 => pixels_sent' = client'[c].n - pixels_remaining'
    BY <1>6, <1>12, <1>14, <2>1 DEF streamVars
  <2>3. pixels_remaining \in Nat /\ client[c].n \in Nat
    <3>1. client[c].n \in 1 .. MaxPixels /\ MaxPixels \in Nat
      BY <1>1, ClientFields, StreamAssumption
    <3> QED
      BY <1>1, <3>1 DEF ServerType
  <2>4. (m + 1) + Len(Tail(fl)) + pixels_remaining' = client'[c].n
    BY <1>6, <1>7, <1>12, <1>14, <2>1, <2>3
  <2>5. ASSUME NEW j \in 1 .. Len(Tail(fl)) PROVE Tail(fl)[j] = (m + 1) + j - 1
    <3>1. j + 1 \in 1 .. Len(fl) /\ j \in Nat
      BY <1>7, <2>5
    <3>2. fl[j+1] = m + (j + 1) - 1
      BY <2>1, <3>1
    <3> QED
      BY <1>6, <1>7, <3>1, <3>2
  <2> QED
    BY <1>11, <1>13, <2>2, <2>4, <2>5 DEF Moving
<1>19. TransferInv'
  <2>1. ASSUME NEW t \in Pcbs, ~Serving(t)' PROVE pcb'[t].flight = <<>>
    <3>1. t # s
      BY <1>17, <2>1
    <3>2. pcb'[t] = pcb[t]
      BY <1>2, <3>1 DEF Others
    <3>3. ~Serving(t)
      BY <1>1, <1>15, <3>1 DEF PeopleInv, OneAtATime, Serving
    <3> QED
      BY <1>1, <3>2, <3>3 DEF TransferInv
  <2>2. ASSUME NEW t \in Pcbs, NEW d \in Clients, Serving(t)', pcb'[t].client = d PROVE Moving(t, d)'
    <3>1. t = s /\ d = c
      BY <1>2, <1>13, <1>17, <2>2
    <3> QED
      BY <1>18, <3>1
  <2> QED
    BY <1>17, <2>1, <2>2 DEF TransferInv
<1>20. OwnInv'
  <2>1. \A k, y : \A d \in Clients : Own(d, k, y)' <=> Own(d, k, y)
    BY <1>14 DEF Own, streamVars
  <2>2. ASSUME NEW d \in Clients
        PROVE  /\ mine'[d] <= capture' /\ Len(got'[d]) <= client'[d].n
               /\ \A k \in 1 .. Len(got'[d]) : Own(d, k, got'[d][k])
    <3>1. /\ mine[d] <= capture /\ Len(got[d]) <= client[d].n
          /\ \A k \in 1 .. Len(got[d]) : Own(d, k, got[d][k])
      BY <1>1 DEF OwnInv
    <3>2. mine'[d] = mine[d] /\ capture' = capture
      BY <1>14 DEF streamVars
    <3>3. CASE d # c
      BY <1>10, <1>12, <3>1, <3>2, <3>3
    <3>4. CASE d = c
      <4>1. ASSUME NEW k \in 1 .. m + 1 PROVE Own(c, k, got'[c][k])
        <5>1. CASE k = m + 1
          BY <1>6, <1>11, <5>1
        <5>2. CASE k # m + 1
          <6>1. k \in 1 .. m
            BY <1>6, <5>2
          <6> QED
            BY <1>3, <1>11, <3>1, <3>4, <6>1
        <5> QED
          BY <5>1, <5>2
      <4> QED
        BY <1>6, <1>11, <1>12, <3>1, <3>2, <3>4, <4>1
    <3> QED
      BY <3>3, <3>4
  <2>3. ASSUME NEW d \in Clients, NEW k \in 1 .. Len(got'[d]) PROVE Own(d, k, got[d][k])'
    <3>1. PICK y : y = got'[d][k]
      OBVIOUS
    <3>2. Own(d, k, y)
      BY <2>2, <3>1
    <3>3. Own(d, k, y)'
      BY <2>1, <3>2
    <3> QED
      BY <3>1, <3>3
  <2> QED
    BY <2>2, <2>3 DEF OwnInv
<1> QED
  BY <1>16, <1>19, <1>20 DEF SessionInv

LEMMA LeaveSession ==
  ASSUME Polite = TRUE, HardwareInv, SessionInv, NEW c \in Clients, Leave(c) PROVE SessionInv'
<1>1. TypeInv /\ StreamType /\ ServerType /\ PeopleType /\ PeopleInv /\ TransferInv /\ OwnInv
  BY DEF HardwareInv, TypeInv, SessionInv
<1>2. /\ PeopleInv' /\ Is(c, "receiving") /\ Served(c) /\ client'[c].state = "gone"
      /\ \A d \in Clients : d # c => client'[d] = client[d]
  BY <1>1, LeavePeople
<1>3. \A s \in Pcbs : IF pcb[s].client = c
                      THEN pcb'[s] = Rec(c, pcb[s].get, TRUE, <<>>) /\ ~pcb[s].get
                      ELSE pcb'[s] = pcb[s]
  BY <1>1, LeavePeople
<1>4. UNCHANGED stream /\ UNCHANGED <<tcp_pcb_tx, pixels_remaining, pixels_sent, mine, got>> /\ UNCHANGED streamVars
  BY SameStream DEF Leave, server
<1>5. ASSUME NEW s \in Pcbs, Serving(s) PROVE pcb[s].client = c
  <2>1. PICK d \in Clients : pcb[s].client = d
    BY <1>1, <1>5, BlockFields DEF Serving, Linked
  <2>2. Here(d) /\ Here(c)
    BY <1>2, <2>1 DEF Here, Present, Gone, Is
  <2> QED
    BY <1>1, <2>1, <2>2 DEF PeopleInv, OneAtATime
<1>6. client[c].n \in 1 .. MaxPixels /\ MaxPixels \in Nat /\ Len(got[c]) = client[c].n
  BY <1>1, <1>2, ClientFields, StreamAssumption DEF Served
<1>7. cap_en = 0 /\ pixels_remaining = 0
  <2>1. CASE \A s \in Pcbs : ~Serving(s)
    BY <1>1, <2>1 DEF TransferInv
  <2>2. ASSUME NEW s \in Pcbs, Serving(s) PROVE cap_en = 0 /\ pixels_remaining = 0
    <3>1. Moving(s, c)
      BY <1>1, <1>5, <2>2 DEF TransferInv
    <3>2. got[c] # <<>>
      <4>1. Len(<<>>) = 0
        OBVIOUS
      <4> QED
        BY <1>6, <4>1
    <3>3. cap_en = 0
      BY <1>1, <3>1, <3>2 DEF Moving, StreamType
    <3>4. Len(got[c]) + Len(pcb[s].flight) + pixels_remaining = client[c].n
      BY <3>1, <3>3 DEF Moving
    <3>5. Len(pcb[s].flight) \in Nat /\ pixels_remaining \in Nat
      <4>1. pcb[s].flight \in Seq(0 .. MaxPixels-1)
        BY <1>1, BlockFields
      <4> QED
        BY <1>1, <4>1 DEF ServerType
    <3> QED
      BY <1>6, <3>3, <3>4, <3>5
  <2> QED
    BY <2>1, <2>2
<1>8. ASSUME NEW s \in Pcbs PROVE ~Serving(s)' /\ pcb'[s].flight = <<>>
  <2>1. CASE pcb[s].client = c
    <3>1. pcb'[s] = Rec(c, pcb[s].get, TRUE, <<>>)
      BY <1>3, <2>1
    <3>2. pcb'[s].fin = TRUE /\ pcb'[s].flight = <<>>
      BY <3>1 DEF Rec
    <3> QED
      BY <3>2 DEF Serving
  <2>2. CASE pcb[s].client # c
    <3>1. pcb'[s] = pcb[s]
      BY <1>3, <2>2
    <3>2. ~Serving(s)
      BY <1>5, <2>2
    <3>3. pcb[s].flight = <<>>
      BY <1>1, <3>2 DEF TransferInv
    <3>4. ASSUME Serving(s)' PROVE FALSE
      <4>1. PICK d \in Clients : pcb[s].client = d
        <5>1. pcb[s].client # None
          BY <3>1, <3>4 DEF Serving, Linked
        <5> QED
          BY <1>1, <5>1, BlockFields
      <4>2. client'[d] = client[d]
        BY <1>2, <2>2, <4>1
      <4> QED
        BY <3>1, <3>2, <3>4, <4>1, <4>2 DEF Serving, Linked, Is
    <3> QED
      BY <3>1, <3>3, <3>4
  <2> QED
    BY <2>1, <2>2
<1>9. TransferInv'
  BY <1>4, <1>7, <1>8 DEF TransferInv, streamVars
<1>10. OwnInv'
  <2>1. \A d \in Clients : client'[d].n = client[d].n /\ mine[d] \in Nat /\ got[d] \in Seq(Pixel)
    <3>1. Becomes(c, "gone")
      BY DEF Leave
    <3> QED
      BY <1>1, <3>1, BecomesFields, ClientFields
  <2> QED
    BY <1>1, <1>4, <2>1, OwnSame DEF streamVars
<1> QED
  BY <1>2, <1>9, <1>10 DEF SessionInv

LEMMA TransferSession ==
  ASSUME HardwareInv, SessionInv, Transfer PROVE SessionInv'
<1>1. TypeInv /\ StreamType /\ ServerType /\ PeopleType /\ PeopleInv /\ TransferInv /\ OwnInv
  BY DEF HardwareInv, TypeInv, SessionInv
<1>2. PICK s : s = tcp_pcb_tx
  OBVIOUS
<1>3. PICK k \in Nat \ {0} :
           /\ s \in Pcbs /\ pixels_remaining # 0
           /\ k <= pixels_remaining
           /\ pixels_sent' = pixels_sent + k /\ pixels_remaining' = pixels_remaining - k
           /\ Others(s)
           /\ pcb'[s] = Rec(pcb[s].client, pcb[s].get, pcb[s].fin,
                          IF pcb[s].fin THEN pcb[s].flight
                          ELSE pcb[s].flight \o [j \in 1 .. k |-> pixels_sent + j - 1])
  BY <1>1, <1>2, TransferBlocks
<1>4. UNCHANGED stream /\ UNCHANGED <<tcp_pcb_tx, client, mine, got>> /\ UNCHANGED streamVars
  BY SameStream DEF Transfer, people
<1>5. PICK r \in Pcbs : Serving(r)
  BY <1>1, <1>3 DEF TransferInv
<1>6. PICK c \in Clients : pcb[r].client = c
  BY <1>1, <1>5, BlockFields DEF Serving, Linked
<1>7. Moving(r, c)
  BY <1>1, <1>5, <1>6 DEF TransferInv
<1>8. r = s
  BY <1>2, <1>7 DEF Moving
<1>9. cap_en = 0
  BY <1>1, <1>3, <1>7 DEF Moving, StreamType
<1>10. PICK fl : fl = pcb[s].flight
  OBVIOUS
<1>11. PICK more : more = [j \in 1 .. k |-> pixels_sent + j - 1]
  OBVIOUS
<1>12. PICK m : m = Len(got[c])
  OBVIOUS
<1>13. /\ tcp_pcb_tx = s /\ mine[c] = capture /\ cap_size = client[c].n /\ dma.idle
       /\ m + Len(fl) + pixels_remaining = client[c].n
       /\ pixels_sent = client[c].n - pixels_remaining
       /\ \A j \in 1 .. Len(fl) : fl[j] = m + j - 1
  BY <1>3, <1>7, <1>8, <1>9, <1>10, <1>12 DEF Moving
<1>14. m \in Nat /\ client[c].n \in Nat /\ pixels_remaining \in Nat /\ pixels_sent \in Nat
  <2>1. client[c].n \in 1 .. MaxPixels /\ MaxPixels \in Nat /\ got[c] \in Seq(Pixel)
    BY <1>1, ClientFields, StreamAssumption
  <2> QED
    BY <1>1, <1>12, <2>1 DEF ServerType
<1>15. fl \in Seq(Nat) /\ Len(fl) \in Nat /\ more \in Seq(Nat) /\ Len(more) = k
       /\ \A j \in 1 .. k : more[j] = pixels_sent + j - 1
  <2>1. 0 .. MaxPixels-1 \subseteq Nat
    BY StreamAssumption
  <2>2. fl \in Seq(0 .. MaxPixels-1)
    BY <1>1, <1>3, <1>10, BlockFields
  <2>3. fl \in Seq(Nat)
    BY <2>1, <2>2, SeqMonotonic
  <2>4. \A j \in 1 .. k : pixels_sent + j - 1 \in Nat
    BY <1>14
  <2>5. more \in Seq(Nat) /\ Len(more) = k
    BY <1>11, <2>4
  <2> QED
    BY <1>11, <2>3, <2>5
<1>16. pcb[s].fin = FALSE /\ ~pcb[s].get /\ Linked(s)
  BY <1>1, <1>3, <1>5, <1>8, BlockFields DEF Serving
<1>17. pcb'[s].client = pcb[s].client /\ pcb'[s].get = pcb[s].get /\ pcb'[s].fin = pcb[s].fin
       /\ pcb'[s].flight = fl \o more
  <2>1. pcb'[s] = Rec(pcb[s].client, pcb[s].get, pcb[s].fin, fl \o more)
    BY <1>3, <1>10, <1>11, <1>16
  <2> QED
    BY <2>1 DEF Rec
<1>18. PeopleInv'
  <2>1. ASSUME NEW t \in Pcbs
        PROVE  /\ pcb'[t].client = pcb[t].client /\ pcb'[t].fin = pcb[t].fin
               /\ pcb'[t].get => pcb[t].get
               /\ pcb[t] = Free => pcb'[t] = Free
    <3>1. CASE t = s
      <4>1. pcb[s] # Free
        BY <1>16 DEF Free, Linked
      <4> QED
        BY <1>17, <3>1, <4>1
    <3>2. CASE t # s
      BY <1>3, <3>2 DEF Others
    <3> QED
      BY <3>1, <3>2
  <2> QED
    BY <1>1, <1>4, <2>1, PeopleSame
<1>19. Serving(s)' /\ (\A t \in Pcbs : Serving(t)' => t = s)
  <2>1. Serving(s)'
    BY <1>4, <1>5, <1>8, <1>17 DEF Serving, Linked, Is
  <2>2. ASSUME NEW t \in Pcbs, Serving(t)', t # s PROVE FALSE
    <3>1. Linked(t)
      BY <1>3, <2>2 DEF Serving, Linked, Others
    <3> QED
      BY <1>1, <1>3, <1>16, <2>2, <3>1 DEF PeopleInv, OneAtATime
  <2> QED
    BY <2>1, <2>2
<1>20. Moving(s, c)'
  <2>1. /\ tcp_pcb_tx' = s /\ mine'[c] = capture' /\ cap_size' = client'[c].n /\ cap_en' = 0 /\ dma'.idle
    BY <1>4, <1>9, <1>13 DEF streamVars
  <2>2. Len(fl \o more) = Len(fl) + k
    <3>1. fl \in Seq(Nat) /\ more \in Seq(Nat)
      BY <1>15
    <3>2. Len(fl \o more) = Len(fl) + Len(more)
      BY <3>1
    <3> QED
      BY <1>15, <3>2
  <2>3. m + Len(fl \o more) + pixels_remaining' = client[c].n /\ pixels_sent' = client[c].n - pixels_remaining'
    <3>1. PICK full : full = Len(fl \o more)
      OBVIOUS
    <3>2. full = Len(fl) + k
      BY <2>2, <3>1
    <3>3. /\ m + Len(fl) + pixels_remaining = client[c].n
          /\ pixels_sent = client[c].n - pixels_remaining
      BY <1>13
    <3>4. pixels_sent' = pixels_sent + k /\ pixels_remaining' = pixels_remaining - k
      BY <1>3
    <3>5. PICK x \in Nat, rest \in Nat, total \in Nat, sent \in Nat :
            x = Len(fl) /\ rest = pixels_remaining /\ total = client[c].n /\ sent = pixels_sent
      BY <1>14, <1>15
    <3>6. m + (x + k) + (rest - k) = total /\ sent + k = total - (rest - k)
      BY <1>14, <3>3, <3>5
    <3> QED
      BY <3>1, <3>2, <3>4, <3>5, <3>6
  <2>4. ASSUME NEW j \in 1 .. Len(fl \o more) PROVE (fl \o more)[j] = m + j - 1
    <3>1. CASE j <= Len(fl)
      <4>1. j \in 1 .. Len(fl)
        BY <1>15, <2>2, <2>4, <3>1
      <4>2. (fl \o more)[j] = fl[j]
        BY <1>15, <4>1
      <4> QED
        BY <1>13, <4>1, <4>2
    <3>2. CASE ~(j <= Len(fl))
      <4>1. (fl \o more)[j] = more[j - Len(fl)] /\ j - Len(fl) \in 1 .. k
        BY <1>15, <2>2, <3>2
      <4>2. more[j - Len(fl)] = pixels_sent + (j - Len(fl)) - 1
        BY <1>15, <4>1
      <4>3. PICK x \in Nat : x = Len(fl)
        BY <1>15
      <4>4. pixels_sent = m + x /\ m \in Nat /\ j \in Nat
        BY <1>13, <1>14, <1>15, <4>3
      <4>5. pixels_sent + (j - x) - 1 = m + j - 1
        BY <4>4
      <4> QED
        BY <4>1, <4>2, <4>3, <4>5
    <3> QED
      BY <3>1, <3>2
  <2>5. Len(got'[c]) = m /\ client'[c].n = client[c].n
    BY <1>4, <1>12
  <2>6. Len(got'[c]) + Len(pcb'[s].flight) + pixels_remaining' = client'[c].n
    BY <1>17, <2>3, <2>5
  <2>7. \A j \in 1 .. Len(pcb'[s].flight) : pcb'[s].flight[j] = Len(got'[c]) + j - 1
    BY <1>17, <2>4, <2>5
  <2> QED
    BY <2>1, <2>3, <2>5, <2>6, <2>7 DEF Moving
<1>21. TransferInv'
  <2>1. ASSUME NEW t \in Pcbs, ~Serving(t)' PROVE pcb'[t].flight = <<>>
    <3>1. t # s
      BY <1>19, <2>1
    <3>2. pcb'[t] = pcb[t]
      BY <1>3, <3>1 DEF Others
    <3>3. ~Serving(t)
      BY <1>1, <1>3, <1>16, <3>1 DEF PeopleInv, OneAtATime, Serving
    <3> QED
      BY <1>1, <3>2, <3>3 DEF TransferInv
  <2>2. ASSUME NEW t \in Pcbs, NEW d \in Clients, Serving(t)', pcb'[t].client = d PROVE Moving(t, d)'
    <3>1. t = s /\ d = c
      BY <1>6, <1>8, <1>17, <1>19, <2>2
    <3> QED
      BY <1>20, <3>1
  <2> QED
    BY <1>3, <1>19, <2>1, <2>2 DEF TransferInv
<1>22. OwnInv'
  <2>1. \A d \in Clients : client'[d].n = client[d].n /\ mine[d] \in Nat /\ got[d] \in Seq(Pixel)
    BY <1>1, <1>4, ClientFields
  <2> QED
    BY <1>1, <1>4, <2>1, OwnSame DEF streamVars
<1> QED
  BY <1>18, <1>21, <1>22 DEF SessionInv

LEMMA PollSession ==
  ASSUME HardwareInv, SessionInv, Poll PROVE SessionInv'
<1>1. TypeInv /\ StreamType /\ ServerType /\ PeopleType /\ PeopleInv /\ TransferInv /\ OwnInv
  BY DEF HardwareInv, TypeInv, SessionInv
<1>2. /\ pixels_remaining = 0 /\ pixels_sent' = 0
      /\ UNCHANGED <<cap_size, dma, capture, lost, pcb, tcp_pcb_tx, client, mine, got>>
  BY DEF Poll, people
<1>3. /\ Stopped => pixels_remaining' = cap_size /\ cap_en' = 0
      /\ ~Stopped => pixels_remaining' = 0 /\ cap_en' = cap_en
  <2>1. pixels_remaining' = CapRdy /\ CapTake
    BY DEF Poll
  <2>2. CASE Stopped
    BY <2>1, <2>2 DEF CapRdy, CapTake
  <2>3. CASE ~Stopped
    BY <2>1, <2>3 DEF CapRdy, CapTake
  <2> QED
    BY <2>2, <2>3
<1>4. \A s \in Pcbs : Serving(s)' <=> Serving(s)
  BY <1>2 DEF Serving, Linked, Is
<1>5. PeopleInv'
  BY <1>1, <1>2, PeopleSame
<1>6. OwnInv'
  <2>1. \A d \in Clients : client'[d].n = client[d].n /\ mine[d] \in Nat /\ got[d] \in Seq(Pixel)
    BY <1>1, <1>2, ClientFields
  <2> QED
    BY <1>1, <1>2, <2>1, OwnSame
<1>7. ASSUME \A s \in Pcbs : ~Serving(s) PROVE cap_en' = 0 /\ pixels_remaining' = 0
  <2>1. cap_en = 0
    BY <1>1, <1>7 DEF TransferInv
  <2>2. ~Stopped
    BY <2>1 DEF Stopped
  <2> QED
    BY <1>3, <2>1, <2>2
<1>8. ASSUME NEW s \in Pcbs, NEW c \in Clients, Serving(s), pcb[s].client = c PROVE Moving(s, c)'
  <2>1. Moving(s, c)
    BY <1>1, <1>8 DEF TransferInv
  <2>2. client[c].n \in Nat
    <3>1. client[c].n \in 1 .. MaxPixels /\ MaxPixels \in Nat
      BY <1>1, ClientFields, StreamAssumption
    <3> QED
      BY <3>1
  <2>3. CASE Stopped
    <3>1. cap_en = 1 /\ dma.idle
      BY <2>3 DEF Stopped
    <3>2. got[c] = <<>> /\ pcb[s].flight = <<>> /\ cap_size = client[c].n
      BY <2>1, <3>1 DEF Moving
    <3>3. Len(got[c]) = 0 /\ Len(pcb[s].flight) = 0
      BY <3>2
    <3>4. Len(got[c]) + Len(pcb[s].flight) + pixels_remaining' = client[c].n /\ pixels_sent' = client[c].n - pixels_remaining'
      BY <1>2, <1>3, <2>2, <2>3, <3>2, <3>3
    <3>5. \A j \in 1 .. Len(pcb[s].flight) : pcb[s].flight[j] = Len(got[c]) + j - 1
      BY <3>3
    <3>6. tcp_pcb_tx = s /\ mine[c] = capture
      BY <2>1 DEF Moving
    <3>7. cap_en' = 0 /\ dma'.idle /\ tcp_pcb_tx' = s /\ mine'[c] = capture' /\ cap_size' = client'[c].n
      BY <1>2, <1>3, <2>3, <3>1, <3>2, <3>6
    <3>8. /\ Len(got'[c]) + Len(pcb'[s].flight) + pixels_remaining' = client'[c].n
          /\ pixels_sent' = client'[c].n - pixels_remaining'
          /\ \A j \in 1 .. Len(pcb'[s].flight) : pcb'[s].flight[j] = Len(got'[c]) + j - 1
      BY <1>2, <3>4, <3>5
    <3>9. cap_en' # 1
      BY <3>7
    <3> QED
      BY <3>7, <3>8, <3>9 DEF Moving
  <2>4. CASE ~Stopped
    BY <1>2, <1>3, <2>1, <2>4 DEF Moving
  <2> QED
    BY <2>3, <2>4
<1>9. TransferInv'
  BY <1>1, <1>2, <1>4, <1>7, <1>8 DEF TransferInv
<1> QED
  BY <1>5, <1>6, <1>9 DEF SessionInv

\* The engine takes a word only while a capture is enabled.
LEMMA TakenWhileEnabled ==
  ASSUME HardwareInv, DmaTake PROVE cap_en = 1
  BY DEF HardwareInv, StreamInv, EnableInv, Started, DmaTake

LEMMA HardwareSession ==
  ASSUME HardwareInv, SessionInv, Hardware PROVE SessionInv'
<1>1. TypeInv /\ StreamType /\ ServerType /\ PeopleType /\ PeopleInv /\ TransferInv /\ OwnInv
  BY DEF HardwareInv, TypeInv, SessionInv
<1>2. UNCHANGED <<pcb, tcp_pcb_tx, pixels_remaining, pixels_sent, client, mine, got>>
  BY DEF Hardware, server, people
<1>3. UNCHANGED <<cap_en, cap_size, capture>> /\ (lost => lost') /\ (cap_en = 0 => dma' = dma)
  <2>1. CASE PixelClock
    BY <1>1, <2>1, ClockCases, ClockFifo DEF HardwareInv
  <2>2. CASE DmaTake
    BY <2>2, TakenWhileEnabled DEF DmaTake, regs
  <2> QED
    BY <2>1, <2>2 DEF Hardware
<1>4. \A s \in Pcbs : Serving(s)' <=> Serving(s)
  BY <1>2 DEF Serving, Linked, Is
<1>5. PeopleInv'
  BY <1>1, <1>2, PeopleSame
<1>6. OwnInv'
  <2>1. \A d \in Clients : client'[d].n = client[d].n /\ mine[d] \in Nat /\ got[d] \in Seq(Pixel)
    BY <1>1, <1>2, ClientFields
  <2> QED
    BY <1>1, <1>2, <1>3, <2>1, OwnSame
<1>7. ASSUME NEW s \in Pcbs, NEW c \in Clients, Serving(s), pcb[s].client = c PROVE Moving(s, c)'
  <2>1. Moving(s, c)
    BY <1>1, <1>7 DEF TransferInv
  <2> QED
    BY <1>2, <1>3, <2>1 DEF Moving
<1>8. TransferInv'
  BY <1>1, <1>2, <1>3, <1>4, <1>7 DEF TransferInv
<1> QED
  BY <1>5, <1>6, <1>8 DEF SessionInv

------------------------------------------------------------------------------
(* All steps together.                                                     *)

LEMMA InitSession == Init => SessionInv
<1> SUFFICES ASSUME Init PROVE SessionInv
  OBVIOUS
<1>1. PICK n \in [Clients -> 1 .. MaxPixels] : client = [c \in Clients |-> [state |-> "new", n |-> n[c], i |-> 0]]
  BY DEF Init
<1>2. /\ \A c \in Clients : client[c].state = "new" /\ client[c].i = 0 /\ client[c].n = n[c] /\ got[c] = <<>> /\ mine[c] = 0
      /\ \A s \in Pcbs : pcb[s] = Free
      /\ cap_en = 0 /\ pixels_remaining = 0 /\ capture = 0
  BY <1>1 DEF Init, StreamInit
<1>3. \A s \in Pcbs : pcb[s].client = None /\ pcb[s].flight = <<>> /\ ~Linked(s) /\ ~Serving(s)
  BY <1>2 DEF Free, Linked, Serving
<1>4. \A c \in Clients : ~Here(c)
  BY <1>2, <1>3, SessionAssumption DEF Here, Present, Is
<1>5. PeopleInv
  <2>1. LinkInv
    BY <1>2, <1>3, SessionAssumption DEF LinkInv
  <2>2. OneAtATime /\ WaitInv
    BY <1>2, <1>3, <1>4 DEF OneAtATime, WaitInv
  <2> QED
    BY <2>1, <2>2 DEF PeopleInv
<1>6. TransferInv
  BY <1>2, <1>3 DEF TransferInv
<1>7. OwnInv
  <2>1. \A c \in Clients : mine[c] <= capture /\ Len(got[c]) = 0 /\ n[c] \in 1 .. MaxPixels
    BY <1>2
  <2>2. \A c \in Clients : Len(got[c]) <= client[c].n
    <3>1. MaxPixels \in Nat
      BY StreamAssumption
    <3> QED
      BY <1>2, <2>1, <3>1
  <2> QED
    BY <2>1, <2>2 DEF OwnInv
<1> QED
  BY <1>5, <1>6, <1>7 DEF SessionInv

\* A step that only says who is where.
LEMMA OnlyPeople ==
  ASSUME HardwareInv, SessionInv, PeopleInv', UNCHANGED stream, UNCHANGED server, UNCHANGED <<mine, got>>,
         \A c \in Clients : client'[c].n = client[c].n,
         \A s \in Pcbs : /\ pcb'[s].flight = pcb[s].flight
                         /\ Serving(s)' <=> Serving(s)
                         /\ Serving(s) => pcb'[s].client = pcb[s].client
  PROVE  SessionInv'
<1>1. TransferInv /\ OwnInv /\ UNCHANGED streamVars
  BY SameStream DEF SessionInv
<1>2. \A c \in Clients : mine[c] \in Nat /\ got[c] \in Seq(Pixel)
  BY ClientFields DEF HardwareInv, TypeInv
<1>3. TransferInv'
  BY <1>1, TransferSame
<1>4. OwnInv'
  BY <1>1, <1>2, OwnSame DEF streamVars
<1> QED
  BY <1>3, <1>4 DEF SessionInv

LEMMA ClientSession ==
  ASSUME Polite = TRUE, HardwareInv, SessionInv, NEW c \in Clients,
         Begin(c) \/ Hear(c) \/ Lose(c) \/ Connect(c) \/ Request(c)
  PROVE  SessionInv'
<1>1. TypeInv /\ ServerType /\ PeopleType /\ PeopleInv /\ TransferInv
  BY DEF HardwareInv, TypeInv, SessionInv
<1>2. UNCHANGED stream /\ UNCHANGED server /\ UNCHANGED <<mine, got>>
  BY DEF Begin, Hear, Lose, Connect, Request, people
<1>3. CASE Begin(c)
  <2>1. PeopleInv' /\ (\A s \in Pcbs : ~Linked(s)) /\ UNCHANGED pcb
    BY <1>1, <1>3, BeginPeople DEF Begin
  <2>2. \A d \in Clients : client'[d].n = client[d].n
    BY <1>1, <1>3, BecomesFields DEF Begin
  <2>3. \A s \in Pcbs : ~Serving(s) /\ ~Serving(s)'
    BY <2>1 DEF Serving, Linked
  <2> QED
    BY <1>2, <2>1, <2>2, <2>3, OnlyPeople
<1>4. CASE Hear(c) /\ Is(c, "listening")
  <2>1. Becomes(c, "connecting") /\ UNCHANGED pcb
    BY <1>4 DEF Hear
  <2>2. PeopleInv' /\ (\A s \in Pcbs : pcb[s].client # c)
    BY <1>1, <1>2, <1>4, <2>1, HearPeople
  <2>3. \A d \in Clients : client'[d].n = client[d].n /\ (d # c => client'[d] = client[d])
    BY <1>1, <2>1, BecomesFields
  <2>4. ASSUME NEW s \in Pcbs PROVE Serving(s)' <=> Serving(s)
    <3>1. CASE pcb[s].client = None
      BY <2>1, <3>1 DEF Serving, Linked
    <3>2. CASE pcb[s].client # None
      <4>1. PICK d \in Clients : pcb[s].client = d
        BY <1>1, <3>2, BlockFields
      <4>2. client'[d] = client[d]
        BY <2>2, <2>3, <4>1
      <4> QED
        BY <2>1, <4>1, <4>2 DEF Serving, Linked, Is
    <3> QED
      BY <3>1, <3>2
  <2> QED
    BY <1>2, <2>1, <2>2, <2>3, <2>4, OnlyPeople
<1>5. CASE (Hear(c) /\ ~Is(c, "listening")) \/ Lose(c)
  <2>1. UNCHANGED <<client, pcb>>
    BY <1>5 DEF Hear, Lose, people
  <2>2. PeopleInv'
    BY <1>1, <1>2, <2>1, PeopleSame
  <2>3. \A s \in Pcbs : Serving(s)' <=> Serving(s)
    BY <2>1 DEF Serving, Linked, Is
  <2> QED
    BY <1>2, <2>1, <2>2, <2>3, OnlyPeople
<1>6. CASE Connect(c)
  <2>1. PeopleInv' /\ (\A s \in Pcbs : ~Linked(s))
    BY <1>1, <1>6, ConnectPeople
  <2>2. Becomes(c, "connected")
    BY <1>6 DEF Connect
  <2>3. client'[c].state = "connected" /\ \A d \in Clients : client'[d].n = client[d].n
    BY <1>1, <2>2, BecomesFields
  <2>4. PICK s \in Pcbs : pcb'[s] = Rec(c, FALSE, FALSE, <<>>) /\ Others(s)
    BY <1>1, <1>6, ConnectBlocks
  <2>5. pcb'[s].client = c /\ pcb'[s].flight = <<>>
    BY <2>4, BlockOpens
  <2>6. \A t \in Pcbs : pcb[t] = Free /\ ~Serving(t)
    BY <1>1, <2>1 DEF PeopleInv, LinkInv, Serving
  <2>7. ASSUME NEW t \in Pcbs PROVE pcb'[t].flight = pcb[t].flight /\ ~Serving(t)'
    <3>1. CASE t = s
      BY <2>3, <2>5, <2>6, <3>1 DEF Serving, Is, Free
    <3>2. CASE t # s
      <4>1. pcb'[t] = Free
        BY <2>4, <2>6, <3>2 DEF Others
      <4> QED
        BY <2>6, <4>1 DEF Serving, Linked, Free
    <3> QED
      BY <3>1, <3>2
  <2> QED
    BY <1>2, <2>1, <2>3, <2>6, <2>7, OnlyPeople
<1>7. CASE Request(c)
  <2>1. /\ PeopleInv' /\ client[c].state = "connected" /\ client'[c].state = "receiving"
        /\ \A d \in Clients : d # c => client'[d] = client[d]
        /\ \A s \in Pcbs : /\ pcb'[s].client = pcb[s].client /\ pcb'[s].fin = pcb[s].fin
                           /\ pcb'[s].flight = pcb[s].flight
                           /\ pcb[s].client = c => pcb'[s].get = TRUE
                           /\ pcb[s].client # c => pcb'[s] = pcb[s]
    BY <1>1, <1>7, RequestPeople
  <2>2. Becomes(c, "receiving")
    BY <1>7 DEF Request
  <2>3. \A d \in Clients : client'[d].n = client[d].n
    BY <1>1, <2>2, BecomesFields
  <2>4. ASSUME NEW s \in Pcbs PROVE Serving(s)' <=> Serving(s)
    <3>1. CASE pcb[s].client = None
      BY <2>1, <3>1 DEF Serving, Linked
    <3>2. CASE pcb[s].client = c
      BY <2>1, <3>2 DEF Serving, Is
    <3>3. CASE pcb[s].client # None /\ pcb[s].client # c
      <4>1. PICK d \in Clients : pcb[s].client = d /\ d # c
        BY <1>1, <3>3, BlockFields
      <4>2. client'[d] = client[d] /\ pcb'[s] = pcb[s]
        BY <2>1, <4>1
      <4> QED
        BY <4>1, <4>2 DEF Serving, Linked, Is
    <3> QED
      BY <3>1, <3>2, <3>3
  <2> QED
    BY <1>2, <2>1, <2>3, <2>4, OnlyPeople
<1> QED
  BY <1>3, <1>4, <1>5, <1>6, <1>7

LEMMA ServeCloseSession ==
  ASSUME HardwareInv, SessionInv, NEW s \in Pcbs, ServeClose(s) PROVE SessionInv'
<1>1. TypeInv /\ ServerType /\ PeopleInv /\ TransferInv
  BY DEF HardwareInv, TypeInv, SessionInv
<1>2. UNCHANGED stream /\ UNCHANGED server /\ UNCHANGED <<client, mine, got>>
  BY DEF ServeClose, people
<1>3. PeopleInv' /\ pcb'[s] = Free /\ Others(s) /\ ~Serving(s)
  BY <1>1, ServeClosePeople
<1>4. ASSUME NEW t \in Pcbs
      PROVE  /\ pcb'[t].flight = pcb[t].flight
             /\ Serving(t)' <=> Serving(t)
             /\ Serving(t) => pcb'[t].client = pcb[t].client
  <2>1. CASE t = s
    <3>1. pcb[s].flight = <<>>
      BY <1>1, <1>3 DEF TransferInv
    <3> QED
      BY <1>3, <2>1, <3>1 DEF Free, Serving, Linked
  <2>2. CASE t # s
    <3>1. pcb'[t] = pcb[t]
      BY <1>3, <2>2 DEF Others
    <3> QED
      BY <1>2, <3>1 DEF Serving, Linked, Is
  <2> QED
    BY <2>1, <2>2
<1> QED
  BY <1>2, <1>3, <1>4, OnlyPeople

LEMMA NothingSession ==
  ASSUME HardwareInv, SessionInv, UNCHANGED <<stream, pcb, server, people>> PROVE SessionInv'
<1>1. PeopleInv
  BY DEF SessionInv
<1>2. UNCHANGED stream /\ UNCHANGED server /\ UNCHANGED <<pcb, client, mine, got>>
  BY DEF people
<1>3. PeopleInv'
  BY <1>1, <1>2, PeopleSame
<1>4. \A s \in Pcbs : Serving(s)' <=> Serving(s)
  BY <1>2 DEF Serving, Linked, Is
<1> QED
  BY <1>2, <1>3, <1>4, OnlyPeople

LEMMA SessionStep ==
  Polite = TRUE /\ HardwareInv /\ SessionInv /\ [Next]_vars => SessionInv'
<1> SUFFICES ASSUME Polite = TRUE, HardwareInv, SessionInv, [Next]_vars PROVE SessionInv'
  OBVIOUS
<1>1. ASSUME NEW c \in Clients, Begin(c) \/ Hear(c) \/ Lose(c) \/ Connect(c) \/ Request(c) PROVE SessionInv'
  BY <1>1, ClientSession
<1>2. ASSUME NEW c \in Clients, Receive(c) PROVE SessionInv'
  BY <1>2, ReceiveSession
<1>3. ASSUME NEW c \in Clients, Leave(c) PROVE SessionInv'
  BY <1>3, LeaveSession
<1>4. ASSUME NEW s \in Pcbs, ServeGet(s) PROVE SessionInv'
  BY <1>4, ServeGetSession
<1>5. ASSUME NEW s \in Pcbs, ServeClose(s) PROVE SessionInv'
  BY <1>5, ServeCloseSession
<1>6. CASE Advertise
  BY <1>6, NothingSession DEF Advertise
<1>7. CASE Transfer
  BY <1>7, TransferSession
<1>8. CASE Poll
  BY <1>8, PollSession
<1>9. CASE Hardware
  BY <1>9, HardwareSession
<1>10. CASE UNCHANGED vars
  BY <1>10, NothingSession DEF vars
<1> QED
  BY <1>1, <1>2, <1>3, <1>4, <1>5, <1>6, <1>7, <1>8, <1>9, <1>10 DEF Next

\* At most one client is served, and everything of its capture is in the
\* hardware, in the buffer, in flight or received.
THEOREM SessionInvariant ==
  ASSUME Polite = TRUE
  PROVE  Spec => [](HardwareInv /\ SessionInv)
<1>1. Init => HardwareInv /\ SessionInv
  BY InitType, InitStream, InitSession DEF HardwareInv
<1>2. (HardwareInv /\ SessionInv) /\ [Next]_vars => (HardwareInv /\ SessionInv)'
  BY HardwareStep, SessionStep
<1> QED
  BY <1>1, <1>2, PTL DEF Spec

\* "transfer captured data": no client receives more than it asked for, nor a
\* pixel of another's capture or out of its order.
THEOREM PixelsAreItsOwn ==
  ASSUME Polite = TRUE
  PROVE  Spec => []EveryClientGetsItsOwn
<1>1. HardwareInv /\ SessionInv => EveryClientGetsItsOwn
  <2> SUFFICES ASSUME HardwareInv, SessionInv, NEW c \in Clients
               PROVE  /\ Len(got[c]) <= client[c].n
                      /\ \A k \in DOMAIN got[c] : Own(c, k, got[c][k])
    BY DEF EveryClientGetsItsOwn, Own
  <2>1. got[c] \in Seq(Pixel)
    BY ClientFields DEF HardwareInv, TypeInv
  <2>2. DOMAIN got[c] = 1 .. Len(got[c])
    BY <2>1
  <2> QED
    BY <2>2 DEF SessionInv, OwnInv
<1> QED
  BY <1>1, SessionInvariant, PTL

LEMMA BufferStep == HardwareInv /\ SessionInv /\ [Next]_vars => BufferIsStable
<1> SUFFICES ASSUME HardwareInv, SessionInv, [Next]_vars, cap_buf' # cap_buf
             PROVE  pixels_remaining = 0 /\ \A s \in Pcbs : pcb[s].flight = <<>>
  BY DEF BufferIsStable
<1>1. TypeInv /\ StreamType /\ ServerType /\ StreamInv /\ PeopleInv /\ TransferInv
  BY DEF HardwareInv, TypeInv, SessionInv
<1>2. ASSUME NEW s \in Pcbs, ServeGet(s) PROVE pixels_remaining = 0 /\ \A t \in Pcbs : pcb[t].flight = <<>>
  <2>1. pcb[s].get
    BY <1>2 DEF ServeGet
  <2>2. (\A r \in Pcbs : ~Serving(r)) /\ pixels_remaining = 0
    BY <1>1, <2>1, OnlyOneServed
  <2> QED
    BY <1>1, <2>2 DEF TransferInv
<1>3. CASE Hardware
  <2>1. DmaTake
    <3>1. PixelClock => cap_buf' = cap_buf
      BY <1>1, ClockCases
    <3> QED
      BY <1>3, <3>1 DEF Hardware
  <2>2. cap_en = 1
    BY <2>1, TakenWhileEnabled
  <2>3. ASSUME NEW s \in Pcbs, Serving(s) PROVE pixels_remaining = 0 /\ pcb[s].flight = <<>>
    <3>1. PICK c \in Clients : pcb[s].client = c
      BY <1>1, <2>3, BlockFields DEF Serving, Linked
    <3>2. Moving(s, c)
      BY <1>1, <2>3, <3>1 DEF TransferInv
    <3> QED
      BY <2>2, <3>2 DEF Moving
  <2> QED
    BY <1>1, <2>3 DEF TransferInv
<1>4. CASE UNCHANGED stream
  BY <1>4, SameStream DEF streamVars
<1>5. CASE Poll
  BY <1>5 DEF Poll
<1>6. CASE UNCHANGED vars
  BY <1>4, <1>6 DEF vars
<1> QED
  BY <1>1, <1>2, <1>3, <1>4, <1>5, <1>6, Movers

\* The buffer goes from the capture to the transfer when it is complete, and
\* back when nothing of it is to be sent or in flight.
THEOREM BufferIsHandedOver ==
  ASSUME Polite = TRUE
  PROVE  Spec => CaptureIsHandedOver
<1>1. HardwareInv /\ SessionInv /\ [Next]_vars => [ReadyIsComplete /\ BufferIsStable]_vars
  BY PollIsComplete, BufferStep
<1> QED
  BY <1>1, SessionInvariant, PTL DEF Spec, CaptureIsHandedOver
===============================================================================
