------------------------------ MODULE TmdsStream ------------------------------
(***************************************************************************)
(* The capture hardware of tmds_cap: tmds_cap_stream.vhd packs two pixels  *)
(* to a word and hands them through a FIFO to the DMA engine, which writes *)
(* them to the buffer cap_buf; the server starts it (cap_start) and asks   *)
(* whether it has finished (cap_rdy) through the registers of              *)
(* tmds_cap_csr.vhd, which belong to another clock.                        *)
(*                                                                         *)
(* A pixel is <<capture, place>>: the number of the request it was         *)
(* captured for, and its place in the capture.  The number is not in the   *)
(* hardware; it tells apart what the properties compare.                   *)
(***************************************************************************)
EXTENDS Naturals, Sequences, SequencesExt

CONSTANTS
  MaxPixels,   \* size of cap_buf; CAP_BUF_PIXELS in the code
  Depth        \* words in the FIFO; 512 in the device

ASSUME StreamAssumption == MaxPixels \in Nat \ {0} /\ Depth \in Nat \ {0}

VARIABLES
  cap_en, cap_size,                      \* the registers the server writes
  cap_en_s, cap_en_s1,                   \* cap_en, synchronised, and a clock later
  cap_run, cap_stop, cap_count,
  word,                                  \* fifo_wd, fifo_wx, fifo_we
  fifo,
  dma,                                   \* idle and length as the server sees them
  cap_buf,
  capture,                               \* captures asked for so far
  lost                                   \* the FIFO was full at some word of this one
regs == <<cap_en, cap_size>>
pclk == <<cap_en_s, cap_en_s1, cap_run, cap_stop, cap_count, word>>
stream == <<regs, pclk, fifo, dma, cap_buf, capture, lost>>

Fill == <<0, 0>>          \* 0xAAAAAAAA, "invalid TMDS characters"
NoWord == [pix |-> <<>>, we |-> FALSE, last |-> FALSE]

StreamInit ==
  /\ cap_en = 0 /\ cap_size = 0 /\ cap_en_s = 0 /\ cap_en_s1 = 0
  /\ cap_run = 0 /\ cap_stop = 0 /\ cap_count = 0
  /\ word = NoWord /\ fifo = <<>>
  /\ dma = [idle |-> FALSE, length |-> 0, done |-> 0]
  /\ cap_buf = [k \in 0 .. MaxPixels-1 |-> Fill]
  /\ capture = 0 /\ lost = FALSE

\* The word under construction; an odd pixel at the end goes alone.
NextWord(last) ==
  LET pixel == <<capture, cap_count>> IN
  IF cap_count % 2 = 0
  THEN [pix |-> <<pixel>>, we |-> last, last |-> last]
  ELSE [pix |-> Append(word.pix, pixel), we |-> TRUE, last |-> last]
AtEndLate == cap_count = cap_size
AtEnd == cap_count + 1 = cap_size

\* A clock of the pixels.  What fifo_we says is done at the next one.
PixelClock ==
  LET starts == cap_en_s = 1 /\ cap_en_s1 = 0 IN
  /\ cap_en_s' = cap_en /\ cap_en_s1' = cap_en_s
  /\ cap_run' = IF cap_run = 1 THEN IF AtEnd THEN 0 ELSE 1 ELSE IF starts THEN 1 ELSE 0
  /\ cap_stop' = IF cap_run = 1 /\ AtEnd THEN 1 ELSE IF starts THEN 0 ELSE cap_stop
  /\ cap_count' = IF cap_run = 1 THEN cap_count + 1 ELSE IF starts THEN 0 ELSE cap_count
  /\ word' = IF cap_run = 1 THEN NextWord(AtEnd) ELSE NoWord
  /\ LET full == word.we /\ Len(fifo) = Depth IN
     /\ fifo' = IF word.we /\ ~full THEN Append(fifo, word) ELSE fifo
     /\ lost' = (lost \/ full)
  /\ UNCHANGED <<regs, dma, cap_buf, capture>>

\* The engine takes a word; the last of a stream ends its transfer.
DmaTake ==
  /\ fifo # <<>> /\ ~dma.idle
  /\ LET pix == Head(fifo).pix
         room == dma.done + Len(pix) <= dma.length
     IN /\ room
        /\ cap_buf' = [k \in DOMAIN cap_buf |->
                         IF k \in dma.done .. dma.done + Len(pix) - 1 THEN pix[k - dma.done + 1] ELSE cap_buf[k]]
        /\ dma' = [dma EXCEPT !.done = @ + Len(pix), !.idle = Head(fifo).last]
  /\ fifo' = Tail(fifo)
  /\ UNCHANGED <<regs, pclk, capture, lost>>

\* cap_start and dma_start: fill, start the engine, then enable.
CapStart(n) ==
  /\ cap_buf' = [k \in DOMAIN cap_buf |-> IF k < n THEN Fill ELSE cap_buf[k]]
  /\ dma' = [idle |-> FALSE, length |-> n, done |-> 0]
  /\ cap_size' = n /\ cap_en' = 1
  /\ capture' = capture + 1 /\ lost' = FALSE
  /\ UNCHANGED <<pclk, fifo>>

\* cap_rdy: what it returns, and what it does to the registers.
StopOnly == cap_en = 1 /\ cap_stop = 1
Stopped == cap_en = 1 /\ cap_stop = 1 /\ dma.idle
CapRdy == IF Stopped THEN cap_size ELSE 0
CapTake == IF Stopped THEN cap_en' = 0 ELSE cap_en' = cap_en

\* Nothing of a capture is under way in the hardware, and it has seen cap_en.
\* (What the engine does when it is started twice is not in this code.)
\* Requests are taken to come no faster: they cross a network, while a capture
\* of three frames takes 42 ms and a synchroniser some ns.
Quiet ==
  /\ cap_en_s = cap_en /\ cap_en_s1 = cap_en /\ cap_run = 0
  /\ word = NoWord /\ fifo = <<>> /\ (dma.idle \/ dma.length = 0)
===============================================================================
