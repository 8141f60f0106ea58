# Verification of tyto2

tyto2 is a collection of VHDL designs for FPGA boards with the embedded C that
runs in some of them: an Ethernet MAC (MEMAC) with a raw packet stack, frame
buffers on DDR3 and HyperRAM, AXI bridges, video timing and HDMI, a UART, PS/2
and I2C, video capture, and retro computers (6502, BBC micro).

This directory holds TLA+ modules for the parts of it in which something can go
wrong that no test bench of the repository reaches: several clocks, several
agents, queues at their limits, a processor and a pipeline that share a buffer,
passes over a capture that begins anywhere and may be damaged, tables that are
generated by one program and relied upon by another. Three groups of parts are
modelled: the Ethernet MAC with its firmware; the TMDS capture design, from the
capture hardware over its server to the whole analysis of the client; and the
Python programs that generate tables, ROMs and decoders for the VHDL.

Run a check with `tlc -config <cfg> <module>` and a proof with
`tlapm MemacPdq_proofs.tla` (or another of the `..._proofs` modules), in this
directory. `PROJECT.json` lists the runs, the theorems, the source lines of every
definition (`map`), the mutants that show that each property can fail, and the
hazards the properties are for.

## 1. Inventory

Sources are under `src/src/`; `E/` is `common/ethernet/`.

### Ethernet MAC (modelled)

                    rgmii_clk            umi_clk                       sys_clk
    PHY -> rx_rgmii ---------> memac_rx_fe --PRQ--> bridge ----------> firmware
                                    |    <--PFQ--   (I/O bus)          memac_raw_poll
                                 memac_buf ------------------------->  ARP, IP/ICMP
    PHY <- tx_rgmii <--------- memac_tx_fe <--PRQ-- bridge <---------     |
                                    |    ---PFQ-->                        |
                                 memac_buf <------------------------------+

| Component | State | Operations | What makes it correct |
|---|---|---|---|
| `E/memac_pdq.vhd`, descriptor queue | two Gray pointers, a RAM, an empty and a full flag in three-stage synchronisers, delayed strobes, two synchronised resets | write strobe, read strobe, reset, an edge of either clock | a bounded FIFO; a ready is never wrong, never taken back; the head is on the output when read is offered |
| `E/memac_rx_fe.vhd`, receive front end | framing FSM, a five-stage byte pipeline, ring pointers and full flag, descriptor under construction | take a byte, post a descriptor (PRQ), reclaim space (PFQ) | every packet announced as good is one whole frame; flags belong to their packet; the ring never overwrites, forgets or invents a byte |
| `E/memac_tx_fe.vhd`, transmit front end | FSM, four-stage pipeline, CRC | take a descriptor, read the buffer, send, return the descriptor | frames are preamble, the bytes of one packet, FCS; gaps; a descriptor returns once |
| `E/memac_buf.vhd`, packet buffer | two RAM banks, byte select | CPU access, byte access on umi_clk | the byte that comes out is the byte addressed |
| `E/memac_rx.vhd`, `E/memac_tx.vhd` | none: wiring of queues, buffer and front end | clock enables of the four queues | a strobe of the front end posts one descriptor at every speed |
| `E/software/memac_raw*.c` | per protocol one reply: FREE, PEND or RSVD, with its descriptor | poll loop: TX free, RX get, handler, RX free, TX send | a reply is written only while the MAC does not read its bytes, and keeps to its room; every accepted request is answered |
| PHY side: `E/memac_{rx,tx}_rgmii.vhd`, `E/memac_spd.vhd` | nibble phase, clock-enable counter, speed counters | octet in, octet out, measure the speed | one enable per octet; a speed is reported only if it is stable |
| `E/memac_mdio.vhd` | bit counter FSM | read or write a PHY register | a transaction is not disturbed; one answer per request |
| `designs/mb_mcs_memac/mb_mcs_memac_bridge.vhd` | held strobes, read data registers | I/O bus read and write | a register read returns the queue head that it pops |

They interact through the four queues (two clock domains each), through the two
buffers (shared memory, no lock) and through strobes. The hard behaviours:
sampling a moving pointer; a flag that is three cycles old; a check made when a
packet begins and relied on when it ends; a clock enable that stretches a strobe;
space given back out of step with its use; a free that fails unnoticed; the
shortest gap between two frames; a length that comes from the wire; resets.

### TMDS capture (modelled)

`T/` is `designs/tmds_cap/`.

    HDMI source -> tmds_cap_stream.vhd -> FIFO -> AXI DMA -> cap_buf
                        | cap_en, cap_size, cap_stop            | tcp_write, no copy
                   tmds_cap_csr.vhd  <--- cap.c  <--- server.c (one loop, lwIP callbacks)
                                                        | UDP advertisement, TCP
                                                   tmds_cap.py: decode, measure, packets, report

| Component | State | Operations | What makes it correct |
|---|---|---|---|
| `T/tmds_cap_stream.vhd`, `tmds_cap_csr.vhd`, `T/software/server/cap.c` | run and stop flags of the pixel clock, a pixel counter, a FIFO of words, the length the DMA engine reports | start, pixel clock, take a word, ask whether it is ready | a capture that is ready is complete and in order; the buffer is not captured into while it is sent |
| `T/software/server/server.c` | the connection being served, pixels sent and remaining | advertise, request, close, transfer, poll | every client gets the pixels captured for it; every request is served |
| `T/software/client/tmds_cap.py`, getting data | state of the client, words received | listen, connect, request, receive | ends with what it asked for |
| the same, decode | per pixel flags of period, control value and syncs; the machine over `p_type` | six passes over the capture, `-w` and `-r` | a sound capture is decoded as it was sent, wherever it begins; a damaged pixel is reported or stays where it is |
| the same, timing | the first of every width, the last events | two passes, a pixel each | what is measured is true of every line and frame captured |
| the same, packets and report | packets by type, bits of the channel status | extract, check, decode, compare, print | the packets and blocks of the source, none left out, none twice; faults stop it |
| `T/software/client/tmds_enc.py`, `spec/tmds.py` | table of characters | encode every byte from every disparity | what a receiver decodes; generator and client agree |

The hard behaviours: two clocks and a DMA engine that is polled; callbacks in the
middle of a transfer; a control block that is reused by the next connection; a
request that comes between the end of a capture and the poll that would see it;
loops over pixels that carry values from one pass into the next; break
statements in nested loops.

### Generators (modelled)

| Component | State | Operations | What makes it correct |
|---|---|---|---|
| `common/video/hdmi_bch_ecc.py`, with `bch_ecc` of the client | symbolic shift register; register of the check | clock; feed a byte | the equations of the client are those generated; damage is seen |
| `common/video/video_mode.py` | columns, table, ports | read the headers, write a cell, look a mode up | the ports show what the sheet says of the mode selected |
| `common/video/char_rom.py` | colours, rows of characters | read the header, find the colours, make a row, write | the ROM shows the image |
| `common/retro/np65/{intel,xilinx}/np65_decoder.py` | definitions, fields, words | read definitions and cells | the decoder shows the sheet, the same in both |
| `common/retro/np65/np6532_ram_init.py` | files with addresses, banks, rows | arguments, load, write a row | the processor sees the files |
| `designs/MEGAtest/random_1to1.py` | table, counters | draw, print | one to one, and printed whole |

### The rest of the repository (not modelled yet)

| Component | State and operations | Hard behaviour, and the property wanted |
|---|---|---|
| `designs/mb_fb`: `mig_hub`, `mig_bridge_axi`, `mig_bridge_crtc` | a priority arbiter and a FIFO of port tags for the reads in flight; an AXI slave without storage; a prefetcher with a line FIFO | every read answer goes to the port that asked; a frame shows the data of that frame although resets cut across reads in flight; no request is acknowledged and dropped |
| `common/hram/.../hram_ctrl.vhd` | HyperRAM controller FSM, latency counters, read FIFO | commands in order, none lost at a burst boundary or chip-select limit |
| `common/axi`: `axi4_a32d32_srw32`, `axi4l_sp32` | channel queues and a single-port FSM | one answer per request and in order; a read is not starved by writes |
| `common/uart/muart_tx`, `muart_fifo` | double buffer, shift register | every byte accepted is sent once, in order |
| `common/ps2`: `ps2_host`, `ps2_to_usbhid` | two clocks (device and system), shift register, request and acknowledge | a byte is delivered once; a host command ends (there is no timeout) |
| `common/i2c`: `i2c_ram1`, `i2c_rep_uni` | start/stop detection, bit counter, address, direction | RAM contents follow the transactions addressed to it; the repeater drives one side only |
| `common/video/.../hdmi_rx_selectio*` | alignment FSM of three channels | ends, locked on a stable tap |
| `common/retro/np65` cache, `r6522`, `hd6845`, `saa5050`; `designs/bpp`; `common/riscv/jarv*` | instruction set interpreters and peripherals of one clock | mostly data: thousands of cases, little interaction |
| `common/video` timing, text, encoders; board tops; build files | counters, pipelines and wiring of one clock | nothing for a model checker that a test does not show |

`PROJECT.json` lists each with its sources and, under `hazards`, the lines where
these behaviours bite.

## 2. Modules

| Module | Models | Notes |
|---|---|---|
| `MemacUtil` | `memac_util_pkg.vhd`: `bin2gray`, `gray2bin`; words sampled in flight | pure operators |
| `DescriptorFifo` | the promise of the queue: a FIFO of `DEPTH-1` | abstract |
| `MemacPdq` | `memac_pdq.vhd` with its `sync_reg_u` synchronisers | refines `DescriptorFifo` |
| `MemacPdq_proofs` | `MemacPdq`: types, safety, a ready is kept, and that it implements `DescriptorFifo`; `MemacPost`: a strobe posts once | TLAPS |
| `MemacPost` | the queues the front ends post to, as wired by `memac_tx.vhd` and `memac_rx.vhd` | composes `MemacPdq` with a front end that has clock enables |
| `MemacRxFe` | `memac_rx_fe.vhd`, the ring, the receiving half of the firmware | |
| `MemacRxFe_proofs` | `MemacRxFe`: safety, for gaps of two cycles and more | TLAPS |
| `ReplyService` | the promise of the transmit path to each protocol | abstract |
| `MemacTx` | `memac_tx_fe.vhd`, `crc_eth.vhd` as used, the buffer, the sending half of the firmware | refines `ReplyService` |
| `MemacTx_proofs` | `MemacTx`: safety, and that it implements `ReplyService` | TLAPS |
| `TmdsStream` | `tmds_cap_stream.vhd`, the registers and `cap.c` | two clocks and the DMA engine |
| `TmdsSession` | `server.c` and the client's side of the connection | composes `TmdsStream` with clients and lwIP |
| `TmdsSession_proofs` | `TmdsSession`: safety of stream, server and connection | TLAPS |
| `TmdsDecode` | `tmds_cap.py`, decode of a capture, decoded data file | |
| `TmdsDecode_proofs` | `TmdsDecode`: any capture, and legal ones | TLAPS |
| `TmdsTiming` | `tmds_cap.py`, horizontal and vertical timing | |
| `TmdsPackets` | `tmds_cap.py`, data island packets, channel status, report | |
| `TmdsPackets_proofs` | `TmdsPackets`: the packets, the blocks of audio, where it stops | TLAPS |
| `TmdsCode` | `tmds_enc.py` and the tables of `spec/tmds.py`, which `tmds_cap.py:28` loads (`client/tmds_spec.py` is a copy of it that nothing imports) | the characters themselves |
| `HdmiBch` | `hdmi_bch_ecc.py` and `bch_ecc` of `tmds_cap.py` | |
| `RamInit`, `RamInit_proofs` | `np6532_ram_init.py`; theorems about it | TLAPS |
| `CharRom` | `char_rom.py` | |
| `VideoMode` | `video_mode.py` with the VHDL it writes | the sheet `video_mode.csv` |
| `Np65Decoder` | both `np65_decoder.py` with the VHDL they write | |
| `Random1to1`, `Random1to1_proofs` | `random_1to1.py`; theorems about it | TLAPS |
| `MCTmdsClient` | one run over `TmdsDecode`, `TmdsTiming`, `TmdsPackets` | a behaviour is one part |
| `MCTools` | one run over the generators | a behaviour is one program |
| other `MC...` | instances for TLC | |

**MemacPdq.** One action is one rising edge: of `w_clk` (`WTick`), of `r_clk`
(`RTick`) or of both in the same instant (`BothTick`), with the clock enable as
its argument; `WEdge` and `REdge` are the two processes with their
synchronisers. No ratio between the clocks is assumed. In `BothTick` a flag is
computed from a pointer that is just moving, and the synchroniser captures any
mixture of old and new bits (`Mix`): the Gray code is what makes it one of the
two. The RAM output is arbitrary if the word shown is being written. `a_rst`
comes at any time and clears exactly what has an asynchronous reset in the code;
`w_ff` and the delayed strobes do not. The one assumption on the users is the
handshake of the component: a strobe only in an enabled cycle with ready high.
Setup violations that last longer than a cycle are not modelled.

**MemacRxFe.** `Rx` is one enabled cycle of `umi_clk`: all of `P_MAIN`. Each
branch of the `case` is an operator named for its state; what stands after the
`case` is `Descriptor`, `Ring`, `Reclaim`, `Queues`. As in VHDL the later
assignment wins: `Descriptor` takes the values the `case` left and applies the
statements that follow. A byte is `<<frame, position>>`, so a byte in the ring
tells where it belongs; a frame is a record of length, preamble, wrong FCS bytes
and reported errors. The CRC is abstracted to *which of the four FCS bytes
differ*, which is what the code compares byte by byte. `prq_rdy` and
`pfq_rdy` may be down at any time and are up only with room or an item: more
behaviours than the queues have, and all of them by the theorems of `MemacPdq`.
`RxGet` and `RxFree` are the firmware; `RxFree` keeps the failure of
`memac_raw_rx_free` that its caller ignores (`memac_raw_bsp.c:91` fails whenever
`pfq_rdy` is down, and that may be with room in the queue, too: the flag is old). Left out: `drops`, a counter nothing
reads back in, and the error bit stored beside each byte.

**MemacPost.** A front end's strobe is a register that only an enabled cycle
changes, so at 10 and 100 Mbit/s it lasts several cycles of `umi_clk`. The
module puts that strobe in front of `MemacPdq` with the clock enables of
`memac_tx.vhd:172-179` (`W_GATED = 1`) or `memac_rx.vhd:136-149`
(`R_GATED = 1`).

**MemacTx.** `Fe` is one octet time of the front end: FSM, pipeline, CRC and
buffer. The firmware is the poll loop with a program counter (`TxFree`,
`RxRequest`, `TxSend` per protocol), interleaved with `Fe`. A byte is
`<<service, build, position, length>>`: a byte of an earlier reply in a frame
shows. A reply has any length: that of a ping comes from its IP header and is
compared with nothing (`memac_raw_icmp.c:28-29,59-72`). So `Build` writes as
many bytes, round the end of the buffer (`memac_raw.c:24`) and over whatever is
there; `D` is the descriptor with the low bits of the length, which is all that
the bridge passes on (`mb_mcs_memac_bridge.vhd:188,242`); and `Owner` compares what
comes back with all sixteen bits (`memac_raw_icmp.c:79`). `room` is what
`memac_raw_tx_alloc` gave each reply (lines 142-150), and `spilt`, a history, says
that a reply has been longer. The CRC is the sequence of bytes it covers with a count of shifts, so a
CRC that was not cleared or covers one byte too few shows. `CYCLES` is the
number of `umi_clk` cycles per octet. Left out: header fields and checksums,
`PRE_AUTO = 0` (never configured by `memac_raw_bsp.c:100`), a reset in mid
packet.

**TmdsStream, TmdsSession.** One action is one edge of the pixel clock
(`PixelClock`: the synchroniser of `cap_en`, run and stop, the counter, two
pixels to a word, the write into the FIFO), one word taken by the engine, one
callback of lwIP (`ServeGet`, `ServeClose`), one turn of a part of the server's
loop (`Advertise`, `Transfer`, `Poll`), one step of a client or of the network. A
pixel is `<<capture, place>>`, so a pixel of an earlier request shows. A
connection is a control block of a small pool: `tcp_pcb_tx` may point to one that
has been closed and given to somebody else. `tcp_write` is called without a copy,
so what is in flight are places of `cap_buf`. `Quiet` is the one assumption: a
request does not come while the hardware is still busy with the capture before,
or `cap_en` on its way through the synchroniser (milliseconds and nanoseconds,
against a round trip of the network; what the engine does when it is started
twice is not in the code).
With `Polite` a client comes when the one before has gone; without, at any time.

**TmdsDecode.** A pixel is three symbols, one per channel, in the ten classes
that the tables tell apart (`TmdsCode` checks the overlaps of the tables that
the classes stand for), with what the source meant by it for the properties
only. One action is one turn of one loop; each pass is an action, the machine
over `p_type` has an operator per state. `-1` is the index that `detect
preambles` looks at before `m_start` 0, which in Python is the last pixel.

**TmdsTiming.** A pixel is three levels. Each loop begins with the levels the
loop before left, as in the code. Vertical measurements of half lines are kept
times `2*m_h_total`. A step is the next pixel at which a level changes, because
no branch is taken at any other.

**TmdsPackets.** A packet is what its bytes say (type, code, broken rule, audio
samples); a bit of channel status is named for its place in the source. The
arrays of `iec60958_cs_raw_tmp` are shared by reference as in Python: the list
holds places, and what is appended later shows in all of them. `exc` is the
exception that ends the program. `packet_dict` is a sequence of types with their
packets, in the order of the keys; `p_i` and `p_j` are the places of the two loops
over it, and a step of `DecodePacket` is one packet. The samples of a packet are
four pairs, as the loop over `spn` takes them: `Pair` of `Pair`, with what an
inner `break` leaves out. Of the InfoFrames only AVI, SPD and Audio have rules of their
own, but all seven have `HB2` and a checksum that is looked at. A capture has
islands of whole packets, as a decode that did not stop makes sure; a decode that stopped
leaves a file, too, and with `-r` an island cut short ends in the `ValueError`
of `terc4.index`, which the model and its run have.

**TmdsCode, HdmiBch.** The characters and the equations themselves: every byte
from every disparity, and the shift register with bags of symbols, against the
tables and equations that the client carries as copies.

**RamInit, CharRom, VideoMode, Np65Decoder.** Each models the program and what
the VHDL makes of its output (`Fetch`, the ROM, `Lookup` and `ports`,
`slice_intel` and `slice_xilinx`), because the output alone means nothing: a byte
is right if the address lines find it. Rows, cells and files are values; the text
around them is left out, and what the text does (padding, commas, literals,
widths) is modelled by what it does. The rows and columns of `video_mode.csv`
that the VHDL uses are those of the file. Two columns that no field of the record is
made of are there to compare the ports with: the pixel clock in kHz, against the
frequency that `clk_sel` selects in `video_out_clock.vhd`, and the picture aspect,
against what a sink makes of `aspect`, the bits M1 and M0 of the AVI InfoFrame
that `vga_to_hdmi.vhd:720` sends.

**MCTmdsClient, MCTools.** The programs do not interact, so each run puts them
side by side: a variable (`part`, `tool`) says which of them a behaviour is a run
of, and the variables of the others stay idle. Each has one invariant, the
conjunction of what its module states under single names.

Operators named `...Without...`, `...For...`, `...Only...`, `...Before`,
`...Now`, `...Always`, `...As...` are slips the code could have made. Each stands before the
operator it is a slip of and is used only to show that a property fails with it.

## 3. Runs

| Run | Instance | States | Result |
|---|---|---|---|
| `pdq` | `DEPTH` 4, two descriptor values, fair | 122 k | holds |
| `post_tx` | `DEPTH` 4, enables {0,1}, wiring of `memac_tx` | 42 k | holds |
| `post_rx` | the same, wiring of `memac_rx` | | **violated** (finding 1) |
| `rx_fe` | ring of 6, one frame of 5 bytes, gap 2 or more, queues of 1 | 3.3 M | holds |
| `rx_fe_phy` | ring of 2, five kinds of frame with their preambles and FCS | 2.2 M | holds |
| `rx_fe_gap` | as `rx_fe`, gap 1 or more | | **violated** (finding 2) |
| `tx` | two services, replies within and beyond their rooms, buffer of 8, 1000 Mbit/s, fair | 279 k | holds |
| `tx_slow` | the same, 10 cycles per octet | | **violated** (finding 3) |
| `tmds_session` | two clients in turn, requests of 1 to 5 pixels, FIFO of a word, fair | 42 k | holds |
| `tmds_session_hang` | two clients at the same time | | **violated** (finding 4) |
| `tmds_client` | 3.3 k captures: periods, timings, packets | 150 k | holds |
| `tools` | 12 k inputs of seven programs | 546 k | holds |

What they show:

- `pdq`: `NoOverflow`, `ReaderIsShownTheHead`: ready is never shown wrongly.
  `ReadyHolds`: a ready is not taken back, which is what lets the firmware look at
  a status register first and strobe later; on the writer's side it excludes the
  enabled cycles in which strobes from before a reset are still in `w_stb_r`,
  because there the code does take it back. `ImplementsFifo`: nothing is lost,
  doubled or reordered, with resets. `ReadyIsOffered`: a queued descriptor is
  offered, a freed slot is offered again.
- `post_tx`: a strobe several cycles long enqueues one descriptor.
- `rx_fe`: a packet announced without `TRUNCATE` is one whole frame
  (`IntactUnlessTruncated`), room checked at its start is still there at its end
  (`PostsOnlyToRoom`), pointers, full flag and descriptors always account for
  every byte of the ring, the bytes lost by the firmware included
  (`SpaceIsAccounted`), and no byte of a packet that is not freed is overwritten
  (`NeverOverwritesAPacket`).
- `rx_fe_phy`: without `FCS_BAD` all four FCS bytes were compared and equal; an
  error is reported with its own packet; the preamble flags tell what the
  preamble was; the SFD and the FCS are stripped.
- `tx`: `FrameIsWellFormed` until a reply has been longer than its room,
  `GapIsEnough`, `ReadsOnlyReserved` (the buffer shared without a lock: what is read
  for a reply that keeps to its room is a byte of this reply, reserved, whatever the
  length of the others), `FreesAreKnown` (a descriptor comes back once, to a queue
  with room, and to a service, unless its length was cut on the way),
  `ImplementsReplyService`, and `RequestIsAnswered`: its reply is sent and free
  again, or was one whose length was cut; and such a one stops no other service.
  The excepted cases happen in the run: what they are in the code is said under
  "Also seen".
- `post_rx`: the trace is one descriptor strobed at 10 Mbit/s; the strobe lasts
  two cycles, and `w_ptr` is two ahead with two copies of it, while one is owed.
- `tmds_session`: `CaptureIsHandedOver`: a capture that is ready is the whole of
  the one asked for, in order, or shows that the FIFO lost words; and the buffer
  is not touched while any of it is to be sent. `EveryClientGetsItsOwn`: no client
  receives a pixel of another's capture or one twice. `EveryRequestIsServed`.
- `tmds_client`: `CaptureIsDecoded`: whatever is captured, the error the source calls
  impossible is, and an island that got its trailing guardband is whole packets; and
  a capture of what a source may send (islands, lines of video, DVI), begun and ended
  at any pixel, is sorted as it was sent, with its sync levels.
  `OneFaultDoesNotSpread`: with one pixel damaged or one lost it is rejected, or every
  pixel that arrived sound is sorted as it was sent, the one after a loss, too.
  `RereadIsTheSame`. `MeasurementIsRight`: what is measured of an undamaged
  progressive source is right, and an analysis that ends without an error holds
  of every line and frame of the capture. `PacketsAreTheSources`: the packets and
  the audio channel status blocks are those of the source, in order, none twice and
  none left out, wherever the capture is cut. `StopsExactlyAtFaults`: a fault in any
  packet stops the analysis before the consistency is judged, and nothing else does.
- `tools`: one invariant per program. `CodeTablesAgree`, `DamageIsSeen` (the
  equations are those of the shift register; three damaged bits are seen in a
  header and in a subpacket), `TableIsRight`, `ProcessorSeesTheFiles` (with files
  that overlap, wrap or do not fit), `RomShowsTheImage`, `ModeIsTheSheets` (every
  mode of the sheet, every value of the input), `DecoderShowsTheSheet` (a
  decoder made of a sheet with any combination of cells, Intel and Xilinx alike).

Bounds, and why they are enough:

- `DEPTH` 4 (three usable slots) has full, empty, wrapped and in between, and the
  smallest Gray code in which a wrong order would change two bits; the theorems
  cover the other depths. The latency of the flags (three stages) and the
  holdoff (three strobes) are the code's own.
- The ring of 6 with packets of 5 makes every packet begin at each offset, wrap,
  fill the ring, and be truncated; the pointers differ by every amount. Queues of
  one descriptor make "no room" happen while a packet is in flight. `HOLD` (bits
  of `pfq_stb_r`) is 1 instead of 4 because the queue of the model answers a
  strobe at once; the code's longer holdoff covers the latency `MemacPdq` has.
  `LOST_MAX` bounds the bytes lost by failed frees. `COUNT_MAX` is 3 in `rx_fe`
  and 8 in `rx_fe_phy` (15 in the code): the FSM tells apart 0 to 8 only.
- In `rx_fe_phy` the packets carry one byte (the ring is the business of
  `rx_fe`) and the frames are: good; short preamble with a bad FCS; long preamble
  and too short for an FCS, with an error on its last byte; no preamble and an
  error on its first byte; a frame that ends in its preamble.
- `tx`: two services, one with a fixed length (ARP, 3 bytes) and one with the length of
  the request (ICMP), the second in mid word with room for two bytes. Its
  lengths are two; four, which runs past its room and is cut to 0 by a `len` of two
  bits, so that the front end reads on for the whole range; and nine, which is
  cut to 1 and comes round the end of the buffer of 8 over all of the ARP reply. A PFQ
  of one descriptor with two replies fills; the PRQ has two places, as it has room
  for every reply in the design. `PRE_LEN` is 3 instead of 8: the preamble is a counter.
- Two frame gaps exist: the code is correct from two idle cycles on. The standard
  asks a transmitter for twelve; a receiver may see less.

- `tmds_session`: five pixels are three words, the last of them half full; a FIFO
  of one word overflows when the engine is slow; two control blocks are the least
  of which one is reused while the other lives. A send buffer of two pixels makes
  every transfer take several turns of the loop. `tmds_session_hang` needs two
  clients and two pixels only.
- `tmds_client`: preambles, guardbands and packets of two pixels (8, 2 and 32 in
  the standard) keep every comparison of a length with its limit, one below and
  one above. Islands of two and three packets reach `PACKET_MAX` (2) and exceed
  it. Frames of 5 to 9 lines of 6 or 7 pixels, both polarities, interlaced and
  not; captures of about one, two and three frames from every pixel that is not
  active video, and with each pixel of a capture lost, doubled or inverted. Blocks of five bits instead
  of 192 begin, end and share a packet at every sample.
- `tools`: the codes, and the modes of the sheet, in their own size. A table
  of five numbers in lines of three ends in mid line; a RAM of two rows per bank has
  every offset in row and bank; drawings of single pixels, lines and their
  inverse; three opcodes with two rows of the sheet, so that an opcode has two, one or
  none.

Fairness. `MemacPdq!Fairness`: both clocks run and their enables come back
(`umi_clken` is a periodic counter in `memac_tx_rgmii.vhd` and
`memac_rx_rgmii.vhd`; `sys_clk` is free running), and reset is released.
Nothing is assumed of the users: a reader may never pop. `MemacTx!FairSpec`: the
clock runs (`WF(Fe)`) and so does the processor (`WF(Firmware)`). In this module
a ready may be down when it is looked at, so something must say that it is not
down for ever: that is `ReadyIsOffered` and `ReadyHolds` of the queue, which give the weak fairness of `FeIdle` and
`FeFin` (a ready, once up, stays until it is used) and the strong fairness of
`TxFree` and `TxSend` (the poll loop comes by again and again and finds it up).
`TmdsSession!Fairness`: the server's loop goes round and lwIP calls back, both
clocks and the engine run, TCP delivers, a client that can go on does; of the
broadcasts, which UDP may lose, some arrive (strong fairness of `Hear`, the only
one). Nobody has to come, and nobody has to leave.

## 4. Proofs

What each group of theorems holds for:

- the queue: every depth of at least two, every set of descriptors, every pointer
  code and every interleaving of clocks, enables and resets;
- the receive front end: every size of ring, queues and length counter, every set
  of frames and every setting of `rx_ctrl`;
- the transmit path: any number of services, any layout of their rooms in the
  buffer, replies of any length, in the room or not, any size of buffer and `len`
  fields, any depth of the queues and any ratio of the clocks;
- the capture: every size of buffer, FIFO and send buffer, any number of clients
  and of control blocks;
- the decode: every capture and every length of preambles, guardbands and packets;
- the packets: every number of packets and length of a capture, every length of a packet
  and of a block, every division of the audio into packets;
- the RAM initialisation: every size, number of banks, length of a row and limit of the
  address, and every command line of files;
- the table: every size and every length of a line.

| Module | Theorem | Statement |
|---|---|---|
| `MemacPdq_proofs` | `SafetyInvariant` | `Spec => []SafetyInv` |
| | `TypeCorrect` | `Spec => []TypeOK` |
| | `WriterNeverOverflows` | `Spec => []NoOverflow` |
| | `ReaderSeesTheHead` | `Spec => []ReaderIsShownTheHead` |
| | `ReadyInvariant` | `Spec => [](SafetyInv /\ ReadyInv)` |
| | `ReadReadyIsKept`, `WriteReadyIsKept` | `Spec => [][ReadReadyStays]_vars`, `[][WriteReadyStays]_vars` |
| | `ReadyIsKept` | `Spec => ReadyHolds` |
| | `QueueImplementsFifo` | `Spec => ImplementsFifo` |
| | `PostedOnce` | `SpecPost => []EachPostOnce`, if `RightWiring` |
| | `OldestIsOffered` | `SpecPost => []OffersTheOldest`, if `RightWiring` |
| `MemacRxFe_proofs` | `TypeInvariant`, `TypeCorrect` | `Spec => []TypeInv`, `[]TypeOK` |
| | `FrameOrder`, `RingOrder`, `SafetyInvariant` | `Spec => []Inv4`, `[]Inv6`, `[]Inv7` (layers), if `GAP >= 2` |
| | `PostsFit` | `Spec => []PostsOnlyToRoom`, if `GAP >= 2` |
| | `PacketsAreSafe` | `Spec => NeverOverwritesAPacket`, if `GAP >= 2` |
| | `PacketsAreWhole` | `Spec => []IntactUnlessTruncated`, if `GAP >= 2` |
| | `GoodIsChecked` | `Spec => []GoodMeansChecked`, if `GAP >= 2` |
| | `ErrorsAreTold` | `Spec => []ErrorGoesWithItsPacket`, if `GAP >= 2` |
| | `PreamblesAreTold` | `Spec => []FlagsTellThePreamble`, if `GAP >= 2` and no preamble is longer than `COUNT_MAX` |
| | `NoSpaceIsForgotten` | `Spec => []SpaceIsAccounted`, if `GAP >= 2` |
| `MemacTx_proofs` | `SafetyInvariant` | `Spec => []SafeInv` |
| | `TypeCorrect` | `Spec => []TypeOK` |
| | `OnlyReservedIsRead` | `Spec => []ReadsOnlyReserved`, whatever the lengths of the other replies |
| | `EveryFreeIsKnown` | `Spec => []FreesAreKnown`, replies with a cut length among them |
| | `TransmitImplementsService` | `Spec => ImplementsReplyService` |
| | `TheGapIsEnough` | `Spec => GapIsEnough` |
| | `FramesAreWellFormed` | `Spec => []FrameIsWellFormed` (until a reply leaves its room), if `CYCLES = 1` |
| `TmdsSession_proofs` | `StreamInvariant`, `TypeCorrect` | `Spec => []HardwareInv`, `[]TypeOK` |
| | `ReadyMeansComplete` | `Spec => [][ReadyIsComplete]_vars` |
| | `SessionInvariant` | `Spec => [](HardwareInv /\ SessionInv)`, if `Polite` |
| | `PixelsAreItsOwn` | `Spec => []EveryClientGetsItsOwn`, if `Polite` |
| | `BufferIsHandedOver` | `Spec => CaptureIsHandedOver`, if `Polite` |
| `TmdsDecode_proofs` | `TypeCorrect` | `Spec => []TypeOK` |
| | `NonVideoNeverFound` | `Spec => []NonVideoIsImpossible` |
| | `IslandsAreWholePackets` | `Spec => []IslandsAreWhole` |
| | `PeriodsSound` | `Spec => []PeriodsAreSound`, the three together |
| | `LegalCapturesAreDecoded` | `Spec => [](LegalCaptureDecodes /\ SyncsAreTheSources)` |
| | `CapturesAreDecoded` | `Spec => []CaptureIsDecoded`, both together |
| | `OneFaultStaysThere` | `Spec => []OneFaultDoesNotSpread`, if `RealLengths` |
| | `FileGivesBackTheResult` | `Spec => RereadIsTheSame` |
| `TmdsPackets_proofs` | `TypeCorrect` | `PacketsSpec => []PacketTypes`, if `Given` |
| | `PacketsFound` | `PacketsSpec => []PacketsAreFound`, if `Given` |
| | `StopsAtFaults` | `PacketsSpec => []StopsExactlyAtFaults`, if `Given` |
| | `PacketsAreRight` | `PacketsSpec => []PacketsAreTheSources`, if `Given` |
| `RamInit_proofs` | `TypeCorrect`, `FilesAreSeen`, `LayoutsAreGood` | `Spec => []TypeOK`, `[]ProcessorSeesTheFiles`, `[]OnlyGoodLayouts`, if `Given` |
| | `PackageIsRight` | the three together, if `Given`: what run `tools` checks as its `ProcessorSeesTheFiles` |
| `Random1to1_proofs` | `TypeCorrect`, `TableIsOneToOne`, `TableIsPrintedWhole` | `Spec => []TypeOK`, `[]OneToOne`, `[]PrintedIsTheTable` |
| | `PackageIsRight` | `Spec => []TableIsRight`, the three together |

Assumptions on the constants. Of the queue: `DepthAssumption`, `DataAssumption`;
`CodeAssumption` (`Gray` and `Bin` are inverse to each other);
`MixAssumption` (between neighbours of the code only the old and the new word can
be sampled). TLC evaluates the last two for the Gray code of `memac_util_pkg.vhd`
with two bits (module `MCMemacPdq`). Of the front ends `RxAssumption` and
`TxAssumption`: sizes are positive, `COUNT_MAX` is at least 3 because the counter
also counts the bytes of the FCS (it is 15 in the code), and the rooms that
`memac_raw_tx_alloc` gives are apart, in the buffer, and shorter than the queues' `len`
counts (42 and 1514 of 2048). Nothing is assumed of the length of a reply;
`FramesFit`: a frame is shorter than the length counter's range. Of the capture `SessionAssumption` and `StreamAssumption`: sizes are positive.

Hypotheses of theorems, each needed, with the run that shows it where there is one:

- `GAP >= 2`: after a single idle cycle the next packet begins in the cycle in
  which the descriptor of the last one is strobed, and it is begun on a test of
  the queue made before that. `PostsOnlyToRoom` fails then as the flags do in run
  `rx_fe_gap`. A sender of Ethernet leaves twelve octets.
- *no preamble is longer than `COUNT_MAX`*: with sixteen bytes of `0x55` the
  counter has come round, and `PRE_SHORT` and `PRE_LONG` may both be set.
- `CYCLES = 1`: at 10 and 100 Mbit/s the bytes sent are not those of the reply
  (run `tx_slow`, finding 3). The other theorems about `MemacTx` hold at any speed.
  Replies longer than their rooms are not a hypothesis: each statement has them, and
  says itself what it leaves out (`~spilt`, or the length of the reply concerned).
- `Given` (of `RamInit_proofs`): banks, rows and `K` are positive, a supported size is
  whole rows of all banks, and a command line is a size, then addresses and files in
  turn. The sizes of the code (64, 128 and 256 K in 4 banks of rows of 16 bytes) are;
  with another size the last row would be printed past the end of the array. A file
  and an address are known by their place in the command line.
- `RealLengths` (of `TmdsDecode_proofs`): preambles, guardbands and packets are of two
  pixels or more (8, 2 and 32 in HDMI). A run of one pixel that is lost or damaged
  leaves nothing to count: the next period begins as if it had never been.
- `Given` (of `TmdsPackets_proofs`) is what a capture of a source is, with or without
  faults. `Layout`: packets are sent one after the other, with any gaps, and the capture
  begins before the first (the extraction begins at `m_start`, a control pixel) and ends
  anywhere, in the middle of a packet, too. `Stream`: audio is a stream of frames; the
  frames of a packet of samples follow those of the one before, if no packet from that one
  on is wrong (what is behind a fault is never looked at). `IsPacket`: a fault is one that the
  client has a test for, a sound packet of samples has its samples in the first
  sub-packets, and at most one of them begins a block. A block has at least two bits. Each
  capture of run `tmds_client` is of this kind, but for the one with an island cut short:
  `at` and `frame` are the numbers it is made from.
- `Polite` (a client comes when the one before it has gone, and goes when it has
  received its pixels): the rest of a client that left early goes to the next one (`server.c:110`), and a request
  that finds `cap_en` set is the run `tmds_session_hang`. `StreamInvariant` and
  `ReadyMeansComplete` hold for clients of any manners.

**The queue.** The three properties are about `w_rdy`, `r_rdy` and `r_data`, and
none of them is inductive: `w_rdy` is computed from a flag three cycles old. The
strengthening says what an old flag is still worth. `FullFlagIsSafe`: if stage
`k` of the full flag's synchroniser is clear and no strobe was given in the last
`k` enabled cycles, the queue is not full *now*: only the writer fills it, a pop
by the other side only helps (`PopKeepsRoom`), and the writer has not moved.
`w_rdy` is set on stage 3 together with three quiet cycles, so it implies
`NoOverflow`. `EmptyFlagIsSafe` is the mirror image (`PushKeepsItems`). For the
data, `DataFollowsFlag` says that when stage 2 has gone clear the output register
has already been loaded from the head: the data takes one register, the flag
three, and that difference is what makes a single register enough for a bus that
crosses clock domains. `ReaderInReset` is needed because `r_data` and `r_ef` are
cleared by `a_rst` itself while `r_rdy` is cleared by the synchronised reset:
while one is active the other is too. The lemmas `WEdgeSafe` and `REdgeSafe` do
one edge against any one step of the other side (`ReadPtrRestsOrPops`,
`WritePtrRestsOrPushes`); the three tick lemmas instantiate them.

That a ready is *kept* needs the opposite bound. `SafetyInv` says what a flag
that is clear is worth; `ReadyInv` says that no stage behind a shown ready can be
set. `EmptyFlagsAgree`: while the queue is not empty and the reader has been
quiet, a stage that is clear has only clear stages behind it, for the writer
can only make the queue less empty. So a ready, which rests on the last stage,
has nothing behind it that would take it back (`ReadReadyIsClear`); likewise
`FullFlagsAgree` and `WriteReadyIsClear`. `WriterInReset` is the detail that a
test would hardly reach: `w_ff` has no asynchronous reset, so a full flag from
before a reset may survive in it, and it is the reset of the writer, synchronised
over as many stages, that shifts it out before `w_rdy` can be shown.

The refinement maps `queue` to the slots from `r_ptr` to `w_ptr` of the ring.
`Place(r, i)` is the `i`-th of them and `Dist(w, r)` their number; both are
arithmetic modulo `DEPTH` under an arbitrary code. `PlaceValue`, `DistPush` and
`DistPop` remove the modulus, once; `PushContents` (a write at `w_ptr` appends)
and `PopContents` (a step of `r_ptr` takes the tail) are then statements about
sequences, and `SlotsStep` combines them for a step in which both sides move. Room
and items come from `SafetyInvariant`, without which a push would empty the ring.

`MemacPost` drives the queue, so its steps are steps of the queue's clocks with
the strobe of the front end for `w_stb`. `StrobeMeetsReady` is the assumption
that the queue makes of its writer, and it is proved rather than assumed: a
strobe lasts while its enable is down, and under `RightWiring` the queue does not
clock its write side either. With it the lemmas of the queue apply, and
`PushContents` turns the one edge that takes the strobe into one descriptor of
`owed`.

**The receive front end.** The invariant is built in layers, and each layer is
proved with those below it as facts. `TypeInv` needs nothing. `WireInv` says what
stands in the five stages of the byte pipeline: consecutive bytes of one frame,
then two idle places or more, so that the last stages never hold two frames at once.
`FsmInv` ties the state machine to the byte in the last stage: in `PRE` it is a
byte of the preamble, in `PKT` and `FCS` the place in the frame is the start of
the packet and what has been counted of it, and the error and
checksum collected so far are those of that frame. `RoomInv` says that room
found in the queue when the frame began is still there at the strobe, since only this
side fills the queue; `ReclaimInv` that what the reclaim side has fetched is the
head that its strobe will pop. With these, `Inv4`, the length counter can be read
as a number that has not wrapped (`LenInv`). `RingInv` then gives the packets of the
ring *absolute positions*, numbers that only grow and of which the pointers of the
code are the remainders: freed, waiting, being fetched and under construction
follow each other from tail to head without a hole, and head minus tail is at most
`BUF_SIZE`, with the full flag telling the two cases of equal pointers apart. Two
places of different packets then differ by less than `BUF_SIZE`, so their
remainders differ, which is `NeverOverwritesAPacket`. `ContentInv` adds what the
bytes are (`PartInv` for the packet being received, `Fits` for one announced);
it can only be preserved because of `RingInv`, and the four properties of packets
and flags are read off it. Last comes `SpaceInv`: what the code adds up in pointers, the property adds
up in the sequence of packets, and both are brought to one number. That a sum over a
sequence is that of its head and its tail, or of its front and its last, is an
induction over the naturals: the set of lengths for which it holds contains 0 and with
`n` also `n + 1`, and is `Nat` because what is missing would have a least element
(`SetInduction`); `SumAppend` and the lemmas beside it are stated once and used in
each step of the ring.

**The transmit path.** None of the properties is inductive, for they relate a
buffer that the firmware fills to an engine that reads it cycles later. `TokenInv`
says that a reserved reply is in *exactly one* place: being built, in the queue to
the front end, held by the engine, strobed, or in the queue that comes back
(`EachReserved`, `EachOnce`). A token names its service by where the reply begins
(`DistinctReplies`: no two begin at the same place), for its length may have been cut.
The engine reads on from there for `buf_len`, and a reply that fits has not been
cut, so what is read for it is it: `ReadsOnlyReserved`. A token that comes back
matches its service or has been cut, which is `FreesAreKnown`. `RoomInv` says that the room in the
free queue for which the state `FIN` waits is still there when the descriptor is
returned, since only the front end fills that queue. The refinement maps the phase
of a service to the place of its token. All this is true of replies of any
length. What is true of the bytes only until one has left its room has the invariant
`SafeInv /\ (~spilt => FitInv /\ BufInv /\ PipeInv)`: `FitInv` says that all lengths
are within the rooms, `BufInv` that
the part of the buffer a token names holds one build of its reply, and `PipeInv`
what each register between the address and the wire holds: `Pos` counts the symbols
of the frame that have been selected, three more than are out on the wire, and the
stages of the selector, the word and byte read from the buffer and the CRC are those of the
places in between. At one cycle per byte select and RAM
agree; that is the use of `CYCLES = 1`. `GapInv` counts the idle octets against
the counter of the state that waits.

**The capture.** `StreamInv` says where each word of a capture is: in the buffer
up to `dma.done`, in the FIFO two pixels to an entry (`FifoInv`), in the word
under construction (`WordInv`), or still to come from `NextPlace` on (`CountInv`). As long
as no word is lost these follow each other without a gap. After a loss everything
behind it is at a later place than its turn, so the hardware counts to the end before the
buffer is full, the engine is never done and its buffer keeps the pattern `Fill` at the
end: that is `ReadyIsComplete`, with or without losses. `EnableInv` is the part
about the two clocks: between the enable and its edge at the pixel clock nothing of
an older capture is under way. With polite clients `PeopleInv` says that at most one of
them is past its request, that it and one control block point at each other, and that
the others wait or are gone; `TransferInv` that what it has received, what is in flight
and what remains add up to its request *place by place*; `OwnInv` that the pixels are
of the capture made for it. `CaptureIsHandedOver` follows: when a capture or a fill
writes, nothing remains to be sent and nothing is in flight.

**The decode.** `tmds_cap.py` says of a pixel that is neither sorted nor video
"this should be impossible". It is, because of what two earlier passes have done,
and neither the pass that says so nor the flags it looks at show it.
`ChannelsKnown`: when a later pass comes to a pixel, the first has been over all
channels and has found a class for each symbol. `ControlKnown`: a pixel that is
control on any channel has got a period by the end of the second pass, whatever
the later ones add. A pixel without a period is then no control on any channel,
and every class that is not control is video. That islands are whole packets is
`IslandsKnown`: in the machine over `p_type`, while it is in `data`, `p_count` is
the length of the run so far, the run is marked as data back to its first pixel
and the pixel before is not; so the test of `p_count` when the guardband comes is
a test of the run, and no later pixel lengthens a run that has been tested. That
the file gives back the result needs only that no pass after the writing changes
what was written (`FileIsTheResult`).

A *legal* capture is described without the decoder (`IsLegal`): each pixel carries the
characters of the period it was sent in, periods follow each other as the standard
says (`After`), each that is seen whole has a length it may have (`MayLast`), and one
control pixel outside a preamble is in it; it may begin and end in the middle of
anything. `LegalInv` then says, pass by pass, exactly what each pixel has: after
`resolve` the pixels of control characters are marked and nothing else (`First`),
after `preambles` the preambles too, but only from `m_start` on (`Second`), after
`islands` everything but video (`Third`). The point of the proof is `RunKnown`: in the
machine over `p_type` the state is that of the pixel before and `p_count` the length
of the *run of the source*, so each test of the code is a test of `MayLast`; it needs
that `m_start` is the first control pixel of all, for before it a cut preamble
could be taken for one. Video is the only period whose characters may be those of
another: that is what `~LooksLikeGb` excepts, and why video is sorted last.

*One fault* (`OneFaultStaysThere`) is the same capture with a pixel `e` of it damaged in any
way, or one lost in front of it; what was sent must then be legal, not what arrived
(`DamagedAt`, `LostAt`). Up to `e` the machine is `InStep`: its state is the period of the
pixel before and, where the run's beginning is known, `p_count` its length
(`Counted`). The proof is about what it can be after `e`. If the
damage is in a run (`DamageInRun`), what follows would complete a run too short or
too long (`NoRunOfOne`, `OneMore`, `NoMultiple`: one pixel more or fewer is no
multiple of a packet of two or more), so either the test of the run finds an error or
the machine is `Astray`, in one of the few states that the code allows only because they
cannot last. From each of them `ComesBack`: the next pixel gives an error, or it is sorted
as it was sent and the machine is in step again. A lost pixel either leaves two periods
that may follow each other or takes away the one control pixel behind an island or
a line (`LossLeaves`); then, too, the machine is in step or astray for one pixel
(`LossIsMet`). After that `p_count` is no longer known to be the length of the source's run, but it
decides only whether there is an error, and an error is no wrong answer here.
What the property excepts: the pixel at which
decoding starts must be sound; a line may not begin like its guardband; and a source
with preambles sends no video without one, for a lost preamble could not be told
from such a line (`MaySend`).

**The packets.** The extraction has the invariant `FoundSoFar(P)`: `packet_dict` is exactly
the first `P` packets of the source, each in the list of its type at the place that the
number of those ahead of it gives (`Ahead`), the last of them ends by `p_i`, and the next does
not begin before it. Because the first pixel at which the loop stops with `p_i` on data is
then the first of packet `P+1`, what is gathered is that packet and not a mixture
(`Extracting`), and when fewer than `PacketLen` pixels are left, packet `P+1` is not whole
(`AllFound`). `StopsInv` is about the places before (`p_i`, `p_j`): no packet there is wrong. What
makes it inductive is `Judged`: decoding a packet with good codes either stops, if the packet
is wrong, or does not, if it is right, through all the nested breaks of the samples
(a `stop` that is set in a pair is still set after the last one, `PairJudges`).

The channel status has an invariant of its own, because a block is put together over many
packets. `ChannelAt(all, raw, ch, F, X)` says what the arrays of a channel are when the
frames `F .. X-1` of the stream have been heard: nothing, if none of them begins a block; else
a piece of each block from the first that begins among them, all of full length but the last,
and `raw` has the places of the full ones (`Filled`). `OneFrame` is the step from `X` to `X+1`,
with its three cases: a block begins, it goes on, it becomes whole. `PairHears` and
`SamplesHeard` carry it through the pairs of one packet in both layouts. `AudioInv` adds
that `X` is where the next packet of samples begins, so that there is no gap between
packets (`FollowsOn`): its hypothesis is that no packet before it is wrong, which is why the
property speaks of the pass that is only reached then (`AllPassed`). At the end
`Heeds` turns `Filled` into numbers of blocks: those taken are `t .. t+N-1`, and these are
the blocks all of whose bits are in the capture (`WhichBlocks`, the arithmetic of frames,
blocks and places). Hence both directions: no block with a bit of another, none left out.

**The table** of `random_1to1.py`: `FilledToI` (the first `i` entries are filled
and no other; when printing, `i+j` numbers are out) and `PrintedSoFar` (each of them
with its separator) are inductive together with `OneToOne`; the case of interest
is the last line, which ends before its length.

**The RAM.** Of `np6532_ram_init.py` the invariant has one part for each loop.
`PairsInv`: the pairs read so far are the first of the command line, each address
is in the RAM. `DataInv`: after `n` files each byte is that of the *last* file that
covers it (`LaidBy`) or is untouched, and all of them fit. `PrintInv`: of each bank
are printed as many bytes as the loops say, the `k`-th from address
`(k - 1)*BANKS + bank`. The property turns this round: address `a` is byte
`a \div BANKS` of bank `a % BANKS`, and that every address is printed is the arithmetic
of `Quotient` and of whole rows.

Only model-checked: `TmdsTiming`, whose verdicts are folds over the lines and fields of a
capture (of a source cut anywhere they must hold together, and which of them is
tested first matters); and the generators `char_rom.py`,
`video_mode.py` and `np65_decoder.py`, whose properties are about their sheets and
drawings. The tables of `TmdsCode` and `HdmiBch` are finite: TLC checks all of them. Out of
the prover's reach: everything under fairness (`ReadyIsOffered`, `RequestIsAnswered`,
`EveryRequestIsServed`).

## 5. Findings

1. `post_rx`: the PRQ of `memac_rx.vhd` has its clock enables exchanged (lines
   140 and 145, against `memac_tx.vhd:176,181`). At 10 and 100 Mbit/s one strobe
   of the front end enqueues its descriptor once per cycle that it lasts.
2. `rx_fe_gap`: with one idle cycle between frames `memac_rx_fe.vhd:250` (and
   229) replaces the flags one cycle before they are posted, so `TRUNCATE` and
   `FCS_BAD` of the first frame are lost. The test bench draws gaps from 1 up.
3. `tx_slow`: `memac_buf.vhd:117` clocks the byte select without the enable that
   the RAMs have. At 10 and 100 Mbit/s the byte that is sent is selected by the
   next address. The front end's test bench has a buffer of its own and runs at
   1000 Mbit/s.
4. `tmds_session_hang`: `server.c:97` calls `cap_start` with `cap_en` still set
   when a request comes after the end of a capture and before the poll that would
   have seen it. There is no rising edge for the hardware, the engine that was
   started anew gets no word, `cap_rdy` says 0 for ever and no client is served
   again.

### Also seen while modelling

Behaviour of the code that the models have and no property denies. Where it
would break a property, the property names the case it excepts.

- `memac_raw_icmp.c:28-29,59-72`: the length of a ping's reply is that of the
  request's IP header, compared neither with `IP_MTU` (line 100), nor with the length of
  the packet received, nor with the 1514 bytes allocated (`memac_raw_tx_alloc`, lines 142-150).
  From 2048 bytes on the bridge cuts the length to eleven bits
  (`mb_mcs_memac_bridge.vhd:188,242`): a frame of the remaining length is sent,
  the descriptor that comes back matches no reply (`:79`), and the ICMP reply stays
  reserved, so that no ping is answered any more. Of that `FreesAreKnown` and
  `RequestIsAnswered` except only the service concerned, and show that ARP goes on.
  Longer than the rest of the buffer (8192 bytes,
  `build/mb_mcs_memac/*/makefile:11`, of which the reply begins at 42), it is
  written round the end (`memac_raw.c:24`) over the ARP reply, which may be on its
  way out: `FrameIsWellFormed` is about the time before (`~spilt`).
- `video_mode.py:101,137` say of the port `aspect` "0x = normal, 10 = force 16:9, 11 =
  force 4:3"; lines 224-230 drive 01 for 4:3. What is driven is right for
  its consumer, the AVI InfoFrame of `vga_to_hdmi.vhd:720`, for which `ModeIsTheSheets`
  checks it; the comments are not.
- `tmds_cap.py:46`, `server.c:94-97`: the number of pixels asked for is checked by neither
  side. The model's requests are from one to what the buffer holds.
- `tmds_cap.py:117`: the loop that receives never advances `i`: what comes later
  overwrites the beginning of the buffer, and the loop does not end when all has
  come.
- `:459` compares the counter of the length of a control period, which is never
  incremented; `:500` the characters of a video guardband are also characters of
  video, so a line that begins with them is rejected (`LooksLikeGb`); `:532` an error
  message calls `printf`, which Python does not have; `:596` the file of decoded data
  is written after a decode that stopped, too.
- `:812` and the loops after it (`:825`, `:909`) begin with the level with which the one
  before ended. A capture that begins or ends in a sync pulse sees an edge there; a
  progressive source may be taken for an interlaced one, which then ends in a
  `NameError` (`OutsideSyncs`). `:708` slices an event that may be `None`; `:766` a format
  with three places has two values; `:830` counts the active pixels of a line that is
  not whole.
- `:1045` in the layout of eight channels the channel number goes to 13, and the lists
  end at 7; `:1152` an Audio InfoFrame with CC = 0 ends in a `TypeError` of its message;
  `:1268` and `:1367` take the first of a list that may be empty, so the report of a
  source without audio ends there; `:1273` the result of `type_key` is not assigned, so
  that what is said of the Audio InfoFrames is the verdict on those for AVI; `:1390`
  the dump after an error of the timing is not reached, because there is no audio then.
- `server.c:110`: `tcp_pcb_tx` and the counters outlive their connection. If a
  client leaves in the middle of its transfer, the next one gets the rest of it
  first. The session run has polite clients, and `EveryClientGetsItsOwn` excepts
  the case in which the buffer has been captured into again (`mine # capture`).
- `np6532_ram_init.py:32` a size that is not supported ends in a `TypeError` of the
  message about it; `:39` leaves the loop before the last argument, so the message of
  `:47` about a missing file cannot come. `char_rom.py:85` accepts an image that is no
  array of whole characters; `:171` reads rows that do not exist if the height is not a
  power of two. `video_mode.py:23` cuts the byte order mark off as `cp1252` decodes it:
  under UTF-8 it stays in the first type. `np65_decoder.py:171`-`175` does not cut a value that is too large
  for its field, which moves all later ones.

## 6. Not modelled

The parts of the table at the end of section 1 that the plan below names; and, for
good: instruction set interpreters, character and key tables, wiring of boards,
simulation models and test benches, and whatever is timing of analogue signals.
`tmds_cap_csr_ra.py` prints constants from a list and keeps no state. Of the
modelled programs, the text of what they print and the parsing of their command
lines are left out, except where a property is about them.

## 7. Plan

In this order, the most important first.

1. *MAC, the rest.* The reset
   of `MemacTx` in mid packet (`s1_umi_sel` is not in the reset list);
   `MemacSpd`, `MemacRgmii` (clock enables, odd nibbles); `MemacMdio` with the
   bridge.
2. *Proofs.* The text of a generator (`VideoMode`, `Np65Decoder`) as a function of its sheet.
3. *Frame buffer.* `MigHub` with the abstract `MemoryPorts` (each port sees a
   memory of its own and its answers in its order), then `MigBridgeAxi` and
   `MigBridgeCrtc` composed with it: reads in flight across a vertical sync.
4. *AXI.* `Axi4l` (with liveness of reads), `Axi4Srw32`: answers in order, one
   per request.
5. *Serial.* `MuartTx` against a stream; `Ps2Host` with a device; `I2cRep` and
   `I2cRam` with one master.
6. *HyperRAM*: `HramCtrl`.
7. *np65 zero page cache* with DMA.

Each gets a module with a type invariant and the property of the inventory, an
`MC` module of two or three actors, and a theorem where its safety does not
depend on the size of the instance (`MigHub`, `MuartTx`, `Axi4l`).
