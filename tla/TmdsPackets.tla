------------------------------ MODULE TmdsPackets -----------------------------
(***************************************************************************)
(* tmds_cap.py from "extract data island packets" to the end: the packets  *)
(* are taken out of the islands, sorted by type, checked and decoded; the  *)
(* channel status of the audio is put together from the samples; packets   *)
(* that repeat are compared; and the report is printed.                    *)
(*                                                                         *)
(* A packet is what its bytes say: its type, whether its codes are right,  *)
(* which rule of its type it breaks ("" if none), what of it is compared   *)
(* with its repetitions (raw), and for audio samples which sub-packets     *)
(* have a sample (SP), begin a block (B), and what is in them.  A bit of   *)
(* channel status is named for its place in the source.  An exception      *)
(* that is not caught ends the program: exc is its name.  (i and stop of   *)
(* the program are p_i and p_stop here: module TmdsDecode has its own.)    *)
(***************************************************************************)
EXTENDS Integers, Sequences, FiniteSets, SequencesExt

CONSTANTS
  PacketCaptures,  \* [pix, packets, protocol, err_i]; a pixel is <<>> or a packet
                   \* and a place in it; err_i > 0 if its timing was bad
  PacketLen,       \* spec.hdmi.PACKET_LEN
  BlockLen         \* bits of a channel status block; 192

VARIABLES
  cap, p_pass, p_i,
  p_j,                     \* place in packet_list; p_i is that of its type
  packet_dict,             \* a sequence of [type, list], in the order of the keys
  p_stop, exc,
  arrays,                  \* per channel, every array made for iec60958_cs_raw_tmp; the
                           \* last is the one being filled, and stays so after
  iec60958_cs_raw,         \* it was put here: per channel, places in arrays
  iec60958_cs,
  verdicts,                \* what was said of the consistency of each kind of InfoFrame
  printed                  \* parts of the report
audio_vars == <<arrays, iec60958_cs_raw>>
packet_vars == <<cap, p_pass, p_i, p_j, packet_dict, p_stop, exc, audio_vars, iec60958_cs, verdicts, printed>>

AVI == "InfoFrame: AVI"
SPD == "InfoFrame: SPD"
Audio == "InfoFrame: Audio"
Samples == "Audio Sample"
InfoFrames == {AVI, SPD, Audio}
OtherInfoFrames == {"InfoFrame: Vendor Specific", "InfoFrame: MPEG Source", "InfoFrame: NTSC VBI", "InfoFrame: DRM"}
Channels == 0 .. 7
n_pix == Len(cap.pix)

PacketsInit ==
  /\ cap \in PacketCaptures
  /\ p_pass = IF cap.protocol = "HDMI" /\ cap.err_i = 0 THEN "extract" ELSE "report"
  /\ p_i = 0 /\ p_j = 0 /\ packet_dict = <<>>
  /\ p_stop = (cap.err_i > 0) /\ exc = ""
  /\ arrays = [ch \in Channels |-> << <<>> >>]
  /\ iec60958_cs_raw = [ch \in Channels |-> <<>>] /\ iec60958_cs = [ch \in Channels |-> <<>>]
  /\ verdicts = [t \in InfoFrames |-> "none"] /\ printed = {}

Goto(next) == p_pass' = next /\ p_i' = 0 /\ p_j' = 0
\* Later passes are skipped once the analysis has stopped.
GotoUnlessStopped(next) == Goto(IF p_stop' THEN "report" ELSE next)

------------------------------------------------------------------------------
(* "extract data island packets".                                          *)

RoomStrict(k) == n_pix - k > PacketLen
Room(k) == n_pix - k >= PacketLen
Known(type) == \E k \in DOMAIN packet_dict : packet_dict[k].type = type
StoreNew(d) == Append(packet_dict, [type |-> d.type, list |-> <<d>>])
Store(d) ==
  IF ~Known(d.type) THEN Append(packet_dict, [type |-> d.type, list |-> <<d>>])
  ELSE [k \in DOMAIN packet_dict |->
          IF packet_dict[k].type = d.type THEN [packet_dict[k] EXCEPT !.list = Append(@, d)] ELSE packet_dict[k]]

\* The packet whose pixels begin at k.  A pixel of something else among them is
\* no TERC4 word: terc4.index raises.
Gather(k) == cap.packets[cap.pix[k+1][1]]
AllTerc4(k) == \A j \in 1 .. PacketLen : cap.pix[k+j] = <<cap.pix[k+1][1], j>>

ExtractPixel ==
  /\ p_pass = "extract" /\ p_i < n_pix
  /\ IF cap.pix[p_i+1] = <<>>
     THEN p_i' = p_i + 1 /\ UNCHANGED <<packet_dict, p_pass, p_j, exc>>
     ELSE IF ~Room(p_i)
     THEN p_i' = n_pix /\ UNCHANGED <<packet_dict, p_pass, p_j, exc>>
     ELSE IF ~AllTerc4(p_i)
     THEN exc' = "ValueError" /\ Goto("end") /\ packet_dict' = packet_dict
     ELSE p_i' = p_i + PacketLen /\ packet_dict' = Store(Gather(p_i)) /\ UNCHANGED <<p_pass, p_j, exc>>
  /\ UNCHANGED <<cap, p_stop, audio_vars, iec60958_cs, verdicts, printed>>

EccOfHeader(d) == d.ecc # "header"
Ecc(d) == d.ecc = "good"
\* "check data island packet ECC".
CheckEcc ==
  /\ p_pass = "extract" /\ p_i >= n_pix
  /\ p_stop' = \E k \in DOMAIN packet_dict : \E l \in DOMAIN packet_dict[k].list : ~Ecc(packet_dict[k].list[l])
  /\ GotoUnlessStopped("decode")
  /\ UNCHANGED <<cap, packet_dict, exc, audio_vars, iec60958_cs, verdicts, printed>>

------------------------------------------------------------------------------
(* "decoding and checking data island packets".                            *)

\* The arrays of all channels, the blocks taken, and how it went.
Work == [arrays |-> arrays, raw |-> iec60958_cs_raw, stop |-> FALSE, exc |-> ""]

\* A bit of channel status: a new array at the begin of a block; otherwise the
\* last one, if it has been begun, and it is a block when it has the length.
BitCount(w, ch, C, begins) ==
  LET all == w.arrays[ch]
      now == Append(Last(all), C)
  IN IF Len(now) = BlockLen
     THEN [w EXCEPT !.arrays[ch] = Append([@ EXCEPT ![Len(all)] = now], <<>>), !.raw[ch] = Append(@, Len(all))]
     ELSE [w EXCEPT !.arrays[ch][Len(all)] = now]
Bit(w, ch, C, begins) ==
  LET all == w.arrays[ch]
      now == Append(Last(all), C)
  IN IF begins THEN [w EXCEPT !.arrays[ch] = Append(@, <<C>>)]
     ELSE IF Last(all) = <<>> THEN w
     ELSE [w EXCEPT !.arrays[ch][Len(all)] = now,
                    !.raw[ch] = IF Len(now) = BlockLen THEN Append(@, Len(all)) ELSE @]

\* One member of a sample pair; bad parity ends the pair, not the packet.
ChannelOf(a, spn, spm) == IF a.LAYOUT = 0 THEN spm ELSE spn*4 + spm
Member(w, a, spn, spm) ==
  IF ~a.parity[spn][spm] THEN [w EXCEPT !.stop = TRUE]
  ELSE IF ChannelOf(a, spn, spm) \notin Channels THEN [w EXCEPT !.exc = "IndexError"]
  ELSE Bit(w, ChannelOf(a, spn, spm), a.C[spn][spm], spn \in a.B)
Pair(w, a, spn) ==
  IF w.exc # "" \/ spn \notin a.SP THEN w
  ELSE LET left == Member(w, a, spn, 0) IN
       IF ~a.parity[spn][0] \/ left.exc # "" THEN left ELSE Member(left, a, spn, 1)

Fails(w) == [w EXCEPT !.stop = TRUE]
Raises(w, name) == [w EXCEPT !.exc = name]
DecodeSamples(d) ==
  LET a == d.audio IN
  IF d.fault = "msbs" THEN Raises(Work, "TypeError")            \* of the message
  ELSE IF a.LAYOUT = 0 /\ a.SP \notin {0 .. k-1 : k \in 0 .. 4} THEN Fails(Work)
  ELSE IF Cardinality(a.B) > 1 THEN Fails(Work)
  ELSE Pair(Pair(Pair(Pair(Work, a, 0), a, 1), a, 2), a, 3)

\* Every InfoFrame has its HB2 and its checksum looked at, three of them more;
\* CC = 0 is a message, too.
DecodeInfoFrame(d) ==
  IF d.fault = "msbs" THEN Raises(Work, "TypeError")
  ELSE IF d.fault \in {"checksum", "length"} THEN Fails(Work)
  ELSE IF d.type = SPD /\ d.fault = "ascii" THEN Fails(Work)
  ELSE IF d.type = Audio /\ d.CC = 0 THEN Raises(Work, "TypeError: CC")
  ELSE IF d.type = Audio /\ d.fault = "field" THEN Fails(Work)
  ELSE Work

DecodeType(d) ==
  CASE d.type = "unknown" -> Fails(Work)
    [] d.type = "Null" -> IF d.fault = "content" THEN Fails(Work) ELSE Work
    [] d.type = Samples -> DecodeSamples(d)
    [] d.type \in InfoFrames \cup OtherInfoFrames -> DecodeInfoFrame(d)
    [] OTHER -> Work                                            \* General Control, ACP, ...

\* The types in the order of packet_dict, and the packets of each.
packet_list == packet_dict[p_i+1].list
NextPacket == IF p_j + 1 < Len(packet_list) THEN p_j' = p_j + 1 /\ p_i' = p_i ELSE p_j' = 0 /\ p_i' = p_i + 1
DecodePacket ==
  /\ p_pass = "decode" /\ p_i < Len(packet_dict)
  /\ LET w == DecodeType(packet_list[p_j+1]) IN
     /\ arrays' = w.arrays /\ iec60958_cs_raw' = w.raw
     /\ p_stop' = w.stop /\ exc' = w.exc
     /\ IF w.exc # "" THEN Goto("end") ELSE IF w.stop THEN Goto("report") ELSE p_pass' = p_pass /\ NextPacket
  /\ UNCHANGED <<cap, packet_dict, iec60958_cs, verdicts, printed>>

\* "processing raw IEC 60958 channel status blocks".
Block(ch, k) == SubSeq(arrays[ch][k], 1, BlockLen)
BuildBlocks ==
  /\ p_pass = "decode" /\ p_i = Len(packet_dict) /\ Goto("compare")
  /\ iec60958_cs' = [ch \in Channels |->
       [k \in DOMAIN iec60958_cs_raw[ch] |-> Block(ch, iec60958_cs_raw[ch][k])]]
  /\ UNCHANGED <<cap, packet_dict, p_stop, exc, audio_vars, verdicts, printed>>

\* "checking consistency of ...": AVI, Audio and SPD.  ptype is not set for
\* Audio.  Differing packets are listed with their first note; AVI has none.
Listed(type) == IF Known(type) THEN packet_dict[CHOOSE k \in DOMAIN packet_dict : packet_dict[k].type = type].list ELSE <<>>
Alike(list) == \A k \in DOMAIN list : list[k].raw = list[1].raw
Verdict(ptype) ==
  IF Len(Listed(ptype)) <= 1 THEN "none" ELSE IF Alike(Listed(ptype)) THEN "OK" ELSE "differences found"
Compare ==
  /\ p_pass = "compare"
  /\ IF Verdict(AVI) = "differences found"
     THEN /\ verdicts' = [verdicts EXCEPT ![AVI] = Verdict(AVI)]
          /\ exc' = "IndexError: notes" /\ Goto("end")
     ELSE /\ verdicts' = [t \in InfoFrames |-> IF t = SPD THEN Verdict(SPD) ELSE Verdict(AVI)]
          /\ exc' = exc /\ Goto("report")
  /\ UNCHANGED <<cap, packet_dict, p_stop, audio_vars, iec60958_cs, printed>>

\* The report, with the first channel status block, and after it the dump of
\* what is around an error of the timing.
Report ==
  /\ p_pass = "report" /\ Goto("end")
  /\ IF iec60958_cs[0] = <<>>
     THEN exc' = "IndexError: no CSB" /\ printed' = {"timings", "packet counts"}
     ELSE /\ exc' = exc
          /\ printed' = {"timings", "packet counts", "CSB"} \cup (IF p_stop /\ cap.err_i > 0 THEN {"dump"} ELSE {})
  /\ UNCHANGED <<cap, packet_dict, p_stop, audio_vars, iec60958_cs, verdicts>>

PacketsNext == ExtractPixel \/ CheckEcc \/ DecodePacket \/ BuildBlocks \/ Compare \/ Report
PacketsSpec == PacketsInit /\ [][PacketsNext]_packet_vars

------------------------------------------------------------------------------
(* Properties.                                                             *)

\* packet_dict has each type once, with its packets; the arrays taken as blocks
\* are there, each once and in their order.
PacketTypes ==
  /\ p_pass \in {"extract", "decode", "compare", "report", "end"}
  /\ p_i \in 0 .. (IF p_pass = "extract" THEN n_pix ELSE Len(packet_dict))
  /\ p_pass = "decode" /\ p_i < Len(packet_dict) => p_j \in 0 .. Len(packet_list)-1
  /\ \A k \in DOMAIN packet_dict :
       /\ packet_dict[k].list # <<>>
       /\ \A l \in DOMAIN packet_dict[k].list : packet_dict[k].list[l].type = packet_dict[k].type
       /\ \A l \in DOMAIN packet_dict : packet_dict[k].type = packet_dict[l].type => k = l
  /\ \A ch \in Channels : \A k \in DOMAIN iec60958_cs_raw[ch] :
       iec60958_cs_raw[ch][k] \in DOMAIN arrays[ch] /\ (k > 1 => iec60958_cs_raw[ch][k] > iec60958_cs_raw[ch][k-1])

\* The packets that are whole in the capture, and how many of its type are
\* before one of them.
Whole == {p \in DOMAIN cap.packets : \E k \in 0 .. n_pix - PacketLen : \A j \in 1 .. PacketLen : cap.pix[k+j] = <<p, j>>}
WholeOf(type) == {p \in Whole : cap.packets[p].type = type}
Before(p) == Cardinality({q \in WholeOf(cap.packets[p].type) : q < p})
\* Every packet that is whole in the capture is found, and no other, wherever
\* the capture is cut; those of a type keep their order.
PacketsAreFound ==
  p_pass \notin {"extract", "report", "end"} =>
    /\ {packet_dict[k].type : k \in DOMAIN packet_dict} = {cap.packets[p].type : p \in Whole}
    /\ \A k \in DOMAIN packet_dict :
         LET list == packet_dict[k].list IN
         /\ Len(list) = Cardinality(WholeOf(packet_dict[k].type))
         /\ \A p \in WholeOf(packet_dict[k].type) : list[Before(p)+1] = cap.packets[p]

\* A bit of the source is <<block, place, channel>>.  Every channel status
\* block is one of the source, whatever of it the capture begins and ends with,
\* and a channel has them in order and none twice.
BlocksAreTheSources ==
  \A ch \in Channels : \A k \in DOMAIN iec60958_cs[ch] :
    LET block == iec60958_cs[ch][k] IN
    /\ Len(block) = BlockLen
    /\ \A j \in 1 .. BlockLen : block[j] = <<block[1][1], j-1, ch>>
    /\ k > 1 => block[1][1] > iec60958_cs[ch][k-1][1][1]

\* And every block whose bits are all in the capture is there.
BitsSeen(ch) ==
  UNION {{cap.packets[p].audio.C[spn][ch] : spn \in cap.packets[p].audio.SP} : p \in WholeOf(Samples)}
NoBlockIsMissed ==
  p_pass = "compare" =>
    \A ch \in {0, 1} :
      {iec60958_cs[ch][k][1][1] : k \in DOMAIN iec60958_cs[ch]} =
        {b \in {bit[1] : bit \in BitsSeen(ch)} : \A j \in 0 .. BlockLen-1 : <<b, j, ch>> \in BitsSeen(ch)}

\* The packets found are the packets that are whole in the capture, and the
\* blocks of channel status put together from their bits are the source's, none
\* twice and none left out.
PacketsAreTheSources == PacketTypes /\ PacketsAreFound /\ BlocksAreTheSources /\ NoBlockIsMissed

\* A packet in which anything is wrong stops the analysis before a word is
\* said of the blocks or of the consistency; if nothing is, it does not stop.
Wrong(d) ==
  \/ d.ecc # "good" \/ d.fault # "" \/ d.type = "unknown"
  \/ d.type = Samples /\ \E spn \in d.audio.SP, spm \in {0, 1} : ~d.audio.parity[spn][spm]
StopsExactlyAtFaults ==
  /\ p_pass = "compare" => \A p \in Whole : ~Wrong(cap.packets[p])
  /\ p_stop => cap.err_i > 0 \/ \E p \in Whole : Wrong(cap.packets[p])
===============================================================================
