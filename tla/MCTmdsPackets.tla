----------------------------- MODULE MCTmdsPackets ----------------------------
(* Streams of packets of two pixels, with blocks of five bits: audio cut at  *)
(* any pixel; packets of each type with every defect; sources without audio. *)
EXTENDS TmdsPackets

None == [LAYOUT |-> 0, SP |-> {}, B |-> {}, C |-> <<>>, parity |-> <<>>]
Plain(type, raw) == [type |-> type, ecc |-> "good", fault |-> "", raw |-> raw, CC |-> 1, audio |-> None]

\* Audio frames first .. first+count-1 of a stream in one packet; frame f has
\* bit f % BlockLen of block f \div BlockLen.
Frames(first, count, layout) ==
  LET frame(spn) == IF layout = 0 THEN first + spn ELSE first IN
  [LAYOUT |-> layout, SP |-> 0 .. count-1,
   B |-> {spn \in 0 .. count-1 : frame(spn) % BlockLen = 0 /\ (layout = 1 => spn = 0)},
   C |-> [spn \in 0 .. 3 |-> [spm \in {0, 1} |-> <<frame(spn) \div BlockLen, frame(spn) % BlockLen, spm>>]],
   parity |-> [spn \in 0 .. 3 |-> [spm \in {0, 1} |-> TRUE]]]
Sound(first, count) == [Plain(Samples, 0) EXCEPT !.audio = Frames(first, count, 0)]
\* counts[k] frames in the k-th packet, from frame first on.
Stream(first, counts) ==
  [k \in DOMAIN counts |-> Sound(first + FoldLeft(LAMBDA a, b : a + b, 0, SubSeq(counts, 1, k-1)), counts[k])]

\* Islands of one packet and of two, with a gap of a pixel between them.
Pixels(packets) ==
  FlattenSeq([p \in DOMAIN packets |-> [j \in 1 .. PacketLen |-> <<p, j>>] \o (IF p % 3 = 1 THEN <<>> ELSE << <<>> >>)])
Capture(packets, length, protocol, err) ==
  [pix |-> <<<<>>>> \o SubSeq(Pixels(packets), 1, IF length < Len(Pixels(packets)) THEN length ELSE Len(Pixels(packets))), packets |-> packets, protocol |-> protocol, err_i |-> err]
WholeCapture(packets) == Capture(packets, Len(Pixels(packets)), "HDMI", 0)

Counts == {<<1, 2, 4, 0, 3, 4, 1>>, <<4, 4, 4, 4>>, <<2, 2, 2, 2, 2, 2, 2>>, <<3, 1, 3, 1, 3, 1, 3>>, <<4, 4, 1, 2, 3, 4, 4>>}
Cut == {Capture(Stream(first, c), length, "HDMI", 0) : first \in 0 .. BlockLen-1, c \in Counts, length \in 4 .. 20}
Others == <<Plain("Null", 0), Plain(AVI, 1), Plain("General Control", 0), Plain(SPD, 1), Plain(Audio, 1), Plain(AVI, 1)>>
Mixed == Others \o Stream(BlockLen-1, <<4, 3>>) \o <<Plain(Audio, 1)>>
With(k, d) == WholeCapture([Mixed EXCEPT ![k] = d])
Faults == {"content", "msbs", "checksum", "length", "ascii", "field"}
May(type) == CASE type = "Null" -> {"content"} [] type = Samples -> {"msbs"}
               [] type = AVI -> {"msbs", "checksum", "length"} [] type = SPD -> {"msbs", "checksum", "length", "ascii"}
               [] type = Audio -> {"msbs", "checksum", "length", "field"}
               [] type \in OtherInfoFrames -> {"msbs", "checksum"} [] OTHER -> {}
Broken ==
  UNION {LET d == Mixed[k] IN
         {With(k, [d EXCEPT !.ecc = e]) : e \in {"header", "subpacket"}} \cup {With(k, [d EXCEPT !.type = "unknown"])}
         \cup {With(k, [d EXCEPT !.fault = f]) : f \in May(d.type)} : k \in DOMAIN Mixed}
  \cup {With(k, [Mixed[k] EXCEPT !.audio.parity[spn][spm] = FALSE]) : k \in {7, 8}, spn \in 0 .. 3, spm \in {0, 1}}
Legal ==
  {WholeCapture(Mixed), WholeCapture([Mixed EXCEPT ![5].CC = 0]), WholeCapture([Mixed EXCEPT ![9].raw = 2]),
   WholeCapture([Mixed EXCEPT ![6].raw = 2]), WholeCapture(Others),
   WholeCapture(<<[Plain(Samples, 0) EXCEPT !.audio = Frames(0, 4, 1)]>>)}
Vendor == "InfoFrame: Vendor Specific"
OtherBroken ==
  {WholeCapture(<<Plain(AVI, 1), [Plain(Vendor, 1) EXCEPT !.fault = f]>>) : f \in {""} \cup May(Vendor)}
\* A decode that stopped at an island cut short, read back from its file.
Short == {[Capture(Others, 9, "HDMI", 0) EXCEPT !.pix = <<<<>>, <<1, 1>>, <<>>, <<2, 1>>, <<2, 2>>>>]}
NotHdmi == {Capture(Others, 9, "DVI", e) : e \in {0, 5}} \cup {Capture(Mixed, 9, "HDMI", 5)}
MCCaptures == Cut \cup Broken \cup OtherBroken \cup Legal \cup Short \cup NotHdmi
===============================================================================
