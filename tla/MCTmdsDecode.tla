----------------------------- MODULE MCTmdsDecode -----------------------------
(* Captures of a source that sends control, data island and video periods, *)
(* begun or ended at any pixel, or with one damaged symbol or one lost     *)
(* pixel.                                                                  *)
EXTENDS TmdsDecode, SequencesExt

Chan(a, b, c) == [k \in Channel |-> <<a, b, c>>[k+1]]
Px(period, hv, a, b, c) == [sym |-> Chan(a, b, c), sent |-> period, hv |-> hv, lost |-> FALSE]
Times(k, px) == [j \in 1 .. k |-> px]
T(hv) == <<"t0", "t1", "t2", "t3">>[hv+1]
C(hv) == ControlSym[hv+1]

Control(k, hv) == Times(k, Px("CTRL", hv, C(hv), "c0", "c0"))
Island(packets, hv, hv2, over) ==
  Times(PRE_LEN, Px("DATA_PRE", hv, C(hv), "c1", "c1"))
  \o Times(GB_LEN, Px("DATA_GB_LEADING", hv, T(hv), "d", "d"))
  \o Times(1, Px("DATA", hv, T(hv), "t1", "g"))
  \o Times(packets*PACKET_LEN - 1, Px("DATA", hv2, T(hv2), "g", "t2"))
  \o Times(over, Px("OVERLONG", hv2, T(hv2), "t0", "t0"))
  \o Times(GB_LEN, Px("DATA_GB_TRAILING", hv2, T(hv2), "d", "d"))
Video(hv, first, k) ==
  Times(PRE_LEN, Px("VIDEO_PRE", hv, C(hv), "c1", "c0"))
  \o Times(GB_LEN, Px("VIDEO_GB", hv, "g", "d", "g"))
  \o <<[first EXCEPT !.hv = hv]>>
  \o Times(k, Px("VIDEO", hv, "t1", "g", "d"))
Plain == Px("VIDEO", 0, "v", "v", "v")
LikeGb == Px("VIDEO", 0, "g", "d", "g")

\* One island of two packets and one line of video; two lines; DVI, which has
\* neither preambles nor guardbands; an island that is too long, a control
\* period that is too short, and a line that begins like its guardband.
Hdmi  == Control(2, 0) \o Island(2, 1, 3, 0) \o Control(3, 3) \o Video(2, Plain, 2) \o Control(1, 2)
Lines == Control(1, 0) \o Video(0, Plain, 1) \o Control(2, 1)
Dvi   == Control(2, 1) \o Times(3, Px("VIDEO", 1, "v", "t1", "d")) \o Control(2, 3)
Long  == Control(1, 0) \o Island(PACKET_MAX, 0, 0, PACKET_LEN) \o Control(2, 0)
Short == Control(1, 0) \o Video(0, Plain, 1) \o Control(1, 0) \o Video(0, Plain, 1) \o Control(1, 0)
Clash == Control(1, 0) \o Video(0, LikeGb, 1) \o Control(1, 0)

From(s) == {SubSeq(s, a, Len(s)) : a \in 1 .. Len(s)}
Damaged(s, Syms) == {[s EXCEPT ![k].sym[c] = x] : k \in 1 .. Len(s), c \in Channel, x \in Syms}
Lossy(s) == {[RemoveAt(s, k) EXCEPT ![k].lost = TRUE] : k \in 1 .. Len(s)-1}
AllDamaged(S, Syms) == UNION {Damaged(s, Syms) : s \in S}

To(s) == {SubSeq(s, 1, b) : b \in 1 .. Len(s)}
MCCaptures ==
  From(Hdmi) \cup To(Hdmi) \cup UNION {To(s) : s \in From(Lines)} \cup From(Dvi) \cup {Long, Clash, Short}
  \cup Damaged(Hdmi, {"c0", "c1", "t2", "g", "d", "v", "x"})
  \cup Lossy(Hdmi) \cup Lossy(Dvi) \cup UNION {Lossy(s) : s \in From(Lines)}
  \cup AllDamaged(From(Lines), Symbol)
=============================================================================
