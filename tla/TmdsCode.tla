------------------------------- MODULE TmdsCode -------------------------------
(***************************************************************************)
(* tmds_enc.py, which generates the table of TMDS characters, and the      *)
(* tables of spec/tmds.py that the client looks characters up in.  The     *)
(* program encodes every byte D from every disparity cnt of -1, 0 and 1    *)
(* and notes D at the character that comes out; the loop sets the global   *)
(* cnt that tmds_encode has changed back to its own value.  Then it notes  *)
(* the characters of the other tables.                                     *)
(***************************************************************************)
EXTENDS Integers, Sequences, FiniteSets, FiniteSetsExt

VARIABLES D, cnt,            \* loop variables
          tmds,              \* character -> byte noted under 'video', -1 if none
          tmds_terc4, tmds_ctrl, tmds_gb,   \* the same for the other keys; gb is a set
          pc
others == <<tmds_terc4, tmds_ctrl, tmds_gb>>
vars == <<D, cnt, tmds, others, pc>>

Characters == 0 .. 1023
no == -1

\* A word as its bits, least significant first, and back.
Bits(x, n) == [k \in 0 .. n-1 |-> (x \div 2^k) % 2]
Word(b) == SumSet({2^k : k \in {j \in DOMAIN b : b[j] = 1}})

inv(a)     == 1 - a
xor(a, b)  == (a + b) % 2
xnor(a, b) == inv(xor(a, b))
N1(b) == Cardinality({k \in 0 .. 7 : b[k] = 1})
N0(b) == 8 - N1(b)

\* The transition minimised word: q_m[8] says whether it was made with XOR.
q_m(d) ==
  LET b == Bits(d, 8)
      useXnor == N1(b) > 4 \/ (N1(b) = 4 /\ b[0] = 0)
      q[k \in 0 .. 7] == IF k = 0 THEN b[0]
                         ELSE IF useXnor THEN xnor(q[k-1], b[k]) ELSE xor(q[k-1], b[k])
  IN [k \in 0 .. 8 |-> IF k < 8 THEN q[k] ELSE IF useXnor THEN 0 ELSE 1]

\* The bits 0..7 of the character are those of q_m or their inverse, as bit 9
\* says; bit 8 is q_m[8].
Out(q, invert) ==
  Word([k \in 0 .. 9 |-> CASE k = 9 -> invert
                           [] k = 8 -> q[8]
                           [] OTHER -> IF invert = 1 THEN inv(q[k]) ELSE q[k]])

tmds_encodeFlagLost(d, c) ==   \* bit 9 taken from the balanced case only
  LET q == q_m(d)
      balanced == c = 0 \/ N1(q) = N0(q)
      against == (c > 0 /\ N1(q) > N0(q)) \/ (c < 0 /\ N0(q) > N1(q)) IN
  IF ~balanced /\ against THEN Out(q, 1) % 512 ELSE Out(q, IF balanced THEN inv(q[8]) ELSE 0)
tmds_encodeNeverInverted(d, c) ==
  LET q == q_m(d) IN Out(q, IF c = 0 \/ N1(q) = N0(q) THEN inv(q[8]) ELSE 0)
tmds_encode(d, c) ==
  LET q == q_m(d)
      balanced == c = 0 \/ N1(q) = N0(q)
      against == (c > 0 /\ N1(q) > N0(q)) \/ (c < 0 /\ N0(q) > N1(q))
  IN Out(q, IF balanced THEN inv(q[8]) ELSE IF against THEN 1 ELSE 0)

Init ==
  /\ D = 0 /\ cnt = -1 /\ pc = "video"
  /\ tmds = [x \in Characters |-> no]
  /\ tmds_terc4 = tmds /\ tmds_ctrl = tmds /\ tmds_gb = [x \in Characters |-> {}]

\* "fill in video data values"
Fill ==
  /\ pc = "video"
  /\ tmds' = [tmds EXCEPT ![tmds_encode(D, cnt)] = D]
  /\ IF cnt < 1 THEN cnt' = cnt + 1 /\ UNCHANGED <<D, pc>>
     ELSE IF D < 255 THEN cnt' = -1 /\ D' = D + 1 /\ UNCHANGED pc
     ELSE pc' = "others" /\ UNCHANGED <<D, cnt>>
  /\ UNCHANGED <<others>>

\* "fill in TERC4 values", "fill in control values", "fill in guardbands": the
\* characters of each value, in order.
terc4_values ==
  << \b1010011100, \b1001100011, \b1011100100, \b1011100010, \b0101110001,
     \b0100011110, \b0110001110, \b0100111100, \b1011001100, \b0100111001,
     \b0110011100, \b1011000110, \b1010001110, \b1001110001, \b0101100011,
     \b1011000011 >>
ctrl_values == << \b1101010100, \b0010101011, \b0101010100, \b1010101011 >>
guardbands ==
  { <<\b1010001110, "d0c0">>, <<\b1001110001, "d0c1">>, <<\b0101100011, "d0c2">>,
    <<\b1011000011, "d0c3">>, <<\b0100110011, "d1">>, <<\b0100110011, "d2">>,
    <<\b1011001100, "v0">>, <<\b0100110011, "v1">>, <<\b1011001100, "v2">> }

NotedFromOne(values) == [x \in Characters |-> IF \E k \in DOMAIN values : values[k] = x
                                             THEN CHOOSE k \in DOMAIN values : values[k] = x ELSE no]
Noted(values) == [x \in Characters |-> IF \E k \in DOMAIN values : values[k] = x
                                      THEN (CHOOSE k \in DOMAIN values : values[k] = x) - 1 ELSE no]
FillOthers ==
  /\ pc = "others" /\ pc' = "end"
  /\ tmds_terc4' = Noted(terc4_values) /\ tmds_ctrl' = Noted(ctrl_values)
  /\ tmds_gb' = [x \in Characters |-> {g[2] : g \in {p \in guardbands : p[1] = x}}]
  /\ UNCHANGED <<D, cnt, tmds>>

Next == Fill \/ FillOthers
Spec == Init /\ [][Next]_vars

------------------------------------------------------------------------------
(* The tables of spec/tmds.py.  video, a forward lookup by character, in   *)
(* blocks of 128; the others are reverse lookups.                          *)

video0 ==
  << 254, 253, 248, 251, 242, 241, 244, 247, 230, 229, no, 227, 234, 233, 236,
    no, 206, 205, no, 203, no, no, no, no, 214, 213, no, no, 218, no, no, 223,
    158, 157, no, 155, no, no, no, no, no, no, no, no, no, no, no, 143, 174,
    173, no, no, no, no, no, 167, 182, no, no, 179, no, 185, 188, 191, 62, 61,
    no, 59, no, no, no, no, no, no, no, no, no, no, no, 47, no, no, no, no,
    no, no, no, no, no, no, no, no, no, no, no, 31, 94, 93, no, no, no, no,
    no, 87, no, no, no, no, no, no, no, 79, 110, no, no, 107, no, no, no, 103,
    no, 117, no, 115, 122, 121, 124, 127 >>
video1 ==
  << 126, 125, 120, 123, 114, no, 116, no, 102, no, no, no, 106, no, no, 111,
    78, no, no, no, no, no, no, no, 86, no, no, no, no, no, 92, 95, 30, no,
    no, no, no, no, no, no, no, no, no, no, no, no, no, no, 46, no, no, no,
    no, no, no, no, no, no, no, no, 58, no, 60, 63, 190, 189, 184, no, 178,
    no, no, 183, 166, no, no, no, no, no, 172, 175, 142, no, no, no, no, no,
    no, no, no, no, no, no, 154, no, 156, 159, 222, no, no, 219, no, no, 212,
    215, no, no, no, no, 202, no, 204, 207, no, 237, 232, 235, 226, no, 228,
    231, 246, 245, 240, 243, 250, 249, 252, 255 >>
video2 ==
  << 0, 3, 6, 5, 12, 15, 10, 9, 24, 27, no, 29, 20, 23, 18, 17, 48, 51, no,
    53, no, no, no, 57, 40, 43, no, 45, 36, 39, 34, 33, 96, 99, no, 101, no,
    no, no, 105, no, no, no, no, no, no, no, 113, 80, 83, no, 85, no, no, no,
    89, 72, 75, no, 77, 68, 71, 66, 65, 192, 195, no, 197, no, no, no, 201,
    no, no, no, no, no, no, no, 209, no, no, no, no, no, no, no, no, no, no,
    no, no, no, no, no, 225, 160, 163, no, 165, no, no, no, 169, no, no, no,
    no, no, no, no, 177, 144, 147, no, 149, no, no, no, 153, 136, 139, no,
    141, 132, 135, 130, 129 >>
video3 ==
  << 128, 131, 134, 133, 140, no, 138, 137, 152, no, no, no, 148, no, 146,
    145, 176, no, no, no, no, no, no, no, 168, no, no, no, 164, no, 162, 161,
    224, no, no, no, no, no, no, no, no, no, no, no, no, no, no, no, 208, no,
    no, no, no, no, no, no, 200, no, no, no, 196, no, 194, 193, 64, 67, 70,
    69, 76, no, 74, 73, 88, no, no, no, 84, no, 82, 81, 112, no, no, no, no,
    no, no, no, 104, no, no, no, 100, no, 98, 97, 32, 35, 38, 37, 44, no, 42,
    41, 56, no, no, no, 52, no, 50, 49, 16, 19, 22, 21, 28, no, 26, 25, 8, 11,
    14, 13, 4, 7, 2, 1 >>
video4 ==
  << 255, 252, 249, 250, 243, 240, 245, 246, 231, 228, no, 226, 235, 232, 237,
    238, 207, 204, no, 202, no, no, no, 198, 215, 212, no, 210, 219, 216, 221,
    222, 159, 156, no, 154, no, no, no, 150, no, no, no, no, no, no, no, 142,
    175, 172, no, 170, no, no, no, 166, 183, 180, no, 178, 187, 184, 189, 190,
    63, 60, no, 58, no, no, no, 54, no, no, no, no, no, no, no, 46, no, no,
    no, no, no, no, no, no, no, no, no, no, no, no, no, 30, 95, 92, no, 90,
    no, no, no, 86, no, no, no, no, no, no, no, 78, 111, 108, no, 106, no, no,
    no, 102, 119, 116, no, 114, 123, 120, 125, 126 >>
video5 ==
  << 127, 124, 121, 122, 115, no, 117, 118, 103, no, no, no, 107, no, 109,
    110, 79, no, no, no, no, no, no, no, 87, no, no, no, 91, no, 93, 94, 31,
    no, no, no, no, no, no, no, no, no, no, no, no, no, no, no, 47, no, no,
    no, no, no, no, no, 55, no, no, no, 59, no, 61, 62, 191, 188, 185, 186,
    179, no, 181, 182, 167, no, no, no, 171, no, 173, 174, 143, no, no, no,
    no, no, no, no, 151, no, no, no, 155, no, 157, 158, 223, 220, 217, 218,
    211, no, 213, 214, 199, no, no, no, 203, no, 205, 206, 239, 236, 233, 234,
    227, no, 229, 230, 247, 244, 241, 242, 251, 248, 253, 254 >>
video6 ==
  << 1, 2, 7, 4, 13, 14, 11, 8, 25, 26, no, 28, 21, 22, 19, no, 49, 50, no,
    52, no, no, no, no, 41, 42, no, no, 37, no, no, 32, 97, 98, no, 100, no,
    no, no, no, no, no, no, no, no, no, no, 112, 81, 82, no, no, no, no, no,
    88, 73, no, no, 76, no, 70, 67, 64, 193, 194, no, 196, no, no, no, no, no,
    no, no, no, no, no, no, 208, no, no, no, no, no, no, no, no, no, no, no,
    no, no, no, no, 224, 161, 162, no, no, no, no, no, 168, no, no, no, no,
    no, no, no, 176, 145, no, no, 148, no, no, no, 152, no, 138, no, 140, 133,
    134, 131, 128 >>
video7 ==
  << 129, 130, 135, 132, 141, no, 139, no, 153, no, no, no, 149, no, no, 144,
    177, no, no, no, no, no, no, no, 169, no, no, no, no, no, 163, 160, 225,
    no, no, no, no, no, no, no, no, no, no, no, no, no, no, no, 209, no, no,
    no, no, no, no, no, no, no, no, no, 197, no, 195, 192, 65, 66, 71, no, 77,
    no, no, 72, 89, no, no, no, no, no, 83, 80, 113, no, no, no, no, no, no,
    no, no, no, no, no, 101, no, 99, 96, 33, no, no, 36, no, no, 43, 40, no,
    no, no, no, 53, no, 51, 48, no, 18, 23, 20, 29, no, 27, 24, 9, 10, 15, 12,
    5, 6, 3, 0 >>
video == LET all == video0 \o video1 \o video2 \o video3 \o video4 \o video5 \o video6 \o video7
         IN [x \in Characters |-> all[x+1]]
terc4 == << 668, 611, 740, 738, 369, 286, 398, 316,
            716, 313, 412, 710, 654, 625, 355, 707 >>

ctrl == << 852, 171, 340, 683 >>
video_gbSwapped == << 307, 716, 307 >>
video_gb == << 716, 307, 716 >>
data_gb == 307

------------------------------------------------------------------------------
(* Properties.                                                             *)

\* The DVI decoder, as the reference: bit 9 undoes the inversion, bit 8 chooses
\* between XOR and XNOR of neighbouring bits.
Decode(x) ==
  LET b == Bits(x, 10)
      q == [k \in 0 .. 7 |-> IF b[9] = 1 THEN inv(b[k]) ELSE b[k]] IN
  Word([k \in 0 .. 7 |-> IF k = 0 THEN q[0]
                         ELSE IF b[8] = 1 THEN xor(q[k], q[k-1]) ELSE xnor(q[k], q[k-1])])

\* The bytes noted so far are what a receiver makes of their characters.
DecodesBack == \A x \in Characters : tmds[x] # no => Decode(x) = tmds[x]

\* The table the client uses is the one the generator produces.
TableIsGenerated == pc # "video" => tmds = video

\* So are its other tables, each a copy of the same characters written by hand;
\* the video guardband and the data guardband of the channels with one.
OtherTablesAgree ==
  pc = "end" =>
    /\ \A x \in Characters : \A k \in 0 .. 15 : tmds_terc4[x] = k <=> terc4[k+1] = x
    /\ \A x \in Characters : \A k \in 0 .. 3 : tmds_ctrl[x] = k <=> ctrl[k+1] = x
    /\ \A x \in Characters :
         /\ \A ch \in 1 .. 3 : <<"v0", "v1", "v2">>[ch] \in tmds_gb[x] <=> video_gb[ch] = x
         /\ \A name \in {"d1", "d2"} : name \in tmds_gb[x] <=> data_gb = x

\* How the tables overlap, which is what the decode of a capture rests on: no
\* control character is video; every TERC4 and guardband character is; the two
\* guardbands share their characters; and the data guardband of channel 0 is the
\* TERC4 character that has the syncs in its low bits.
Elements(s) == {s[k] : k \in DOMAIN s}
TablesOverlapAsDecoded ==
  /\ \A x \in Elements(ctrl) : tmds[x] = no
  /\ pc # "video" => \A x \in Elements(terc4) \cup Elements(video_gb) \cup {data_gb} : tmds[x] # no
  /\ Elements(ctrl) \cap (Elements(terc4) \cup {data_gb}) = {}
  /\ data_gb \notin Elements(terc4)
  /\ video_gb = <<terc4[9], data_gb, terc4[9]>>
  /\ Cardinality(Elements(terc4)) = 16 /\ Cardinality(Elements(ctrl)) = 4
  /\ pc = "end" => \A sync \in 0 .. 3 : \A x \in Characters :
       <<"d0c0", "d0c1", "d0c2", "d0c3">>[sync+1] \in tmds_gb[x] => tmds_terc4[x] = 12 + sync
=============================================================================
