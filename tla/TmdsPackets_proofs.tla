-------------------------- MODULE TmdsPackets_proofs --------------------------
(***************************************************************************)
(* That the packet passes of tmds_cap.py find the packets of the source,   *)
(* put its channel status blocks together, and stop exactly where          *)
(* something is wrong: for captures of any length, cut anywhere.           *)
(***************************************************************************)
EXTENDS TmdsPackets, SequenceTheorems, FiniteSetTheorems, TLAPS

------------------------------------------------------------------------------
(* What is captured.                                                       *)

\* What the client knows of a packet that breaks a rule of its type.
MayBreak(type) ==
  CASE type = "Null" -> {"", "content"}
    [] type = Samples -> {"", "msbs"}
    [] type = AVI -> {"", "msbs", "checksum", "length"}
    [] type = SPD -> {"", "msbs", "checksum", "length", "ascii"}
    [] type = Audio -> {"", "msbs", "checksum", "length", "field"}
    [] type \in OtherInfoFrames -> {"", "msbs", "checksum"}
    [] OTHER -> {""}

\* Samples are present from the first sub-packet on, and at most one begins a block.
IsAudio(a) == /\ a.LAYOUT \in {0, 1} /\ \E count \in 0 .. 4 : a.SP = 0 .. count-1
              /\ a.B \subseteq a.SP /\ Cardinality(a.B) <= 1
IsPacket(d) ==
  /\ d.fault \in MayBreak(d.type)
  /\ d.type = Samples => d.audio.SP \subseteq 0 .. 3 /\ (Wrong(d) \/ IsAudio(d.audio))

\* The packets are sent one after the other, from pixel at[p] on; the capture
\* begins in front of the first and may end anywhere.
Layout(c, at) ==
  /\ \A p \in DOMAIN c.packets : at[p] \in Nat
  /\ \A p, q \in DOMAIN c.packets : p < q => at[p] + PacketLen <= at[q]
  /\ \A k \in DOMAIN c.pix :
       \/ \E p \in DOMAIN c.packets : \E j \in 1 .. PacketLen : k = at[p] + j /\ c.pix[k] = <<p, j>>
       \/ c.pix[k] = <<>> /\ \A p \in DOMAIN c.packets : \A j \in 1 .. PacketLen : k # at[p] + j

\* The audio is a stream of frames, each with a bit per channel; the frames of a
\* packet follow those of the audio packet before it, if nothing between is wrong.
BitOf(x, ch) == <<x \div BlockLen, x % BlockLen, ch>>
FrameOf(a, first, spn) == IF a.LAYOUT = 0 THEN first + spn ELSE first
Frames(a) == IF a.LAYOUT = 0 \/ a.SP = {} THEN Cardinality(a.SP) ELSE 1
Carries(a, first) ==
  /\ \A spn \in a.SP : \A spm \in {0, 1} : a.C[spn][spm] = BitOf(FrameOf(a, first, spn), spm)
  /\ a.B = {spn \in a.SP : FrameOf(a, first, spn) % BlockLen = 0 /\ (a.LAYOUT = 1 => spn = 0)}
Stream(c, frame) ==
  /\ \A p \in DOMAIN c.packets : frame[p] \in Nat
  /\ \A p \in DOMAIN c.packets : c.packets[p].type = Samples /\ ~Wrong(c.packets[p]) =>
       Carries(c.packets[p].audio, frame[p])
  /\ \A p, q \in DOMAIN c.packets :
       /\ p < q /\ c.packets[p].type = Samples /\ c.packets[q].type = Samples
       /\ \A r \in p .. q-1 : ~Wrong(c.packets[r]) /\ (c.packets[r].type = Samples => r = p)
       => frame[q] = frame[p] + Frames(c.packets[p].audio)

IsCapture(c) ==
  /\ \E length \in Nat : DOMAIN c.packets = 1 .. length
  /\ c.pix \in Seq({<<>>} \cup (Nat \X Nat)) /\ c.err_i \in Nat
  /\ \A p \in DOMAIN c.packets : IsPacket(c.packets[p])
  /\ \E at : Layout(c, at)
  /\ \E frame : Stream(c, frame)
Given ==
  /\ PacketLen \in Nat \ {0} /\ BlockLen \in Nat \ {0, 1}
  /\ \A c \in PacketCaptures : IsCapture(c)

------------------------------------------------------------------------------
(* The types of the variables.                                             *)

Sent == DOMAIN cap.packets
Packet == {cap.packets[p] : p \in Sent}
Entry == [type : {d.type : d \in Packet}, list : Seq(Packet)]
PacketBits(d) == UNION {{d.audio.C[spn][spm] : spm \in {0, 1}} : spn \in 0 .. 3}
ABit == UNION {PacketBits(d) : d \in Packet}
Exception == {"", "ValueError", "TypeError", "TypeError: CC", "IndexError", "IndexError: notes", "IndexError: no CSB"}
WorkSet == [arrays : [Channels -> Seq(Seq(ABit))], raw : [Channels -> Seq(Nat)], stop : BOOLEAN, exc : Exception]

\* The blocks taken are arrays of their channel, in their order, and the array
\* being filled is only one of them when it has the length of a block.
Taken(all, raw) ==
  /\ all # <<>>
  /\ \A k \in DOMAIN raw : raw[k] \in DOMAIN all /\ (k > 1 => raw[k] > raw[k-1])
  /\ \A k \in DOMAIN raw : raw[k] = Len(all) => Len(Last(all)) >= BlockLen
WorkOk(w) == w \in WorkSet /\ \A ch \in Channels : Taken(w.arrays[ch], w.raw[ch])

DictOk(dict) ==
  \A k \in DOMAIN dict :
    /\ dict[k].list # <<>>
    /\ \A l \in DOMAIN dict[k].list : dict[k].list[l].type = dict[k].type
    /\ \A l \in DOMAIN dict : dict[k].type = dict[l].type => k = l
TypeInv ==
  /\ cap \in PacketCaptures
  /\ p_pass \in {"extract", "decode", "compare", "report", "end"}
  /\ p_i \in Nat /\ p_j \in Nat
  /\ p_pass = "extract" => p_i <= n_pix
  /\ p_pass # "extract" => p_i <= Len(packet_dict)
  /\ p_pass = "decode" /\ p_i < Len(packet_dict) => p_j < Len(packet_list)
  /\ p_stop \in BOOLEAN /\ exc \in Exception
  /\ packet_dict \in Seq(Entry) /\ DictOk(packet_dict)
  /\ WorkOk(Work)

LEMMA OneBit ==
  ASSUME Given, NEW w, WorkOk(w), NEW ch \in Channels, NEW C \in ABit, NEW begins
  PROVE  WorkOk(Bit(w, ch, C, begins))
<1> DEFINE all == w.arrays[ch]
           now == Append(Last(all), C)
           raw == w.raw[ch]
<1>1. all \in Seq(Seq(ABit)) /\ raw \in Seq(Nat) /\ Taken(all, raw) /\ w \in WorkSet
  BY DEF WorkOk, WorkSet
<1>2. /\ Len(all) \in Nat \ {0} /\ Last(all) = all[Len(all)] /\ Last(all) \in Seq(ABit)
      /\ DOMAIN all = 1 .. Len(all)
  BY <1>1 DEF Taken, Last
<1>3. now \in Seq(ABit) /\ Len(now) = Len(Last(all)) + 1 /\ Len(Last(all)) \in Nat BY <1>2
<1>4. CASE begins
  <2> DEFINE more == Append(all, <<C>>)
  <2>1. Bit(w, ch, C, begins) = [w EXCEPT !.arrays[ch] = more] BY <1>4 DEF Bit
  <2>2. more \in Seq(Seq(ABit)) /\ Len(more) = Len(all) + 1 /\ DOMAIN all \subseteq DOMAIN more /\ more # <<>>
    <3>1. <<C>> \in Seq(ABit) OBVIOUS
    <3>2. more \in Seq(Seq(ABit)) /\ Len(more) = Len(all) + 1 BY <3>1, <1>1
    <3> HIDE DEF more
    <3> QED BY <3>2, <1>2
  <2>3. Taken(more, raw)
    <3>1. \A k \in DOMAIN raw : raw[k] \in DOMAIN all /\ raw[k] # Len(more)
      <4>1. \A k \in DOMAIN raw : raw[k] \in 1 .. Len(all) BY <1>1, <1>2 DEF Taken
      <4> HIDE DEF more
      <4> QED BY <4>1, <1>2, <2>2
    <3> HIDE DEF more
    <3> QED BY <3>1, <2>2, <1>1 DEF Taken
  <2> HIDE DEF more
  <2>4. [w EXCEPT !.arrays[ch] = more] \in WorkSet BY <1>1, <2>2 DEF WorkSet
  <2>5. \A c \in Channels : /\ [w EXCEPT !.arrays[ch] = more].arrays[c] = IF c = ch THEN more ELSE w.arrays[c]
                            /\ [w EXCEPT !.arrays[ch] = more].raw[c] = w.raw[c]
    BY <1>1 DEF WorkSet
  <2> QED BY <2>1, <2>3, <2>4, <2>5 DEF WorkOk
<1>5. CASE ~begins /\ Last(all) = <<>>
  BY <1>5 DEF Bit
<1>6. CASE ~begins /\ Last(all) # <<>>
  <2> DEFINE more == [all EXCEPT ![Len(all)] = now]
             taken == IF Len(now) = BlockLen THEN Append(raw, Len(all)) ELSE raw
             v == [w EXCEPT !.arrays[ch] = more, !.raw[ch] = taken]
  <2>1. Bit(w, ch, C, begins) = v BY <1>6, <1>1 DEF Bit, WorkSet
  <2>2. more \in Seq(Seq(ABit)) /\ Len(more) = Len(all) /\ DOMAIN more = DOMAIN all /\ more # <<>>
        /\ Last(more) = now
    <3> HIDE DEF now
    <3>1. more \in Seq(Seq(ABit)) /\ DOMAIN more = DOMAIN all BY <1>1, <1>2, <1>3
    <3>2. more[Len(all)] = now BY <1>2
    <3> HIDE DEF more
    <3>3. Len(more) = Len(all) BY <3>1, <1>1
    <3>4. more # <<>> BY <3>1, <3>3, <1>2
    <3> QED BY <3>1, <3>2, <3>3, <3>4 DEF Last
  <2>3. taken \in Seq(Nat) BY <1>1, <1>2
  <2>4. Taken(more, taken)
    <3>1. CASE Len(now) = BlockLen
      <4>1. \A k \in DOMAIN raw : raw[k] \in DOMAIN all /\ raw[k] # Len(all)
        <5>1. ~(Len(Last(all)) >= BlockLen) BY <1>3, <3>1
        <5> QED BY <5>1, <1>1 DEF Taken
      <4>2. \A k \in DOMAIN raw : raw[k] < Len(all) BY <4>1, <1>1, <1>2
      <4>3. /\ DOMAIN raw = 1 .. Len(raw) /\ DOMAIN taken = 1 .. Len(raw)+1 /\ Len(raw) \in Nat
            /\ \A k \in DOMAIN raw : taken[k] = raw[k]
            /\ taken[Len(raw)+1] = Len(all)
        <5>1. PICK s \in Seq(Nat), e \in Nat : s = raw /\ e = Len(all) BY <1>1, <1>2
        <5>2. taken = Append(s, e) BY <3>1, <5>1
        <5>3. /\ Append(s, e) \in Seq(Nat) /\ Len(Append(s, e)) = Len(s)+1
              /\ \A k \in 1 .. Len(s) : Append(s, e)[k] = s[k]
              /\ Append(s, e)[Len(s)+1] = e
          OBVIOUS
        <5>4. DOMAIN s = 1 .. Len(s) /\ Len(s) \in Nat OBVIOUS
        <5>5. DOMAIN Append(s, e) = 1 .. Len(s)+1 BY <5>3
        <5> HIDE DEF taken
        <5> QED BY <5>1, <5>2, <5>3, <5>4, <5>5
      <4>4. \A k \in DOMAIN taken : taken[k] \in DOMAIN more
        <5>1. DOMAIN more = 1 .. Len(all) BY <2>2, <1>2
        <5>2. \A k \in DOMAIN raw : taken[k] \in DOMAIN all BY <4>1, <4>3
        <5>3. Len(all) \in 1 .. Len(all) BY <1>2
        <5> HIDE DEF more, taken
        <5>4. \A k \in DOMAIN taken : k \in DOMAIN raw \/ k = Len(raw)+1 BY <4>3
        <5> QED BY <5>1, <5>2, <5>3, <5>4, <4>3, <1>2
      <4>5. ASSUME NEW k \in DOMAIN taken, k > 1 PROVE taken[k] > taken[k-1]
        <5>1. CASE k = Len(raw) + 1 BY <5>1, <4>2, <4>3, <4>5
        <5>2. CASE k \in DOMAIN raw
          <6>1. k - 1 \in DOMAIN raw BY <5>2, <4>3, <4>5
          <6> QED BY <6>1, <5>2, <4>3, <4>5, <1>1 DEF Taken
        <5>3. k = Len(raw) + 1 \/ k \in DOMAIN raw
          <6> HIDE DEF taken
          <6> QED BY <4>3
        <5> QED BY <5>1, <5>2, <5>3
      <4>6. Len(Last(more)) >= BlockLen BY <2>2, <3>1 DEF Given
      <4> HIDE DEF more, taken
      <4> QED BY <4>4, <4>5, <4>6, <2>2 DEF Taken
    <3>2. CASE Len(now) # BlockLen
      <4>1. taken = raw BY <3>2
      <4>2. Len(Last(all)) >= BlockLen => Len(Last(more)) >= BlockLen
        <5> HIDE DEF more, taken, now
        <5>1. Len(Last(more)) = Len(Last(all)) + 1 BY <2>2, <1>3
        <5>2. BlockLen \in Nat BY DEF Given
        <5> QED BY <5>1, <5>2, <1>3
      <4> HIDE DEF more, taken
      <4> QED BY <4>1, <4>2, <2>2, <1>1 DEF Taken
    <3> QED BY <3>1, <3>2
  <2> HIDE DEF more, taken
  <2>5. v \in WorkSet BY <1>1, <2>2, <2>3 DEF WorkSet
  <2>6. \A c \in Channels : /\ v.arrays[c] = IF c = ch THEN more ELSE w.arrays[c]
                            /\ v.raw[c] = IF c = ch THEN taken ELSE w.raw[c]
    BY <1>1 DEF WorkSet
  <2> HIDE DEF v
  <2> QED BY <2>1, <2>4, <2>5, <2>6 DEF WorkOk
<1> QED BY <1>4, <1>5, <1>6

\* The channel status bits of a packet are such bits.
LEMMA ItsBits ==
  ASSUME NEW d \in Packet, NEW spn \in 0 .. 3, NEW spm \in {0, 1}
  PROVE  d.audio.C[spn][spm] \in ABit
<1>1. d.audio.C[spn][spm] \in {d.audio.C[spn][m] : m \in {0, 1}} OBVIOUS
<1>2. {d.audio.C[spn][m] : m \in {0, 1}} \in {{d.audio.C[n][m] : m \in {0, 1}} : n \in 0 .. 3}
  BY Zenon
<1>3. d.audio.C[spn][spm] \in PacketBits(d) BY <1>1, <1>2, Zenon DEF PacketBits
<1>4. PacketBits(d) \in {PacketBits(e) : e \in Packet} OBVIOUS
<1> QED BY <1>3, <1>4, Zenon DEF ABit

LEMMA OnePair ==
  ASSUME Given, NEW w, WorkOk(w), NEW d \in Packet, NEW spn \in 0 .. 3
  PROVE  WorkOk(Pair(w, d.audio, spn))
<1> DEFINE a == d.audio
<1>1. ASSUME NEW u, WorkOk(u), NEW spm \in {0, 1} PROVE WorkOk(Member(u, a, spn, spm))
  <2>1. WorkOk([u EXCEPT !.stop = TRUE]) /\ WorkOk([u EXCEPT !.exc = "IndexError"])
    BY <1>1 DEF WorkOk, WorkSet, Exception
  <2>2. a.C[spn][spm] \in ABit BY ItsBits
  <2>3. CASE ChannelOf(a, spn, spm) \in Channels
    <3>1. WorkOk(Bit(u, ChannelOf(a, spn, spm), a.C[spn][spm], spn \in a.B))
      BY <2>2, <2>3, <1>1, OneBit
    <3> QED BY <3>1, <2>1, <2>3 DEF Member
  <2> QED BY <2>1, <2>3 DEF Member
<1>2. WorkOk(Member(w, a, spn, 0)) BY <1>1
<1>3. WorkOk(Member(Member(w, a, spn, 0), a, spn, 1)) BY <1>1, <1>2
<1> QED BY <1>2, <1>3 DEF Pair

LEMMA Decoding ==
  ASSUME Given, WorkOk(Work), NEW d \in Packet
  PROVE  WorkOk(DecodeType(d))
<1>1. WorkOk(Fails(Work)) BY DEF WorkOk, WorkSet, Fails
<1>2. WorkOk(Raises(Work, "TypeError")) /\ WorkOk(Raises(Work, "TypeError: CC"))
  BY DEF WorkOk, WorkSet, Raises, Exception
<1>3. WorkOk(DecodeSamples(d))
  <2>1. WorkOk(Pair(Work, d.audio, 0)) BY OnePair
  <2>2. WorkOk(Pair(Pair(Work, d.audio, 0), d.audio, 1)) BY <2>1, OnePair
  <2>3. WorkOk(Pair(Pair(Pair(Work, d.audio, 0), d.audio, 1), d.audio, 2)) BY <2>2, OnePair
  <2>4. WorkOk(Pair(Pair(Pair(Pair(Work, d.audio, 0), d.audio, 1), d.audio, 2), d.audio, 3))
    BY <2>3, OnePair
  <2> QED BY <1>1, <1>2, <2>4 DEF DecodeSamples
<1>4. WorkOk(DecodeInfoFrame(d)) BY <1>1, <1>2 DEF DecodeInfoFrame
<1> QED BY <1>1, <1>3, <1>4 DEF DecodeType

\* What is captured is a sequence of pixels, and what is gathered a packet of it.
LEMMA Captured ==
  ASSUME Given, cap \in PacketCaptures
  PROVE  /\ n_pix \in Nat /\ DOMAIN cap.pix = 1 .. n_pix
         /\ cap.err_i \in Nat
         /\ \E length \in Nat : Sent = 1 .. length
BY DEF Given, IsCapture, n_pix, Sent

LEMMA Gathered ==
  ASSUME Given, cap \in PacketCaptures, NEW k \in 0 .. n_pix-1, cap.pix[k+1] # <<>>
  PROVE  Gather(k) \in Packet
<1>1. PICK at : Layout(cap, at) BY DEF Given, IsCapture
<1>2. k + 1 \in DOMAIN cap.pix BY Captured
<1>3. PICK q \in Sent, j \in 1 .. PacketLen : cap.pix[k+1] = <<q, j>>
  BY <1>1, <1>2 DEF Layout, Sent
<1>4. Gather(k) = cap.packets[q] BY <1>3 DEF Gather
<1> QED BY <1>3, <1>4 DEF Packet

LEMMA Storing ==
  ASSUME packet_dict \in Seq(Entry), DictOk(packet_dict), NEW d \in Packet
  PROVE  Store(d) \in Seq(Entry) /\ DictOk(Store(d))
<1>1. [type |-> d.type, list |-> <<d>>] \in Entry
  <2>1. <<d>> \in Seq(Packet) OBVIOUS
  <2> QED BY <2>1 DEF Entry
<1>2. CASE ~Known(d.type)
  <2> DEFINE e == [type |-> d.type, list |-> <<d>>]
             dict == Append(packet_dict, e)
  <2>1. Store(d) = dict BY <1>2 DEF Store
  <2>2. e.type = d.type /\ e.list = <<d>> /\ e \in Entry BY <1>1
  <2> HIDE DEF e
  <2>3. /\ dict \in Seq(Entry) /\ Len(packet_dict) \in Nat
        /\ DOMAIN packet_dict = 1 .. Len(packet_dict)
        /\ DOMAIN dict = 1 .. Len(packet_dict)+1
        /\ \A k \in DOMAIN packet_dict : dict[k] = packet_dict[k]
        /\ dict[Len(packet_dict)+1] = e
    BY <2>2
  <2>4. \A k \in DOMAIN packet_dict : packet_dict[k].type # d.type BY <1>2 DEF Known
  <2>5. <<d>> # <<>> /\ \A l \in DOMAIN <<d>> : <<d>>[l] = d OBVIOUS
  <2>6. \A k \in DOMAIN dict : k \in DOMAIN packet_dict \/ k = Len(packet_dict) + 1
    <3> HIDE DEF dict
    <3> QED BY <2>3
  <2> HIDE DEF dict
  <2>7. DictOk(dict)
    <3> SUFFICES ASSUME NEW k \in DOMAIN dict
                 PROVE  /\ dict[k].list # <<>>
                        /\ \A l \in DOMAIN dict[k].list : dict[k].list[l].type = dict[k].type
                        /\ \A l \in DOMAIN dict : dict[k].type = dict[l].type => k = l
      BY DEF DictOk
    <3>1. CASE k \in DOMAIN packet_dict
      <4>1. dict[k] = packet_dict[k] /\ dict[k].type # d.type BY <3>1, <2>3, <2>4
      <4>2. \A l \in DOMAIN packet_dict : dict[k].type = dict[l].type => k = l
        BY <3>1, <4>1, <2>3 DEF DictOk
      <4>3. dict[Len(packet_dict)+1].type # dict[k].type BY <4>1, <2>3, <2>2
      <4> QED BY <4>1, <4>2, <4>3, <3>1, <2>6 DEF DictOk
    <3>2. CASE k = Len(packet_dict) + 1
      <4>1. dict[k].list = <<d>> /\ dict[k].type = d.type BY <3>2, <2>2, <2>3
      <4>2. \A l \in DOMAIN packet_dict : dict[l].type # d.type BY <2>3, <2>4
      <4> QED BY <4>1, <4>2, <3>2, <2>5, <2>6
    <3> QED BY <3>1, <3>2, <2>6
  <2> QED BY <2>1, <2>3, <2>7
<1>3. CASE Known(d.type)
  <2> DEFINE dict == Store(d)
  <2>1. /\ DOMAIN dict = DOMAIN packet_dict
        /\ \A k \in DOMAIN packet_dict :
             dict[k] = IF packet_dict[k].type = d.type
                       THEN [packet_dict[k] EXCEPT !.list = Append(@, d)] ELSE packet_dict[k]
    BY <1>3 DEF Store
  <2>2. ASSUME NEW k \in DOMAIN packet_dict
        PROVE  /\ dict[k] \in Entry /\ dict[k].type = packet_dict[k].type /\ dict[k].list # <<>>
               /\ \A l \in DOMAIN dict[k].list : dict[k].list[l].type = dict[k].type
    <3>1. packet_dict[k] \in Entry /\ packet_dict[k].list \in Seq(Packet)
      <4>1. packet_dict[k] \in Entry OBVIOUS
      <4> QED BY <4>1 DEF Entry
    <3>2. CASE packet_dict[k].type # d.type BY <3>1, <3>2, <2>1 DEF DictOk
    <3>3. CASE packet_dict[k].type = d.type
      <4> DEFINE list == packet_dict[k].list
                 more == Append(list, d)
      <4>1. dict[k] = [packet_dict[k] EXCEPT !.list = more] BY <3>3, <2>1
      <4>2. /\ more \in Seq(Packet) /\ more # <<>> /\ Len(list) \in Nat /\ DOMAIN list = 1 .. Len(list)
            /\ DOMAIN more = 1 .. Len(list)+1
            /\ (\A l \in DOMAIN list : more[l] = list[l]) /\ more[Len(list)+1] = d
        BY <3>1
      <4>3. \A l \in DOMAIN list : list[l].type = d.type BY <3>3 DEF DictOk
      <4> HIDE DEF more
      <4>4. \A l \in DOMAIN more : more[l].type = d.type
        <5> HIDE DEF list
        <5>1. \A l \in DOMAIN more : l \in DOMAIN list \/ l = Len(list) + 1 BY <4>2
        <5> QED BY <4>2, <4>3, <5>1
      <4>5. dict[k] \in Entry /\ dict[k].type = packet_dict[k].type /\ dict[k].list = more
        BY <3>1, <4>1, <4>2 DEF Entry
      <4> QED BY <4>2, <4>4, <4>5, <3>3
    <3> QED BY <3>2, <3>3
  <2>3. Len(packet_dict) \in Nat /\ DOMAIN packet_dict = 1 .. Len(packet_dict) OBVIOUS
  <2>4. dict \in Seq(Entry)
    <3>1. dict = [k \in 1 .. Len(packet_dict) |-> dict[k]]
      BY <1>3, <2>3 DEF Store
    <3> HIDE DEF dict
    <3> QED BY <3>1, <2>2, <2>3
  <2> HIDE DEF dict
  <2>5. DictOk(dict) BY <2>1, <2>2 DEF DictOk
  <2> QED BY <2>4, <2>5 DEF dict
<1> QED BY <1>2, <1>3

LEMMA Empty ==
  ASSUME NEW S
  PROVE  /\ <<>> \in Seq(S) /\ Len(<<>>) = 0 /\ DOMAIN <<>> = {}
         /\ << <<>> >> \in Seq(Seq(S)) /\ << <<>> >> # <<>>
<1>1. <<>> \in Seq(S) /\ Len(<<>>) = 0 /\ DOMAIN <<>> = {} OBVIOUS
<1>2. << <<>> >> \in Seq(Seq(S)) /\ << <<>> >> # <<>> BY <1>1
<1> QED BY <1>1, <1>2

LEMMA TypesAtFirst == ASSUME Given PROVE PacketsInit => TypeInv
<1> SUFFICES ASSUME PacketsInit PROVE TypeInv OBVIOUS
<1>1. n_pix \in Nat /\ cap.err_i \in Nat BY Captured DEF PacketsInit
<1>2. Len(packet_dict) = 0 /\ packet_dict \in Seq(Entry) /\ DictOk(packet_dict)
  <2>1. Len(<<>>) = 0 /\ <<>> \in Seq(Entry) /\ DOMAIN <<>> = {} BY Empty
  <2>2. DictOk(<<>>) BY <2>1 DEF DictOk
  <2> QED BY <2>1, <2>2 DEF PacketsInit
<1>3. WorkOk(Work)
  <2>1. << <<>> >> \in Seq(Seq(ABit)) /\ <<>> \in Seq(Nat) /\ << <<>> >> # <<>> BY Empty
  <2>2. Work \in WorkSet BY <2>1 DEF Work, WorkSet, Exception, PacketsInit
  <2>3. \A ch \in Channels : Work.arrays[ch] = << <<>> >> /\ Work.raw[ch] = <<>> BY DEF Work, PacketsInit
  <2>4. Taken(<< <<>> >>, <<>>)
    <3>1. DOMAIN <<>> = {} BY Empty
    <3> QED BY <2>1, <3>1 DEF Taken
  <2> QED BY <2>2, <2>3, <2>4 DEF WorkOk
<1>4. exc \in Exception /\ p_stop \in BOOLEAN
  <2>1. exc \in Exception BY DEF Exception, PacketsInit
  <2>2. p_stop = (cap.err_i > 0) BY DEF PacketsInit
  <2> QED BY <2>1, <2>2
<1>5. /\ cap \in PacketCaptures /\ p_pass \in {"extract", "report"} /\ p_i = 0 /\ p_j = 0
      /\ packet_dict \in Seq(Entry) /\ DictOk(packet_dict)
  BY <1>2 DEF PacketsInit
<1> QED BY <1>1, <1>2, <1>3, <1>4, <1>5 DEF TypeInv

LEMMA SameCapture ==
  ASSUME cap' = cap
  PROVE  /\ n_pix' = n_pix /\ Sent' = Sent /\ Packet' = Packet /\ Entry' = Entry
         /\ ABit' = ABit /\ WorkSet' = WorkSet /\ Whole' = Whole
         /\ \A type : WholeOf(type)' = WholeOf(type)
<1>1. n_pix' = n_pix /\ Sent' = Sent BY DEF n_pix, Sent
<1>2. Packet' = Packet BY <1>1 DEF Packet
<1>3. Entry' = Entry /\ ABit' = ABit BY <1>2 DEF Entry, ABit, PacketBits
<1>4. WorkSet' = WorkSet BY <1>3 DEF WorkSet
<1>5. Whole' = Whole BY <1>1 DEF Whole
<1> QED BY <1>1, <1>2, <1>3, <1>4, <1>5 DEF WholeOf

LEMMA SameAudio ==
  ASSUME cap' = cap, UNCHANGED audio_vars
  PROVE  WorkOk(Work)' <=> WorkOk(Work)
<1>1. Work' = Work BY DEF Work, audio_vars
<1> QED BY <1>1, SameCapture DEF WorkOk

\* One of the passes after the extraction, with the packets as they are.
LEMMA Onward ==
  ASSUME Given, TypeInv, cap' = cap, packet_dict' = packet_dict, UNCHANGED audio_vars,
         NEW next \in {"decode", "compare", "report", "end"}, Goto(next),
         p_stop' \in BOOLEAN, exc' \in Exception
  PROVE  TypeInv'
<1>1. p_pass' = next /\ p_i' = 0 /\ p_j' = 0 BY DEF Goto
<1>2. packet_dict' \in Seq(Entry') /\ DictOk(packet_dict') /\ WorkOk(Work)'
  BY SameCapture, SameAudio DEF TypeInv
<1>3. Len(packet_dict) \in Nat BY DEF TypeInv
<1>4. p_i' < Len(packet_dict') => p_j' < Len(packet_list')
  <2> SUFFICES ASSUME 0 < Len(packet_dict) PROVE 0 < Len(packet_dict[1].list)
    BY <1>1 DEF packet_list
  <2>1. 1 \in DOMAIN packet_dict /\ packet_dict[1] \in Entry BY <1>3 DEF TypeInv
  <2>2. packet_dict[1].list \in Seq(Packet) /\ packet_dict[1].list # <<>>
    BY <2>1 DEF Entry, TypeInv, DictOk
  <2> QED BY <2>2
<1> QED BY <1>1, <1>2, <1>3, <1>4 DEF TypeInv

LEMMA AList ==
  ASSUME TypeInv, NEW k \in DOMAIN packet_dict
  PROVE  /\ packet_dict[k].list \in Seq(Packet) /\ packet_dict[k].list # <<>>
         /\ Len(packet_dict[k].list) \in Nat \ {0}
         /\ DOMAIN packet_dict[k].list = 1 .. Len(packet_dict[k].list)
         /\ \A l \in DOMAIN packet_dict[k].list : packet_dict[k].list[l] \in Packet
<1>1. packet_dict[k] \in Entry BY DEF TypeInv
<1>2. packet_dict[k].list \in Seq(Packet) /\ packet_dict[k].list # <<>>
  BY <1>1 DEF Entry, TypeInv, DictOk
<1> QED BY <1>2

\* The packet that is decoded next.
LEMMA TheNext ==
  ASSUME TypeInv, p_pass = "decode", p_i < Len(packet_dict)
  PROVE  /\ p_i+1 \in DOMAIN packet_dict /\ p_j+1 \in DOMAIN packet_list
         /\ packet_list[p_j+1] \in Packet /\ p_i \in Nat
         /\ packet_list[p_j+1].type = packet_dict[p_i+1].type
<1>1. p_i \in Nat /\ p_i+1 \in DOMAIN packet_dict BY DEF TypeInv
<1>2. p_j < Len(packet_list) /\ p_j \in Nat BY DEF TypeInv
<1>3. p_j + 1 \in DOMAIN packet_list BY <1>1, <1>2, AList DEF packet_list
<1> QED BY <1>1, <1>3, AList DEF packet_list, TypeInv, DictOk

LEMMA DecodeTypes == ASSUME Given, TypeInv, DecodePacket PROVE TypeInv'
<1> DEFINE w == DecodeType(packet_list[p_j+1])
<1>1. /\ p_pass = "decode" /\ p_i < Len(packet_dict) /\ cap' = cap /\ packet_dict' = packet_dict
      /\ arrays' = w.arrays /\ iec60958_cs_raw' = w.raw /\ p_stop' = w.stop /\ exc' = w.exc
      /\ IF w.exc # "" THEN Goto("end") ELSE IF w.stop THEN Goto("report") ELSE p_pass' = p_pass /\ NextPacket
  BY DEF DecodePacket
<1>2. WorkOk(w) BY <1>1, TheNext, Decoding DEF TypeInv
<1>3. p_stop' \in BOOLEAN /\ exc' \in Exception BY <1>1, <1>2 DEF WorkOk, WorkSet
<1>4. WorkOk(Work)'
  <2>1. Work' = [arrays |-> w.arrays, raw |-> w.raw, stop |-> FALSE, exc |-> ""]
    BY <1>1 DEF Work
  <2>2. Work' \in WorkSet BY <2>1, <1>2 DEF WorkOk, WorkSet, Exception
  <2> HIDE DEF w
  <2>3. WorkSet' = WorkSet BY <1>1, SameCapture
  <2>4. Work'.arrays = w.arrays /\ Work'.raw = w.raw BY <1>1 DEF Work
  <2> QED BY <2>2, <2>3, <2>4, <1>2 DEF WorkOk
<1>5. packet_dict' \in Seq(Entry') /\ DictOk(packet_dict') /\ cap' \in PacketCaptures
  BY <1>1, SameCapture DEF TypeInv
<1>6. Len(packet_dict) \in Nat /\ p_i \in Nat /\ p_j \in Nat /\ Len(packet_dict') = Len(packet_dict)
      /\ p_pass = "decode" /\ p_i < Len(packet_dict)
  <2>1. Len(packet_dict) \in Nat /\ p_i \in Nat /\ p_j \in Nat BY DEF TypeInv
  <2>2. Len(packet_dict') = Len(packet_dict) BY <1>1
  <2> QED BY <2>1, <2>2, <1>1
<1>7. CASE p_pass' \in {"end", "report"} /\ p_i' = 0 /\ p_j' = 0
  <2>1. p_pass' # "decode" /\ p_pass' # "extract" /\ p_i' <= Len(packet_dict') /\ p_i' \in Nat /\ p_j' \in Nat
    BY <1>6, <1>7
  <2> QED BY <2>1, <1>3, <1>4, <1>5, <1>7 DEF TypeInv
<1>8. CASE p_pass' = p_pass /\ NextPacket
  <2>1. packet_list \in Seq(Packet) /\ Len(packet_list) \in Nat BY <1>1, TheNext, AList DEF packet_list
  <2>2. CASE p_j + 1 < Len(packet_list)
    <3>1. p_j' = p_j + 1 /\ p_i' = p_i BY <1>8, <2>2 DEF NextPacket
    <3>2. packet_list' = packet_list BY <3>1, <1>1 DEF packet_list
    <3>3. p_j' < Len(packet_list') /\ p_j' \in Nat BY <3>1, <3>2, <2>2, <2>1, <1>6
    <3>4. p_pass' = "decode" /\ p_i' <= Len(packet_dict') /\ p_i' \in Nat
      BY <3>1, <1>6, <1>8
    <3> QED BY <3>3, <3>4, <1>3, <1>4, <1>5 DEF TypeInv
  <2>3. CASE ~(p_j + 1 < Len(packet_list))
    <3>1. p_j' = 0 /\ p_i' = p_i + 1 BY <1>8, <2>3 DEF NextPacket
    <3>2. p_i' < Len(packet_dict) => p_j' < Len(packet_list')
      <4> SUFFICES ASSUME p_i + 1 < Len(packet_dict) PROVE 0 < Len(packet_dict[p_i+1+1].list)
        BY <3>1, <1>1 DEF packet_list
      <4>1. p_i+1+1 \in DOMAIN packet_dict BY <1>6 DEF TypeInv
      <4> QED BY <4>1, AList
    <3>3. p_pass' = "decode" /\ p_i' <= Len(packet_dict') /\ p_i' \in Nat /\ p_j' \in Nat
      BY <3>1, <1>6, <1>8
    <3> QED BY <3>2, <3>3, <1>1, <1>3, <1>4, <1>5 DEF TypeInv
  <2> QED BY <2>2, <2>3
<1> QED BY <1>1, <1>7, <1>8 DEF Goto

LEMMA ExtractTypes == ASSUME Given, TypeInv, ExtractPixel PROVE TypeInv'
<1>1. /\ p_pass = "extract" /\ cap' = cap /\ p_i < n_pix
      /\ p_stop' = p_stop /\ UNCHANGED audio_vars
  BY DEF ExtractPixel
<1>2. n_pix \in Nat /\ p_i \in 0 .. n_pix-1 BY <1>1, Captured DEF TypeInv
<1>3. CASE exc' = "ValueError" /\ Goto("end") /\ packet_dict' = packet_dict
  BY <1>1, <1>3, Onward DEF TypeInv, Exception
<1>4. CASE UNCHANGED <<p_pass, p_j, exc>>
  <2>1. p_i' \in Nat /\ p_i' <= n_pix /\ p_j \in Nat
    BY <1>1, <1>2, <1>4 DEF ExtractPixel, Room, Given, TypeInv, Goto
  <2>2. packet_dict' \in Seq(Entry) /\ DictOk(packet_dict')
    <3>1. \/ packet_dict' = packet_dict
          \/ cap.pix[p_i+1] # <<>> /\ packet_dict' = Store(Gather(p_i))
      BY DEF ExtractPixel
    <3>2. CASE cap.pix[p_i+1] # <<>> /\ packet_dict' = Store(Gather(p_i))
      <4>1. Gather(p_i) \in Packet BY <1>2, <3>2, Gathered DEF TypeInv
      <4> QED BY <3>2, <4>1, Storing DEF TypeInv
    <3> QED BY <3>1, <3>2 DEF TypeInv
  <2>3. n_pix' = n_pix /\ Entry' = Entry /\ WorkOk(Work)' BY <1>1, SameCapture, SameAudio DEF TypeInv
  <2> QED BY <1>1, <1>4, <2>1, <2>2, <2>3 DEF TypeInv
<1> QED BY <1>3, <1>4 DEF ExtractPixel

LEMMA TypeNext == ASSUME Given PROVE TypeInv /\ [PacketsNext]_packet_vars => TypeInv'
<1> SUFFICES ASSUME TypeInv, [PacketsNext]_packet_vars PROVE TypeInv' OBVIOUS
<1>1. CASE UNCHANGED packet_vars
  <2>1. /\ cap' = cap /\ p_pass' = p_pass /\ p_i' = p_i /\ p_j' = p_j /\ packet_dict' = packet_dict
        /\ p_stop' = p_stop /\ exc' = exc /\ UNCHANGED audio_vars
    BY <1>1 DEF packet_vars
  <2>2. n_pix' = n_pix /\ Entry' = Entry /\ WorkOk(Work)' /\ packet_list' = packet_list
    BY <2>1, SameCapture, SameAudio DEF TypeInv, packet_list
  <2> QED BY <2>1, <2>2 DEF TypeInv
<1>2. CASE ExtractPixel BY <1>2, ExtractTypes
<1>3. CASE CheckEcc
  <2>1. cap' = cap /\ packet_dict' = packet_dict /\ exc' = exc /\ UNCHANGED audio_vars /\ p_stop' \in BOOLEAN
    BY <1>3 DEF CheckEcc
  <2>2. PICK next \in {"report", "decode"} : Goto(next)
    BY <1>3 DEF CheckEcc, GotoUnlessStopped
  <2> QED BY <2>1, <2>2, Onward DEF TypeInv
<1>4. CASE DecodePacket BY <1>4, DecodeTypes
<1>5. CASE BuildBlocks
  <2>1. /\ cap' = cap /\ packet_dict' = packet_dict /\ exc' = exc /\ UNCHANGED audio_vars /\ p_stop' = p_stop
        /\ Goto("compare")
    BY <1>5 DEF BuildBlocks
  <2> QED BY <2>1, Onward DEF TypeInv
<1>6. CASE Compare
  <2>1. /\ cap' = cap /\ packet_dict' = packet_dict /\ UNCHANGED audio_vars /\ p_stop' = p_stop
        /\ exc' = exc \/ exc' = "IndexError: notes"
    BY <1>6 DEF Compare
  <2>2. PICK next \in {"report", "end"} : Goto(next) BY <1>6 DEF Compare
  <2> QED BY <2>1, <2>2, Onward DEF TypeInv, Exception
<1>7. CASE Report
  <2>1. /\ cap' = cap /\ packet_dict' = packet_dict /\ UNCHANGED audio_vars /\ p_stop' = p_stop
        /\ exc' = exc \/ exc' = "IndexError: no CSB"
        /\ Goto("end")
    BY <1>7 DEF Report
  <2> QED BY <2>1, Onward DEF TypeInv, Exception
<1> QED BY <1>1, <1>2, <1>3, <1>4, <1>5, <1>6, <1>7 DEF PacketsNext

\* For every capture, whatever is wrong in it: each type has its packets under one key,
\* and the arrays taken as blocks are there, each taken once (PacketTypes).
THEOREM TypeCorrect == ASSUME Given PROVE PacketsSpec => []PacketTypes
<1>1. ASSUME TypeInv PROVE PacketTypes
  <2>1. n_pix \in Nat /\ Len(packet_dict) \in Nat BY <1>1, Captured DEF TypeInv
  <2>2. \A k \in DOMAIN packet_dict : Len(packet_dict[k].list) \in Nat BY <1>1, AList
  <2>3. p_i \in 0 .. (IF p_pass = "extract" THEN n_pix ELSE Len(packet_dict)) BY <2>1, <1>1 DEF TypeInv
  <2>4. ASSUME p_pass = "decode", p_i < Len(packet_dict) PROVE p_j \in 0 .. Len(packet_list)-1
    <3>1. p_i + 1 \in DOMAIN packet_dict BY <1>1, <2>1, <2>4 DEF TypeInv
    <3> QED BY <3>1, <2>2, <2>4, <1>1 DEF TypeInv, packet_list
  <2>5. \A ch \in Channels : Taken(arrays[ch], iec60958_cs_raw[ch])
    BY <1>1 DEF TypeInv, WorkOk, Work
  <2> QED BY <2>3, <2>4, <2>5, <1>1 DEF TypeInv, PacketTypes, DictOk, Taken
<1> QED BY <1>1, TypesAtFirst, TypeNext, PTL DEF PacketsSpec

------------------------------------------------------------------------------
(* The packets found.  First is where the packets begin; OfType are those of *)
(* a type among the first P; Ahead is how many of its type are before one.   *)

First == CHOOSE at : Layout(cap, at)
OfType(type, P) == {q \in 1 .. P : cap.packets[q].type = type}
Count(type, P) == Cardinality(OfType(type, P))
Ahead(q) == Count(cap.packets[q].type, q-1)

\* The entries of dict are the first P packets, each at its place.
Holds(entry, P) ==
  /\ Len(entry.list) = Count(entry.type, P)
  /\ \A l \in DOMAIN entry.list : \E q \in 1 .. P :
       cap.packets[q].type = entry.type /\ Ahead(q) = l-1 /\ entry.list[l] = cap.packets[q]
Places(dict, q) ==
  \E k \in DOMAIN dict : /\ dict[k].type = cap.packets[q].type
                         /\ Ahead(q)+1 \in DOMAIN dict[k].list /\ dict[k].list[Ahead(q)+1] = cap.packets[q]
Found(dict, P) == (\A k \in DOMAIN dict : Holds(dict[k], P)) /\ \A q \in 1 .. P : Places(dict, q)

\* Until p_i, P packets have been found, and the next is not before it.
FoundSoFar(P) ==
  /\ 1 .. P \subseteq Whole /\ Found(packet_dict, P)
  /\ P+1 \in Whole => p_i <= First[P+1]
  /\ P > 0 => First[P] + PacketLen <= p_i
FoundInv ==
  /\ p_pass = "extract" => \E P \in Nat : FoundSoFar(P)
  /\ p_pass \in {"decode", "compare"} => \E P \in Nat : Whole = 1 .. P /\ Found(packet_dict, P)

LEMMA FirstIs ==
  ASSUME Given, cap \in PacketCaptures
  PROVE  /\ \A p \in Sent : First[p] \in Nat
         /\ \A p, q \in Sent : p < q => First[p] + PacketLen <= First[q]
         /\ \A k \in 1 .. n_pix : cap.pix[k] # <<>> =>
              \E p \in Sent : \E j \in 1 .. PacketLen : k = First[p] + j /\ cap.pix[k] = <<p, j>>
         /\ \A k \in 1 .. n_pix : \A p \in Sent : \A j \in 1 .. PacketLen :
              k = First[p] + j => cap.pix[k] = <<p, j>>
<1>1. Layout(cap, First) BY DEF Given, IsCapture, First
<1>2. DOMAIN cap.pix = 1 .. n_pix /\ n_pix \in Nat /\ PacketLen \in Nat BY Captured DEF Given
<1>3. \A p \in Sent : First[p] \in Nat BY <1>1 DEF Layout, Sent
<1>4. \A p, q \in Sent : p < q => First[p] + PacketLen <= First[q] BY <1>1 DEF Layout, Sent
<1>5. \A k \in 1 .. n_pix :
       \/ \E p \in Sent : \E j \in 1 .. PacketLen : k = First[p] + j /\ cap.pix[k] = <<p, j>>
       \/ cap.pix[k] = <<>> /\ \A p \in Sent : \A j \in 1 .. PacketLen : k # First[p] + j
  BY <1>1, <1>2 DEF Layout, Sent
<1>6. ASSUME NEW k \in 1 .. n_pix, NEW p \in Sent, NEW j \in 1 .. PacketLen, k = First[p] + j
      PROVE  cap.pix[k] = <<p, j>>
  <2>1. PICK q \in Sent, i \in 1 .. PacketLen : k = First[q] + i /\ cap.pix[k] = <<q, i>> BY <1>5, <1>6
  <2>2. p \in Nat /\ q \in Nat BY Captured
  <2>3. First[p] \in Nat /\ First[q] \in Nat BY <1>3
  <2>4. (p < q => First[p] + PacketLen <= First[q]) /\ (q < p => First[q] + PacketLen <= First[p]) BY <1>4
  <2>5. p = q
    <3>1. PICK x \in Nat, y \in Nat : x = First[p] /\ y = First[q] BY <2>3
    <3>2. x + j = y + i BY <2>1, <3>1, <1>6
    <3>3. x + PacketLen <= y => x + j # y + i BY <1>2
    <3>4. y + PacketLen <= x => x + j # y + i BY <1>2
    <3>5. ~(p < q) /\ ~(q < p) BY <2>4, <3>1, <3>2, <3>3, <3>4
    <3> QED BY <3>5, <2>2
  <2>6. i = j BY <2>1, <2>5, <1>6, <2>3
  <2> QED BY <2>1, <2>5, <2>6
<1> QED BY <1>3, <1>4, <1>5, <1>6

LEMMA WholeIs ==
  ASSUME Given, cap \in PacketCaptures
  PROVE  \A p : p \in Whole <=> p \in Sent /\ First[p] + PacketLen <= n_pix
<1> SUFFICES ASSUME NEW p \in Sent PROVE p \in Whole <=> First[p] + PacketLen <= n_pix
  BY DEF Whole, Sent
<1>1. n_pix \in Nat /\ PacketLen \in Nat \ {0} /\ First[p] \in Nat BY Captured, FirstIs DEF Given
<1>2. ASSUME p \in Whole PROVE First[p] + PacketLen <= n_pix
  <2>1. PICK k \in 0 .. n_pix - PacketLen : \A j \in 1 .. PacketLen : cap.pix[k+j] = <<p, j>>
    BY <1>2 DEF Whole
  <2>2. cap.pix[k+1] = <<p, 1>> /\ k+1 \in 1 .. n_pix BY <2>1, <1>1
  <2>3. cap.pix[k+1] # <<>> BY <2>2
  <2>4. PICK q \in Sent, j \in 1 .. PacketLen : k+1 = First[q] + j /\ cap.pix[k+1] = <<q, j>>
    BY <2>2, <2>3, FirstIs
  <2>5. q = p /\ j = 1 BY <2>2, <2>4
  <2> QED BY <2>4, <2>5, <1>1
<1>3. ASSUME First[p] + PacketLen <= n_pix PROVE p \in Whole
  <2>1. First[p] \in 0 .. n_pix - PacketLen BY <1>1, <1>3
  <2>2. \A j \in 1 .. PacketLen : First[p]+j \in 1 .. n_pix BY <1>1, <1>3
  <2>3. \A j \in 1 .. PacketLen : cap.pix[First[p]+j] = <<p, j>> BY <2>2, FirstIs
  <2> QED BY <2>1, <2>3 DEF Whole, Sent
<1> QED BY <1>2, <1>3

LEMMA Counting ==
  ASSUME NEW P \in Nat, NEW type
  PROVE  /\ Count(type, P) \in Nat /\ IsFiniteSet(OfType(type, P)) /\ Count(type, 0) = 0
         /\ Count(type, P+1) = Count(type, P) + (IF cap.packets[P+1].type = type THEN 1 ELSE 0)
         /\ OfType(type, P) = {} => Count(type, P) = 0
<1>1. IsFiniteSet(1 .. P) BY FS_Interval
<1>2. IsFiniteSet(OfType(type, P)) BY <1>1, FS_Subset DEF OfType
<1>3. Count(type, P) \in Nat BY <1>2, FS_CardinalityType DEF Count
<1>4. Cardinality({}) = 0 BY FS_EmptySet
<1>5. OfType(type, 0) = {} BY DEF OfType
<1>6. CASE cap.packets[P+1].type = type
  <2>1. OfType(type, P+1) = OfType(type, P) \cup {P+1} BY <1>6 DEF OfType
  <2>2. P+1 \notin OfType(type, P) BY DEF OfType
  <2>3. Cardinality(OfType(type, P) \cup {P+1}) = Cardinality(OfType(type, P)) + 1
    BY <2>2, <1>2, FS_AddElement
  <2> QED BY <2>1, <2>3, <1>2, <1>3, <1>4, <1>5, <1>6 DEF Count
<1>7. CASE cap.packets[P+1].type # type
  <2>1. OfType(type, P+1) = OfType(type, P) BY <1>7 DEF OfType
  <2> QED BY <2>1, <1>2, <1>3, <1>4, <1>5, <1>7 DEF Count
<1> QED BY <1>6, <1>7

\* One more packet, put into its list.
LEMMA OneMore ==
  ASSUME Given, TypeInv, NEW P \in Nat, Found(packet_dict, P), P+1 \in Sent
  PROVE  Found(Store(cap.packets[P+1]), P+1)
<1> DEFINE d == cap.packets[P+1]
           dict == Store(d)
<1>1. d \in Packet BY DEF Packet
<1>2. Len(packet_dict) \in Nat /\ DOMAIN packet_dict = 1 .. Len(packet_dict) BY DEF TypeInv
<1>3. /\ Count(d.type, P) \in Nat /\ Count(d.type, P+1) = Count(d.type, P) + 1
      /\ \A type : type # d.type => Count(type, P+1) = Count(type, P)
  BY Counting
<1>4. Ahead(P+1) = Count(d.type, P) BY DEF Ahead
<1>5. \A q \in 1 .. P+1 : q \in 1 .. P \/ q = P+1 OBVIOUS
<1>6. \A q \in 1 .. P : q \in 1 .. P+1 OBVIOUS
<1>7. P+1 \in 1 .. P+1 OBVIOUS
<1>8. CASE ~Known(d.type)
  <2> DEFINE e == [type |-> d.type, list |-> <<d>>]
  <2>1. dict = Append(packet_dict, e) BY <1>8 DEF Store
  <2>2. /\ e.type = d.type /\ e.list = <<d>> /\ Len(<<d>>) = 1 /\ DOMAIN <<d>> = {1} /\ <<d>>[1] = d OBVIOUS
  <2> HIDE DEF e
  <2>3. /\ DOMAIN dict = 1 .. Len(packet_dict)+1
        /\ \A k \in DOMAIN packet_dict : dict[k] = packet_dict[k]
        /\ dict[Len(packet_dict)+1] = e
    BY <2>1, <1>2 DEF TypeInv
  <2> HIDE DEF dict
  <2>4. \A k \in DOMAIN packet_dict : packet_dict[k].type # d.type BY <1>8 DEF Known
  <2>5. OfType(d.type, P) = {} BY <2>4 DEF Found, Places, OfType
  <2>6. Count(d.type, P) = 0 BY <2>5, Counting
  <2>7. \A k \in DOMAIN dict : Holds(dict[k], P+1)
    <3> SUFFICES ASSUME NEW k \in DOMAIN dict PROVE Holds(dict[k], P+1) OBVIOUS
    <3>1. CASE k \in DOMAIN packet_dict
      <4>1. Holds(packet_dict[k], P) /\ dict[k] = packet_dict[k] /\ packet_dict[k].type # d.type
        BY <3>1, <2>3, <2>4 DEF Found
      <4> QED BY <4>1, <1>3, <1>6 DEF Holds
    <3>2. CASE k = Len(packet_dict) + 1
      <4>1. dict[k] = e BY <3>2, <2>3
      <4>2. Len(e.list) = Count(e.type, P+1) BY <2>2, <1>3, <2>6
      <4>3. \A l \in DOMAIN e.list : l = 1 /\ e.list[l] = d BY <2>2
      <4>4. Ahead(P+1) = 1-1 BY <1>4, <2>6
      <4> QED BY <4>1, <4>2, <4>3, <4>4, <2>2, <1>7 DEF Holds
    <3>3. k \in DOMAIN packet_dict \/ k = Len(packet_dict) + 1 BY <1>2, <2>3
    <3> QED BY <3>1, <3>2, <3>3
  <2>8. \A q \in 1 .. P+1 : Places(dict, q)
    <3> SUFFICES ASSUME NEW q \in 1 .. P+1 PROVE Places(dict, q) OBVIOUS
    <3>1. CASE q \in 1 .. P
      <4>1. Places(packet_dict, q) BY <3>1 DEF Found
      <4>2. \A k \in DOMAIN packet_dict : k \in DOMAIN dict BY <1>2, <2>3
      <4> QED BY <4>1, <4>2, <2>3 DEF Places
    <3>2. CASE q = P+1
      <4>1. Len(packet_dict)+1 \in DOMAIN dict BY <1>2, <2>3
      <4>2. Ahead(P+1) + 1 = 1 BY <1>4, <2>6
      <4>3. dict[Len(packet_dict)+1].type = d.type /\ dict[Len(packet_dict)+1].list = <<d>> BY <2>2, <2>3
      <4> QED BY <4>1, <4>2, <4>3, <2>2, <3>2 DEF Places
    <3> QED BY <3>1, <3>2, <1>5
  <2> QED BY <2>7, <2>8 DEF Found, dict
<1>9. CASE Known(d.type)
  <2>1. PICK x \in DOMAIN packet_dict : packet_dict[x].type = d.type BY <1>9 DEF Known
  <2> DEFINE list == packet_dict[x].list
             more == Append(list, d)
  <2>2. /\ more \in Seq(Packet) /\ Len(list) \in Nat /\ DOMAIN list = 1 .. Len(list)
        /\ Len(more) = Len(list) + 1 /\ DOMAIN more = 1 .. Len(list)+1
        /\ (\A l \in DOMAIN list : more[l] = list[l]) /\ more[Len(list)+1] = d
    BY <1>1, AList
  <2>3. /\ DOMAIN dict = DOMAIN packet_dict
        /\ \A k \in DOMAIN packet_dict : k # x => packet_dict[k].type # d.type /\ dict[k] = packet_dict[k]
        /\ dict[x] = [packet_dict[x] EXCEPT !.list = more]
    BY <1>9, <2>1 DEF Store, TypeInv, DictOk
  <2>4. dict[x].type = d.type /\ dict[x].list = more
    <3>1. packet_dict[x] \in Entry BY DEF TypeInv
    <3> HIDE DEF more, dict
    <3> QED BY <3>1, <2>1, <2>3 DEF Entry
  <2> HIDE DEF more, dict
  <2>5. Holds(packet_dict[x], P) BY DEF Found
  <2>6. Len(list) = Count(d.type, P) BY <2>1, <2>5 DEF Holds
  <2>7. \A k \in DOMAIN dict : Holds(dict[k], P+1)
    <3> SUFFICES ASSUME NEW k \in DOMAIN dict PROVE Holds(dict[k], P+1) OBVIOUS
    <3>1. CASE k # x
      <4>1. Holds(packet_dict[k], P) /\ dict[k] = packet_dict[k] /\ packet_dict[k].type # d.type
        BY <3>1, <2>3 DEF Found
      <4> QED BY <4>1, <1>3, <1>6 DEF Holds
    <3>2. CASE k = x
      <4>1. Len(more) = Count(d.type, P+1) BY <2>2, <2>6, <1>3
      <4>2. ASSUME NEW l \in DOMAIN more
            PROVE  \E q \in 1 .. P+1 : cap.packets[q].type = d.type /\ Ahead(q) = l-1 /\ more[l] = cap.packets[q]
        <5>1. CASE l \in DOMAIN list
          <6>1. more[l] = list[l] BY <5>1, <2>2
          <6>2. \E q \in 1 .. P : cap.packets[q].type = d.type /\ Ahead(q) = l-1 /\ list[l] = cap.packets[q]
            BY <5>1, <2>1, <2>5 DEF Holds
          <6> QED BY <6>1, <6>2, <1>6
        <5>2. CASE l = Len(list) + 1
          <6>1. Ahead(P+1) = l-1 BY <5>2, <1>4, <2>2, <2>6
          <6> QED BY <6>1, <5>2, <2>2, <1>7
        <5>3. l \in DOMAIN list \/ l = Len(list) + 1
          <6> HIDE DEF list
          <6> QED BY <2>2
        <5> QED BY <5>1, <5>2, <5>3
      <4> QED BY <4>1, <4>2, <2>4, <3>2 DEF Holds
    <3> QED BY <3>1, <3>2
  <2>8. \A q \in 1 .. P+1 : Places(dict, q)
    <3> SUFFICES ASSUME NEW q \in 1 .. P+1 PROVE Places(dict, q) OBVIOUS
    <3>1. CASE q \in 1 .. P
      <4>1. PICK k \in DOMAIN packet_dict :
              /\ packet_dict[k].type = cap.packets[q].type
              /\ Ahead(q)+1 \in DOMAIN packet_dict[k].list /\ packet_dict[k].list[Ahead(q)+1] = cap.packets[q]
        BY <3>1 DEF Found, Places
      <4>2. CASE k # x BY <4>1, <4>2, <2>3 DEF Places
      <4>3. CASE k = x
        <5>1. Ahead(q)+1 \in DOMAIN list /\ list[Ahead(q)+1] = cap.packets[q] BY <4>1, <4>3
        <5>2. \A l \in DOMAIN list : l \in DOMAIN more
          <6> HIDE DEF list
          <6> QED BY <2>2
        <5>3. Ahead(q)+1 \in DOMAIN more /\ more[Ahead(q)+1] = cap.packets[q] BY <5>1, <5>2, <2>2
        <5> QED BY <5>3, <4>1, <4>3, <2>1, <2>3, <2>4 DEF Places
      <4> QED BY <4>2, <4>3
    <3>2. CASE q = P+1
      <4>1. Ahead(P+1)+1 \in DOMAIN more /\ more[Ahead(P+1)+1] = d
        <5> HIDE DEF list
        <5> QED BY <1>4, <2>2, <2>6
      <4> QED BY <4>1, <2>1, <2>3, <2>4, <3>2 DEF Places
    <3> QED BY <3>1, <3>2, <1>5
  <2> QED BY <2>7, <2>8 DEF Found, dict
<1> QED BY <1>8, <1>9

\* A pixel of a packet is the first pixel of the next one to be found.
LEMMA NextPixel ==
  ASSUME Given, TypeInv, p_i < n_pix, cap.pix[p_i+1] # <<>>, NEW P \in Nat, FoundSoFar(P)
  PROVE  /\ P+1 \in Sent /\ (Room(p_i) <=> P+1 \in Whole)
         /\ Room(p_i) => p_i = First[P+1] /\ AllTerc4(p_i) /\ Gather(p_i) = cap.packets[P+1]
<1>1. n_pix \in Nat /\ PacketLen \in Nat \ {0} /\ p_i \in Nat BY Captured DEF Given, TypeInv
<1>2. PICK q \in Sent, at \in 1 .. PacketLen : p_i+1 = First[q] + at
  <2>1. p_i+1 \in 1 .. n_pix BY <1>1
  <2> QED BY <2>1, FirstIs DEF TypeInv
<1>3. PICK length \in Nat : Sent = 1 .. length BY Captured DEF TypeInv
<1>4. \A p \in Sent : First[p] \in Nat BY FirstIs DEF TypeInv
<1>5. \A p, r \in Sent : p < r => First[p] + PacketLen <= First[r] BY FirstIs DEF TypeInv
<1>6. \A p : p \in Whole <=> p \in Sent /\ First[p] + PacketLen <= n_pix BY WholeIs DEF TypeInv
<1>7. q >= P+1
  <2> SUFFICES ASSUME q <= P PROVE FALSE BY <1>3
  <2>1. P \in 1 .. P /\ P > 0 BY <1>3
  <2>2. P \in Sent BY <2>1, <1>6 DEF FoundSoFar
  <2>3. First[q] + PacketLen <= First[P] + PacketLen
    <3>1. CASE q = P BY <3>1, <1>1, <1>4
    <3>2. CASE q < P
      <4>1. First[q] + PacketLen <= First[P] BY <3>2, <1>5, <2>2
      <4>2. First[q] \in Nat /\ First[P] \in Nat BY <1>4, <2>2
      <4> QED BY <4>1, <4>2, <1>1
    <3> QED BY <3>1, <3>2, <1>3
  <2>4. First[P] + PacketLen <= p_i BY <2>1 DEF FoundSoFar
  <2> QED BY <2>3, <2>4, <1>1, <1>2, <1>4, <2>2
<1>8. P+1 \in Sent BY <1>3, <1>7
<1>9. q = P+1
  <2> SUFFICES ASSUME P+1 < q PROVE FALSE BY <1>3, <1>7
  <2>1. First[P+1] + PacketLen <= First[q] BY <1>5, <1>8
  <2>2. First[P+1] + PacketLen <= n_pix BY <2>1, <1>1, <1>2, <1>4, <1>8
  <2>3. p_i <= First[P+1] BY <2>2, <1>6, <1>8 DEF FoundSoFar
  <2> QED BY <2>1, <2>3, <1>1, <1>2, <1>4, <1>8
<1>10. Room(p_i) <=> p_i + PacketLen <= n_pix BY <1>1 DEF Room
<1>11. First[P+1] \in Nat /\ p_i >= First[P+1] BY <1>1, <1>2, <1>4, <1>8, <1>9
<1>12. ASSUME P+1 \in Whole PROVE p_i = First[P+1]
  <2>1. p_i <= First[P+1] BY <1>12 DEF FoundSoFar
  <2> QED BY <2>1, <1>1, <1>11
<1>13. Room(p_i) => P+1 \in Whole BY <1>1, <1>6, <1>8, <1>10, <1>11
<1>14. P+1 \in Whole => Room(p_i) BY <1>6, <1>10, <1>12
<1>15. ASSUME Room(p_i) PROVE AllTerc4(p_i) /\ Gather(p_i) = cap.packets[P+1]
  <2>1. p_i = First[P+1] /\ p_i + PacketLen <= n_pix BY <1>10, <1>12, <1>13, <1>15
  <2>2. \A j \in 1 .. PacketLen : p_i+j \in 1 .. n_pix BY <2>1, <1>1
  <2>3. \A j \in 1 .. PacketLen : cap.pix[p_i+j] = <<P+1, j>> BY <2>1, <2>2, <1>8, FirstIs DEF TypeInv
  <2>4. cap.pix[p_i+1] = <<P+1, 1>> BY <2>3, <1>1
  <2>5. cap.pix[p_i+1][1] = P+1 BY <2>4
  <2> QED BY <2>3, <2>5 DEF Gather, AllTerc4
<1> QED BY <1>8, <1>12, <1>13, <1>14, <1>15

LEMMA SameFound ==
  ASSUME cap' = cap, NEW P
  PROVE  Found(packet_dict, P)' <=> Found(packet_dict', P)
BY DEF Found, Holds, Places, Ahead, Count, OfType

LEMMA Extracting ==
  ASSUME Given, TypeInv, ExtractPixel, NEW P \in Nat, FoundSoFar(P)
  PROVE  \E Q \in Nat : FoundSoFar(Q)'
<1>1. p_i < n_pix /\ cap' = cap /\ Whole' = Whole /\ First' = First
  BY SameCapture DEF ExtractPixel, First
<1>2. n_pix \in Nat /\ PacketLen \in Nat \ {0} /\ p_i \in Nat BY Captured DEF Given, TypeInv
<1>3. \A p : p \in Whole <=> p \in Sent /\ First[p] + PacketLen <= n_pix BY WholeIs DEF TypeInv
<1>4. \A p \in Sent : First[p] \in Nat BY FirstIs DEF TypeInv
<1>5. CASE cap.pix[p_i+1] = <<>>
  <2>1. p_i' = p_i + 1 /\ packet_dict' = packet_dict BY <1>5 DEF ExtractPixel
  <2>2. Found(packet_dict, P)' BY <1>1, <2>1, SameFound DEF FoundSoFar
  <2>3. ASSUME P+1 \in Whole PROVE p_i + 1 <= First[P+1]
    <3>1. p_i <= First[P+1] BY <2>3 DEF FoundSoFar
    <3>2. P+1 \in Sent /\ First[P+1] + PacketLen <= n_pix /\ First[P+1] \in Nat BY <2>3, <1>3, <1>4
    <3>3. First[P+1] + 1 \in 1 .. n_pix /\ 1 \in 1 .. PacketLen BY <3>2, <1>2
    <3>4. cap.pix[First[P+1]+1] = <<P+1, 1>> BY <3>2, <3>3, FirstIs DEF TypeInv
    <3>5. <<P+1, 1>> # <<>> OBVIOUS
    <3>6. ASSUME First[P+1] = p_i PROVE FALSE
      <4>1. cap.pix[p_i+1] = <<P+1, 1>> BY <3>4, <3>6, Zenon
      <4> QED BY <4>1, <3>5, <1>5, Zenon
    <3> QED BY <3>1, <3>2, <3>6, <1>2
  <2>4. ASSUME P > 0 PROVE First[P] + PacketLen <= p_i + 1
    <3>1. First[P] + PacketLen <= p_i BY <2>4 DEF FoundSoFar
    <3>2. P \in 1 .. P BY <2>4
    <3>3. First[P] \in Nat BY <3>2, <1>3, <1>4 DEF FoundSoFar
    <3> QED BY <3>1, <3>3, <1>2
  <2> QED BY <1>1, <2>1, <2>2, <2>3, <2>4 DEF FoundSoFar
<1>6. CASE cap.pix[p_i+1] # <<>> /\ Room(p_i)
  <2>1. /\ P+1 \in Sent /\ P+1 \in Whole /\ p_i = First[P+1]
        /\ AllTerc4(p_i) /\ Gather(p_i) = cap.packets[P+1]
    BY <1>1, <1>6, NextPixel
  <2>2. p_i' = p_i + PacketLen /\ packet_dict' = Store(cap.packets[P+1])
    BY <1>6, <2>1 DEF ExtractPixel
  <2>3. Found(packet_dict, P+1)'
    <3>1. Found(Store(cap.packets[P+1]), P+1) BY <2>1, OneMore DEF FoundSoFar
    <3> QED BY <3>1, <2>2, <1>1, SameFound
  <2>4. 1 .. P+1 \subseteq Whole
    <3>1. \A q \in 1 .. P+1 : q \in 1 .. P \/ q = P+1 OBVIOUS
    <3> QED BY <3>1, <2>1 DEF FoundSoFar
  <2>5. ASSUME P+1+1 \in Whole PROVE p_i + PacketLen <= First[P+1+1]
    <3>1. P+1+1 \in Sent /\ P+1 < P+1+1 BY <2>5, <1>3
    <3> QED BY <3>1, <2>1, FirstIs DEF TypeInv
  <2>6. First[P+1] + PacketLen <= p_i + PacketLen BY <2>1, <1>2
  <2>7. FoundSoFar(P+1)' BY <1>1, <2>2, <2>3, <2>4, <2>5, <2>6 DEF FoundSoFar
  <2>8. P+1 \in Nat OBVIOUS
  <2> QED BY <2>7, <2>8
<1>7. CASE cap.pix[p_i+1] # <<>> /\ ~Room(p_i)
  <2>1. P+1 \notin Whole BY <1>1, <1>7, NextPixel
  <2>2. p_i' = n_pix /\ packet_dict' = packet_dict BY <1>7 DEF ExtractPixel
  <2>3. Found(packet_dict, P)' BY <1>1, <2>2, SameFound DEF FoundSoFar
  <2>4. ASSUME P > 0 PROVE First[P] + PacketLen <= n_pix
    <3>1. P \in 1 .. P BY <2>4
    <3> QED BY <3>1, <1>3 DEF FoundSoFar
  <2> QED BY <1>1, <2>1, <2>2, <2>3, <2>4 DEF FoundSoFar
<1> QED BY <1>5, <1>6, <1>7

LEMMA FoundAtFirst == ASSUME Given, PacketsInit PROVE FoundInv
<1>1. cap \in PacketCaptures /\ p_i = 0 /\ packet_dict = <<>> /\ p_pass \in {"extract", "report"}
  BY DEF PacketsInit
<1>2. \A p \in Whole : First[p] \in Nat BY <1>1, WholeIs, FirstIs
<1>3. 1 .. 0 = {} OBVIOUS
<1>4. Found(<<>>, 0) BY <1>3, Empty DEF Found
<1>5. 0 + 1 \in Whole => 0 <= First[0+1] BY <1>2
<1>6. FoundSoFar(0) BY <1>1, <1>3, <1>4, <1>5 DEF FoundSoFar
<1> QED BY <1>1, <1>6 DEF FoundInv

LEMMA AllFound ==
  ASSUME Given, TypeInv, p_i >= n_pix, NEW P \in Nat, FoundSoFar(P)
  PROVE  Whole = 1 .. P
<1>1. n_pix \in Nat /\ PacketLen \in Nat \ {0} /\ p_i \in Nat BY Captured DEF Given, TypeInv
<1>2. \A p : p \in Whole <=> p \in Sent /\ First[p] + PacketLen <= n_pix BY WholeIs DEF TypeInv
<1>3. \A p \in Sent : First[p] \in Nat BY FirstIs DEF TypeInv
<1>4. PICK length \in Nat : Sent = 1 .. length BY Captured DEF TypeInv
<1>5. P+1 \notin Whole
  <2> SUFFICES ASSUME P+1 \in Whole PROVE FALSE OBVIOUS
  <2>1. p_i <= First[P+1] /\ First[P+1] + PacketLen <= n_pix /\ First[P+1] \in Nat
    BY <1>2, <1>3 DEF FoundSoFar
  <2> QED BY <2>1, <1>1
<1>6. ASSUME NEW q \in Whole PROVE q \in 1 .. P
  <2> SUFFICES ASSUME q > P PROVE FALSE BY <1>2, <1>4
  <2>1. q \in Sent /\ First[q] + PacketLen <= n_pix /\ q \in Nat BY <1>2, <1>4
  <2>2. q # P+1 BY <1>5
  <2>3. P+1 \in Sent /\ P+1 < q BY <2>1, <2>2, <1>4
  <2>4. First[P+1] + PacketLen <= First[q] BY <2>1, <2>3, FirstIs DEF TypeInv
  <2>5. First[P+1] + PacketLen <= n_pix BY <2>1, <2>3, <2>4, <1>1, <1>3
  <2> QED BY <2>3, <2>5, <1>2, <1>5
<1> QED BY <1>6 DEF FoundSoFar

LEMMA FoundNext ==
  ASSUME Given PROVE TypeInv /\ FoundInv /\ [PacketsNext]_packet_vars => FoundInv'
<1> SUFFICES ASSUME TypeInv, FoundInv, [PacketsNext]_packet_vars PROVE FoundInv' OBVIOUS
<1>1. CASE ExtractPixel
  <2>1. p_pass = "extract" /\ p_pass' \in {"extract", "end"} BY <1>1 DEF ExtractPixel, Goto
  <2>2. PICK P \in Nat : FoundSoFar(P) BY <2>1 DEF FoundInv
  <2>3. \E Q \in Nat : FoundSoFar(Q)' BY <1>1, <2>2, Extracting
  <2> QED BY <2>1, <2>3 DEF FoundInv
<1>2. CASE CheckEcc
  <2>1. p_pass = "extract" /\ p_i >= n_pix /\ cap' = cap /\ packet_dict' = packet_dict /\ p_pass' # "extract"
    BY <1>2 DEF CheckEcc, GotoUnlessStopped, Goto
  <2>2. PICK P \in Nat : FoundSoFar(P) BY <2>1 DEF FoundInv
  <2>3. Whole = 1 .. P BY <2>1, <2>2, AllFound
  <2>4. Whole' = 1 .. P /\ Found(packet_dict, P)'
    BY <2>1, <2>2, <2>3, SameCapture, SameFound DEF FoundSoFar
  <2> QED BY <2>1, <2>4 DEF FoundInv
<1>3. CASE DecodePacket \/ BuildBlocks \/ Compare \/ Report
  <2>1. /\ cap' = cap /\ packet_dict' = packet_dict /\ p_pass' # "extract"
        /\ p_pass' \in {"decode", "compare"} => p_pass \in {"decode", "compare"}
    BY <1>3 DEF DecodePacket, BuildBlocks, Compare, Report, Goto
  <2>2. CASE p_pass' \in {"decode", "compare"}
    <3>1. PICK P \in Nat : Whole = 1 .. P /\ Found(packet_dict, P) BY <2>1, <2>2 DEF FoundInv
    <3>2. Whole' = 1 .. P /\ Found(packet_dict, P)' BY <2>1, <3>1, SameCapture, SameFound
    <3> QED BY <2>1, <3>2 DEF FoundInv
  <2> QED BY <2>1, <2>2 DEF FoundInv
<1>4. CASE UNCHANGED packet_vars
  <2>1. cap' = cap /\ p_pass' = p_pass /\ p_i' = p_i /\ packet_dict' = packet_dict BY <1>4 DEF packet_vars
  <2>2. First' = First /\ Whole' = Whole BY <2>1, SameCapture DEF First
  <2>3. \A P : Found(packet_dict, P)' <=> Found(packet_dict, P) BY <2>1, SameFound
  <2>4. ASSUME NEW P \in Nat, FoundSoFar(P) PROVE FoundSoFar(P)'
    BY <2>1, <2>2, <2>3, <2>4 DEF FoundSoFar
  <2>5. ASSUME NEW P \in Nat, Whole = 1 .. P, Found(packet_dict, P) PROVE (Whole = 1 .. P)' /\ Found(packet_dict, P)'
    BY <2>2, <2>3, <2>5
  <2> QED BY <2>1, <2>4, <2>5 DEF FoundInv
<1> QED BY <1>1, <1>2, <1>3, <1>4 DEF PacketsNext

LEMMA FoundMeans == ASSUME Given, TypeInv, FoundInv PROVE PacketsAreFound
<1> SUFFICES ASSUME p_pass \in {"decode", "compare"}
             PROVE  /\ {packet_dict[k].type : k \in DOMAIN packet_dict} = {cap.packets[p].type : p \in Whole}
                    /\ \A k \in DOMAIN packet_dict :
                         LET list == packet_dict[k].list IN
                         /\ Len(list) = Cardinality(WholeOf(packet_dict[k].type))
                         /\ \A p \in WholeOf(packet_dict[k].type) : list[Before(p)+1] = cap.packets[p]
  BY DEF TypeInv, PacketsAreFound
<1>1. PICK P \in Nat : Whole = 1 .. P /\ Found(packet_dict, P) BY DEF FoundInv
<1>2. \A type : WholeOf(type) = OfType(type, P) BY <1>1 DEF WholeOf, OfType
<1>3. ASSUME NEW k \in DOMAIN packet_dict PROVE \E p \in Whole : packet_dict[k].type = cap.packets[p].type
  <2>1. 1 \in DOMAIN packet_dict[k].list BY AList
  <2> QED BY <2>1, <1>1 DEF Found, Holds
<1>4. \A p \in Whole : \E k \in DOMAIN packet_dict : packet_dict[k].type = cap.packets[p].type
  BY <1>1 DEF Found, Places
<1>5. ASSUME NEW p \in Whole PROVE Before(p) = Ahead(p)
  <2>1. \A q \in 1 .. P : q < p <=> q \in 1 .. p-1 BY <1>1
  <2>2. \A q \in 1 .. p-1 : q \in 1 .. P BY <1>1
  <2>3. {q \in OfType(cap.packets[p].type, P) : q < p} = OfType(cap.packets[p].type, p-1)
    BY <2>1, <2>2 DEF OfType
  <2> QED BY <2>3, <1>2 DEF Before, Ahead, Count
<1>6. ASSUME NEW k \in DOMAIN packet_dict, NEW p \in WholeOf(packet_dict[k].type)
      PROVE  packet_dict[k].list[Before(p)+1] = cap.packets[p]
  <2>1. p \in Whole /\ cap.packets[p].type = packet_dict[k].type BY DEF WholeOf
  <2>2. PICK x \in DOMAIN packet_dict :
          packet_dict[x].type = cap.packets[p].type /\ packet_dict[x].list[Ahead(p)+1] = cap.packets[p]
    BY <2>1, <1>1 DEF Found, Places
  <2>3. x = k BY <2>1, <2>2 DEF TypeInv, DictOk
  <2> QED BY <2>1, <2>2, <2>3, <1>5
<1>7. \A k \in DOMAIN packet_dict : Len(packet_dict[k].list) = Cardinality(WholeOf(packet_dict[k].type))
  BY <1>1, <1>2 DEF Found, Holds, Count
<1> QED BY <1>3, <1>4, <1>6, <1>7

\* For every capture, wherever it is cut and whatever is wrong with its packets: when they
\* are decoded packet_dict has exactly the packets that are whole in the capture, each in
\* the list of its type and at its place among them (PacketsAreFound).
THEOREM PacketsFound == ASSUME Given PROVE PacketsSpec => []PacketsAreFound
<1>1. ASSUME Given, TypeInv, FoundInv PROVE PacketsAreFound BY <1>1, FoundMeans
<1> QED BY <1>1, TypesAtFirst, TypeNext, FoundAtFirst, FoundNext, PTL DEF PacketsSpec

------------------------------------------------------------------------------
(* What stops the analysis.                                                  *)

\* A bit does not change the verdict.
LEMMA BitJudges ==
  ASSUME NEW w, w \in WorkSet, NEW ch, NEW C, NEW begins
  PROVE  Bit(w, ch, C, begins).stop = w.stop /\ Bit(w, ch, C, begins).exc = w.exc
BY DEF Bit, WorkSet

LEMMA MemberJudges ==
  ASSUME NEW w, w \in WorkSet, NEW a, NEW spn, NEW spm
  PROVE  /\ ~a.parity[spn][spm] => Member(w, a, spn, spm).stop /\ Member(w, a, spn, spm).exc = w.exc
         /\ a.parity[spn][spm] => Member(w, a, spn, spm).stop = w.stop
         /\ Member(w, a, spn, spm).exc = "" => w.exc = ""
<1>1. CASE ~a.parity[spn][spm] BY <1>1 DEF Member, WorkSet
<1>2. CASE a.parity[spn][spm] /\ ChannelOf(a, spn, spm) \notin Channels BY <1>2 DEF Member, WorkSet
<1>3. CASE a.parity[spn][spm] /\ ChannelOf(a, spn, spm) \in Channels
  <2>1. Member(w, a, spn, spm) = Bit(w, ChannelOf(a, spn, spm), a.C[spn][spm], spn \in a.B)
    BY <1>3 DEF Member
  <2>2. /\ Bit(w, ChannelOf(a, spn, spm), a.C[spn][spm], spn \in a.B).stop = w.stop
        /\ Bit(w, ChannelOf(a, spn, spm), a.C[spn][spm], spn \in a.B).exc = w.exc
    BY BitJudges
  <2> QED BY <2>1, <2>2, <1>3
<1> QED BY <1>1, <1>2, <1>3

\* What a pair does to the verdict: bad parity stops, and nothing else.
BadPair(a, spn) == spn \in a.SP /\ (~a.parity[spn][0] \/ ~a.parity[spn][1])
Judges(w, v, a, spn) ==
  /\ WorkOk(v)
  /\ v.exc = "" => w.exc = "" /\ (BadPair(a, spn) => v.stop)
  /\ w.stop => v.stop
  /\ v.stop => w.stop \/ BadPair(a, spn)
LEMMA PairJudges ==
  ASSUME Given, NEW w, WorkOk(w), NEW d \in Packet, NEW spn \in 0 .. 3
  PROVE  Judges(w, Pair(w, d.audio, spn), d.audio, spn)
<1> DEFINE a == d.audio
           left == Member(w, a, spn, 0)
<1>1. WorkOk(Pair(w, a, spn)) /\ w \in WorkSet BY OnePair DEF WorkOk
<1>2. CASE w.exc # "" \/ spn \notin a.SP BY <1>1, <1>2 DEF Pair, BadPair, Judges
<1>3. CASE w.exc = "" /\ spn \in a.SP
  <2>1. Pair(w, a, spn) = IF ~a.parity[spn][0] \/ left.exc # "" THEN left ELSE Member(left, a, spn, 1)
    BY <1>3 DEF Pair
  <2>2. /\ ~a.parity[spn][0] => left.stop
        /\ a.parity[spn][0] => left.stop = w.stop
    BY <1>1, MemberJudges
  <2>3. CASE ~a.parity[spn][0] \/ left.exc # "" BY <1>1, <1>3, <2>1, <2>2, <2>3 DEF BadPair, Judges
  <2>4. CASE a.parity[spn][0] /\ left.exc = ""
    <3>1. ChannelOf(a, spn, 0) \in Channels /\ left = Bit(w, ChannelOf(a, spn, 0), a.C[spn][0], spn \in a.B)
      BY <2>4, <1>1 DEF Member, WorkSet
    <3>2. a.C[spn][0] \in ABit BY ItsBits
    <3>3. WorkOk(left) BY <3>1, <3>2, OneBit
    <3> HIDE DEF left
    <3>4. left \in WorkSet BY <3>3 DEF WorkOk
    <3>5. Pair(w, a, spn) = Member(left, a, spn, 1) BY <2>1, <2>4
    <3>6. /\ ~a.parity[spn][1] => Member(left, a, spn, 1).stop
          /\ a.parity[spn][1] => Member(left, a, spn, 1).stop = left.stop
      BY <3>4, MemberJudges
    <3> QED BY <3>5, <1>1, <1>3, <2>2, <2>4, <3>6 DEF BadPair, Judges
  <2> QED BY <2>3, <2>4
<1> QED BY <1>2, <1>3

LEMMA FourPairs ==
  ASSUME Given, WorkOk(Work), NEW d \in Packet, NEW v1, NEW v2, NEW v3, NEW v4,
         v1 = Pair(Work, d.audio, 0), v2 = Pair(v1, d.audio, 1), v3 = Pair(v2, d.audio, 2), v4 = Pair(v3, d.audio, 3)
  PROVE  /\ v4.stop => \E spn \in 0 .. 3 : BadPair(d.audio, spn)
         /\ ~v4.stop /\ v4.exc = "" => \A spn \in 0 .. 3 : ~BadPair(d.audio, spn)
<1>1. ~Work.stop BY DEF Work
<1>2. 0 \in 0 .. 3 /\ 1 \in 0 .. 3 /\ 2 \in 0 .. 3 /\ 3 \in 0 .. 3 OBVIOUS
<1>3. Judges(Work, v1, d.audio, 0) /\ WorkOk(v1)
  <2>1. Judges(Work, v1, d.audio, 0) BY <1>2, PairJudges, Zenon
  <2> QED BY <2>1 DEF Judges
<1>4. Judges(v1, v2, d.audio, 1) /\ WorkOk(v2)
  <2>1. Judges(v1, v2, d.audio, 1) BY <1>2, <1>3, PairJudges, Zenon
  <2> QED BY <2>1 DEF Judges
<1>5. Judges(v2, v3, d.audio, 2) /\ WorkOk(v3)
  <2>1. Judges(v2, v3, d.audio, 2) BY <1>2, <1>4, PairJudges, Zenon
  <2> QED BY <2>1 DEF Judges
<1>6. Judges(v3, v4, d.audio, 3) BY <1>2, <1>5, PairJudges, Zenon
<1>7. v4.stop => \/ BadPair(d.audio, 0) \/ BadPair(d.audio, 1)
                 \/ BadPair(d.audio, 2) \/ BadPair(d.audio, 3)
  BY <1>1, <1>3, <1>4, <1>5, <1>6 DEF Judges
<1>8. ~v4.stop /\ v4.exc = "" => /\ ~BadPair(d.audio, 0) /\ ~BadPair(d.audio, 1)
                                 /\ ~BadPair(d.audio, 2) /\ ~BadPair(d.audio, 3)
  BY <1>1, <1>3, <1>4, <1>5, <1>6 DEF Judges
<1>9. \A spn \in 0 .. 3 : spn = 0 \/ spn = 1 \/ spn = 2 \/ spn = 3 OBVIOUS
<1> QED BY <1>2, <1>7, <1>8, <1>9

LEMMA SamplesJudged ==
  ASSUME Given, WorkOk(Work), NEW d \in Packet, IsPacket(d), Ecc(d), d.type = Samples
  PROVE  /\ DecodeSamples(d).stop => Wrong(d)
         /\ ~DecodeSamples(d).stop /\ DecodeSamples(d).exc = "" => ~Wrong(d)
<1> DEFINE a == d.audio
           refused == \/ a.LAYOUT = 0 /\ a.SP \notin {0 .. k-1 : k \in 0 .. 4}
                      \/ Cardinality(a.B) > 1
           v4 == Pair(Pair(Pair(Pair(Work, a, 0), a, 1), a, 2), a, 3)
<1>1. d.fault \in {"", "msbs"} BY DEF IsPacket, MayBreak, Samples, OtherInfoFrames, AVI, SPD, Audio
<1>2. CASE d.fault = "msbs" BY <1>2 DEF DecodeSamples, Raises, Work, Wrong
<1>3. CASE d.fault = "" /\ refused
  <2>1. DecodeSamples(d).stop BY <1>3 DEF DecodeSamples, Fails, Work
  <2>2. ~IsAudio(a)
    <3> SUFFICES ASSUME IsAudio(a) PROVE FALSE OBVIOUS
    <3>1. PICK count \in 0 .. 4 : a.SP = 0 .. count-1 BY DEF IsAudio
    <3>2. a.B \subseteq 0 .. count-1 /\ Cardinality(a.B) <= 1 BY <3>1 DEF IsAudio
    <3>3. Cardinality(a.B) \in Nat
      <4>1. IsFiniteSet(0 .. count-1) BY FS_Interval
      <4> QED BY <4>1, <3>2, FS_Subset, FS_CardinalityType
    <3>4. ~(Cardinality(a.B) > 1) BY <3>2, <3>3
    <3> QED BY <3>1, <3>4, <1>3
  <2> QED BY <2>1, <2>2 DEF IsPacket
<1>4. CASE d.fault = "" /\ ~refused
  <2>1. DecodeSamples(d) = v4 BY <1>4 DEF DecodeSamples
  <2>2. /\ v4.stop => \E spn \in 0 .. 3 : BadPair(a, spn)
        /\ ~v4.stop /\ v4.exc = "" => \A spn \in 0 .. 3 : ~BadPair(a, spn)
    BY FourPairs
  <2> HIDE DEF v4
  <2>3. a.SP \subseteq 0 .. 3 BY DEF IsPacket
  <2>4. Wrong(d) <=> \E spn \in a.SP : ~a.parity[spn][0] \/ ~a.parity[spn][1]
    BY <1>4 DEF Wrong, Ecc, Samples
  <2>5. Wrong(d) <=> \E spn \in a.SP : BadPair(a, spn) BY <2>4 DEF BadPair
  <2>6. \A spn : BadPair(a, spn) => spn \in a.SP BY DEF BadPair
  <2> QED BY <2>1, <2>2, <2>3, <2>5, <2>6
<1> QED BY <1>1, <1>2, <1>3, <1>4

\* A packet that does not stop the analysis is right, and one that does is wrong.
LEMMA Judged ==
  ASSUME Given, WorkOk(Work), NEW d \in Packet, IsPacket(d), Ecc(d)
  PROVE  /\ DecodeType(d).stop => Wrong(d)
         /\ ~DecodeType(d).stop /\ DecodeType(d).exc = "" => ~Wrong(d)
<1>1. d.ecc = "good" /\ d.fault \in MayBreak(d.type) BY DEF Ecc, IsPacket
<1>2. CASE d.type = Samples
  <2>1. DecodeType(d) = DecodeSamples(d) BY <1>2 DEF DecodeType, Samples, InfoFrames, OtherInfoFrames, AVI, SPD, Audio
  <2> QED BY <2>1, <1>2, SamplesJudged
<1>3. CASE d.type = "unknown" BY <1>3 DEF DecodeType, Fails, Work, Wrong, Samples, InfoFrames, OtherInfoFrames, AVI, SPD, Audio
<1>4. CASE d.type = "Null"
  <2>1. d.fault \in {"", "content"} BY <1>1, <1>4 DEF MayBreak, Samples, OtherInfoFrames, AVI, SPD, Audio
  <2>2. DecodeType(d) = IF d.fault = "content" THEN Fails(Work) ELSE Work BY <1>4 DEF DecodeType, Samples, InfoFrames, OtherInfoFrames, AVI, SPD, Audio
  <2>3. Wrong(d) <=> d.fault # "" BY <1>1, <1>4 DEF Wrong, Samples
  <2>4. Fails(Work).stop /\ ~Work.stop BY DEF Fails, Work
  <2> QED BY <2>1, <2>2, <2>3, <2>4
<1>5. CASE d.type \in InfoFrames
  <2>1. DecodeType(d) = DecodeInfoFrame(d) BY <1>5 DEF DecodeType, InfoFrames, OtherInfoFrames, AVI, SPD, Audio, Samples
  <2>2. d.type # Samples /\ d.type # "unknown" BY <1>5 DEF InfoFrames, AVI, SPD, Audio, Samples
  <2>3. Wrong(d) <=> d.fault # "" BY <2>2, <1>1 DEF Wrong
  <2>4. /\ Raises(Work, "TypeError").exc # "" /\ ~Raises(Work, "TypeError").stop
        /\ Raises(Work, "TypeError: CC").exc # "" /\ ~Raises(Work, "TypeError: CC").stop
        /\ Fails(Work).stop /\ ~Work.stop
    BY DEF Raises, Fails, Work
  <2>5. CASE d.type = AVI
    <3>1. d.fault \in {"", "msbs", "checksum", "length"} BY <1>1, <2>5 DEF MayBreak, OtherInfoFrames, AVI, SPD, Audio, Samples
    <3> QED BY <2>1, <2>3, <2>4, <2>5, <3>1 DEF DecodeInfoFrame, AVI, SPD, Audio
  <2>6. CASE d.type = SPD
    <3>1. d.fault \in {"", "msbs", "checksum", "length", "ascii"} BY <1>1, <2>6 DEF MayBreak, OtherInfoFrames, AVI, SPD, Audio, Samples
    <3> QED BY <2>1, <2>3, <2>4, <2>6, <3>1 DEF DecodeInfoFrame, AVI, SPD, Audio
  <2>7. CASE d.type = Audio
    <3>1. d.fault \in {"", "msbs", "checksum", "length", "field"} BY <1>1, <2>7 DEF MayBreak, OtherInfoFrames, AVI, SPD, Audio, Samples
    <3> QED BY <2>1, <2>3, <2>4, <2>7, <3>1 DEF DecodeInfoFrame, AVI, SPD, Audio
  <2> QED BY <1>5, <2>5, <2>6, <2>7 DEF InfoFrames
<1>6. CASE d.type \in OtherInfoFrames
  <2>0. d.type \notin {"unknown", "Null", Samples} \cup InfoFrames
    BY <1>6 DEF OtherInfoFrames, InfoFrames, AVI, SPD, Audio, Samples
  <2>1. DecodeType(d) = DecodeInfoFrame(d) BY <1>6, <2>0 DEF DecodeType
  <2>2. d.fault \in {"", "msbs", "checksum"} BY <1>1, <1>6, <2>0 DEF MayBreak, InfoFrames
  <2>3. Wrong(d) <=> d.fault # "" BY <2>0, <1>1 DEF Wrong
  <2>4. /\ Raises(Work, "TypeError").exc # "" /\ ~Raises(Work, "TypeError").stop
        /\ Fails(Work).stop /\ ~Work.stop
    BY DEF Raises, Fails, Work
  <2> QED BY <2>0, <2>1, <2>2, <2>3, <2>4 DEF DecodeInfoFrame, InfoFrames
<1>7. CASE d.type \notin {"unknown", "Null", Samples} \cup InfoFrames \cup OtherInfoFrames
  <2>1. d.fault = "" BY <1>1, <1>7 DEF MayBreak, InfoFrames
  <2>2. DecodeType(d) = Work BY <1>7 DEF DecodeType
  <2>3. ~Wrong(d) BY <2>1, <1>1, <1>7 DEF Wrong
  <2>4. ~Work.stop BY DEF Work
  <2> QED BY <2>2, <2>3, <2>4
<1> QED BY <1>2, <1>3, <1>4, <1>5, <1>6, <1>7

\* The packets before the place (i, j) of packet_dict.
Passed(i, j, k, l) == k <= i \/ (k = i+1 /\ l <= j)
StopsInv ==
  /\ p_pass \in {"extract", "decode", "compare"} => ~p_stop
  /\ p_pass \in {"decode", "compare"} =>
       \A k \in DOMAIN packet_dict : \A l \in DOMAIN packet_dict[k].list : Ecc(packet_dict[k].list[l])
  /\ p_pass = "decode" =>
       \A k \in DOMAIN packet_dict : \A l \in DOMAIN packet_dict[k].list :
         Passed(p_i, p_j, k, l) => ~Wrong(packet_dict[k].list[l])
  /\ p_pass = "compare" =>
       \A k \in DOMAIN packet_dict : \A l \in DOMAIN packet_dict[k].list : ~Wrong(packet_dict[k].list[l])
  /\ p_stop => cap.err_i > 0 \/ \E p \in Whole : Wrong(cap.packets[p])

\* A packet of packet_dict is one that is whole in the capture.
LEMMA Source ==
  ASSUME Given, TypeInv, FoundInv, p_pass = "decode" \/ (p_pass = "extract" /\ p_i >= n_pix),
         NEW k \in DOMAIN packet_dict, NEW l \in DOMAIN packet_dict[k].list
  PROVE  \E p \in Whole : packet_dict[k].list[l] = cap.packets[p] /\ IsPacket(cap.packets[p])
<1>1. PICK P \in Nat : Whole = 1 .. P /\ Found(packet_dict, P)
  BY AllFound DEF FoundInv, FoundSoFar
<1>2. PICK p \in Whole : packet_dict[k].list[l] = cap.packets[p] BY <1>1 DEF Found, Holds
<1>3. p \in DOMAIN cap.packets BY DEF Whole
<1> QED BY <1>2, <1>3 DEF TypeInv, Given, IsCapture

LEMMA StopsAtFirst == ASSUME PacketsInit PROVE StopsInv
<1>1. p_pass \in {"extract", "report"} /\ (p_pass = "extract" => ~(cap.err_i > 0)) /\ p_stop = (cap.err_i > 0)
      /\ packet_dict = <<>>
  <2>1. p_pass = IF cap.protocol = "HDMI" /\ cap.err_i = 0 THEN "extract" ELSE "report" BY DEF PacketsInit
  <2>2. cap.err_i = 0 => ~(cap.err_i > 0) OBVIOUS
  <2> QED BY <2>1, <2>2 DEF PacketsInit
<1> QED BY <1>1 DEF StopsInv

LEMMA StopsDecoding ==
  ASSUME Given, TypeInv, FoundInv, StopsInv, DecodePacket PROVE StopsInv'
<1> DEFINE d == packet_list[p_j+1]
           w == DecodeType(d)
<1>1. /\ p_pass = "decode" /\ p_i < Len(packet_dict) /\ cap' = cap /\ packet_dict' = packet_dict
      /\ p_stop' = w.stop
      /\ IF w.exc # "" THEN Goto("end") ELSE IF w.stop THEN Goto("report") ELSE p_pass' = p_pass /\ NextPacket
  BY DEF DecodePacket
<1>2. /\ p_i+1 \in DOMAIN packet_dict /\ p_j+1 \in DOMAIN packet_list /\ d \in Packet
  BY <1>1, TheNext
<1>3. PICK p \in Whole : d = cap.packets[p] /\ IsPacket(d) BY <1>1, <1>2, Source DEF packet_list
<1>4. Ecc(d) BY <1>1, <1>2 DEF StopsInv, packet_list
<1>5. (w.stop => Wrong(d)) /\ (~w.stop /\ w.exc = "" => ~Wrong(d))
  BY <1>2, <1>3, <1>4, Judged DEF TypeInv
<1>6. p_stop' => \E q \in Whole : Wrong(cap.packets[q]) BY <1>1, <1>3, <1>5
<1>7. Whole' = Whole BY <1>1, SameCapture
<1> HIDE DEF w
<1>8. CASE w.exc # "" \/ w.stop
  <2>1. p_pass' \in {"end", "report"} BY <1>1, <1>8 DEF Goto
  <2> QED BY <2>1, <1>1, <1>6, <1>7 DEF StopsInv
<1>9. CASE w.exc = "" /\ ~w.stop
  <2>1. p_pass' = "decode" /\ NextPacket /\ ~p_stop' /\ ~Wrong(d) BY <1>1, <1>5, <1>9
  <2>2. ASSUME NEW k \in DOMAIN packet_dict, NEW l \in DOMAIN packet_dict[k].list, Passed(p_i', p_j', k, l)
        PROVE  Passed(p_i, p_j, k, l) \/ (k = p_i+1 /\ l = p_j+1)
    <3>1. /\ p_i \in Nat /\ p_j \in Nat /\ k \in Nat /\ l \in Nat /\ l >= 1
          /\ l <= Len(packet_dict[k].list) /\ Len(packet_dict[k].list) \in Nat
      <4>1. Len(packet_dict) \in Nat /\ DOMAIN packet_dict = 1 .. Len(packet_dict) BY DEF TypeInv
      <4>2. p_i \in Nat /\ p_j \in Nat BY DEF TypeInv
      <4>3. Len(packet_dict[k].list) \in Nat /\ DOMAIN packet_dict[k].list = 1 .. Len(packet_dict[k].list) BY AList
      <4> QED BY <4>1, <4>2, <4>3
    <3>2. CASE p_j + 1 < Len(packet_list)
      <4>1. p_i' = p_i /\ p_j' = p_j + 1 BY <2>1, <3>2 DEF NextPacket
      <4> QED BY <4>1, <3>1, <2>2 DEF Passed
    <3>3. CASE ~(p_j + 1 < Len(packet_list))
      <4>1. p_i' = p_i + 1 /\ p_j' = 0 BY <2>1, <3>3 DEF NextPacket
      <4>2. k = p_i+1 => l <= p_j+1
        <5>1. k = p_i+1 => ~(p_j + 1 < Len(packet_dict[k].list)) BY <3>3 DEF packet_list
        <5> QED BY <5>1, <3>1
      <4>3. k <= p_i + 1 BY <4>1, <3>1, <2>2 DEF Passed
      <4> QED BY <4>2, <4>3, <3>1 DEF Passed
    <3> QED BY <3>2, <3>3
  <2>3. \A k \in DOMAIN packet_dict : \A l \in DOMAIN packet_dict[k].list :
          Passed(p_i', p_j', k, l) => ~Wrong(packet_dict[k].list[l])
    BY <1>1, <2>1, <2>2 DEF StopsInv, packet_list
  <2> QED BY <2>1, <2>3, <1>1, <1>7 DEF StopsInv
<1> QED BY <1>8, <1>9

LEMMA StopsNext ==
  ASSUME Given PROVE TypeInv /\ FoundInv /\ StopsInv /\ [PacketsNext]_packet_vars => StopsInv'
<1> SUFFICES ASSUME TypeInv, FoundInv, StopsInv, [PacketsNext]_packet_vars PROVE StopsInv' OBVIOUS
<1>1. CASE ExtractPixel
  <2>1. p_pass = "extract" /\ p_pass' \in {"extract", "end"} /\ p_stop' = p_stop /\ cap' = cap
    BY <1>1 DEF ExtractPixel, Goto
  <2> QED BY <2>1 DEF StopsInv
<1>2. CASE CheckEcc
  <2>1. /\ p_pass = "extract" /\ p_i >= n_pix /\ cap' = cap /\ packet_dict' = packet_dict
        /\ p_stop' = \E k \in DOMAIN packet_dict : \E l \in DOMAIN packet_dict[k].list : ~Ecc(packet_dict[k].list[l])
        /\ p_pass' = IF p_stop' THEN "report" ELSE "decode"
        /\ p_i' = 0 /\ p_j' = 0
    BY <1>2 DEF CheckEcc, GotoUnlessStopped, Goto
  <2>2. Whole' = Whole BY <2>1, SameCapture
  <2>3. CASE p_stop'
    <3>1. PICK k \in DOMAIN packet_dict : \E l \in DOMAIN packet_dict[k].list : ~Ecc(packet_dict[k].list[l])
      BY <2>1, <2>3
    <3>2. PICK l \in DOMAIN packet_dict[k].list : ~Ecc(packet_dict[k].list[l]) BY <3>1
    <3>3. PICK p \in Whole : packet_dict[k].list[l] = cap.packets[p] BY <2>1, <3>2, Source
    <3>4. Wrong(cap.packets[p]) BY <3>2, <3>3 DEF Wrong, Ecc
    <3> QED BY <2>1, <2>2, <2>3, <3>4 DEF StopsInv
  <2>4. CASE ~p_stop'
    <3>1. \A k \in DOMAIN packet_dict : \A l \in DOMAIN packet_dict[k].list :
            Ecc(packet_dict[k].list[l]) /\ ~Passed(0, 0, k, l)
      <4>1. Len(packet_dict) \in Nat /\ DOMAIN packet_dict = 1 .. Len(packet_dict) BY DEF TypeInv
      <4>2. ASSUME NEW k \in DOMAIN packet_dict, NEW l \in DOMAIN packet_dict[k].list PROVE ~Passed(0, 0, k, l)
        <5>1. Len(packet_dict[k].list) \in Nat /\ DOMAIN packet_dict[k].list = 1 .. Len(packet_dict[k].list) BY AList
        <5> QED BY <4>1, <5>1 DEF Passed
      <4> QED BY <4>2, <2>1, <2>4
    <3> QED BY <2>1, <2>4, <3>1 DEF StopsInv
  <2> QED BY <2>3, <2>4
<1>3. CASE DecodePacket BY <1>3, StopsDecoding
<1>4. CASE BuildBlocks
  <2>1. /\ p_pass = "decode" /\ p_i = Len(packet_dict) /\ cap' = cap /\ packet_dict' = packet_dict
        /\ p_stop' = p_stop /\ p_pass' = "compare"
    BY <1>4 DEF BuildBlocks, Goto
  <2>2. \A k \in DOMAIN packet_dict : k <= p_i BY <2>1 DEF TypeInv
  <2> QED BY <2>1, <2>2 DEF StopsInv, Passed
<1>5. CASE Compare \/ Report
  <2>1. cap' = cap /\ p_pass' \in {"report", "end"} /\ p_stop' = p_stop BY <1>5 DEF Compare, Report, Goto
  <2>2. Whole' = Whole BY <2>1, SameCapture
  <2> QED BY <2>1, <2>2 DEF StopsInv
<1>6. CASE UNCHANGED packet_vars
  <2>1. /\ cap' = cap /\ p_pass' = p_pass /\ p_i' = p_i /\ p_j' = p_j /\ packet_dict' = packet_dict /\ p_stop' = p_stop
    BY <1>6 DEF packet_vars
  <2>2. Whole' = Whole BY <2>1, SameCapture
  <2> QED BY <2>1, <2>2 DEF StopsInv
<1> QED BY <1>1, <1>2, <1>3, <1>4, <1>5, <1>6 DEF PacketsNext

LEMMA StopsMeans == ASSUME FoundInv, StopsInv PROVE StopsExactlyAtFaults
<1>1. ASSUME p_pass = "compare", NEW p \in Whole PROVE ~Wrong(cap.packets[p])
  <2>1. PICK P \in Nat : Whole = 1 .. P /\ Found(packet_dict, P) BY <1>1 DEF FoundInv
  <2>2. Places(packet_dict, p) BY <2>1 DEF Found
  <2> QED BY <2>2, <1>1 DEF Places, StopsInv
<1> QED BY <1>1 DEF StopsExactlyAtFaults, StopsInv

\* For every capture: the consistency of the InfoFrames is only judged if nothing is wrong
\* with any packet that is whole in the capture, and the analysis only stops if something
\* is, or the timing was (StopsExactlyAtFaults).
THEOREM StopsAtFaults == ASSUME Given PROVE PacketsSpec => []StopsExactlyAtFaults
<1>1. FoundInv /\ StopsInv => StopsExactlyAtFaults BY StopsMeans
<1> QED BY <1>1, TypesAtFirst, TypeNext, FoundAtFirst, FoundNext, StopsAtFirst, StopsNext, PTL DEF PacketsSpec

------------------------------------------------------------------------------
(* Frames, blocks and places in a block.                                     *)

LEMMA Divide ==
  ASSUME NEW B \in Nat \ {0}, NEW x \in Nat
  PROVE  x \div B \in Nat /\ x % B \in 0 .. B-1 /\ x = B * (x \div B) + (x % B)
<1>1. x \div B \in Nat /\ x - B * (x \div B) \in 0 .. B - 1 OBVIOUS
<1>2. x % B = x - B * (x \div B) OBVIOUS
<1> QED BY <1>1, <1>2

LEMMA Divided ==
  ASSUME NEW B \in Nat \ {0}, NEW q \in Nat, NEW r \in 0 .. B-1
  PROVE  (B*q + r) \div B = q /\ (B*q + r) % B = r
OBVIOUS

\* The order of frames is that of their blocks, and in a block of their places.
LEMMA BlockOrder ==
  ASSUME NEW B \in Nat \ {0}, NEW x \in Nat, NEW y \in Nat
  PROVE  x <= y <=> (x \div B < y \div B \/ (x \div B = y \div B /\ x % B <= y % B))
<1>1. PICK q \in Nat : q = x \div B BY Divide
<1>2. PICK r \in 0 .. B-1 : r = x % B BY Divide
<1>3. PICK p \in Nat : p = y \div B BY Divide
<1>4. PICK s \in 0 .. B-1 : s = y % B BY Divide
<1>5. x = B*q + r /\ y = B*p + s BY <1>1, <1>2, <1>3, <1>4, Divide
<1>6. CASE q = p BY <1>5, <1>6, <1>1, <1>2, <1>3, <1>4
<1>7. ASSUME NEW a \in Nat, NEW b \in Nat, a < b PROVE B*a + B <= B*b
  <2>1. PICK d \in Nat : b = a + 1 + d
    <3>1. b - a - 1 \in Nat /\ b = a + 1 + (b - a - 1) BY <1>7
    <3> QED BY <3>1
  <2>2. B*b = B*a + B + B*d BY <2>1
  <2>3. B*d \in Nat OBVIOUS
  <2>4. B*a \in Nat /\ B*b \in Nat OBVIOUS
  <2> QED BY <2>2, <2>3, <2>4
<1>8. B*p \in Nat /\ B*q \in Nat OBVIOUS
<1>9. CASE q < p
  <2>1. B*q + B <= B*p BY <1>7, <1>9
  <2>2. x <= y BY <2>1, <1>5, <1>8
  <2> QED BY <2>2, <1>9, <1>1, <1>3
<1>10. CASE p < q
  <2>1. B*p + B <= B*q BY <1>7, <1>10
  <2>2. ~(x <= y) BY <2>1, <1>5, <1>8
  <2> QED BY <2>2, <1>10, <1>1, <1>3
<1> QED BY <1>6, <1>9, <1>10

\* The next frame is the next place of its block, or the first of the next one.
LEMMA NextFrame ==
  ASSUME NEW B \in Nat \ {0, 1}, NEW x \in Nat
  PROVE  IF x % B = B-1 THEN (x+1) % B = 0 /\ (x+1) \div B = x \div B + 1
         ELSE (x+1) % B = (x % B) + 1 /\ (x+1) \div B = x \div B
<1>1. PICK q \in Nat : q = x \div B BY Divide
<1>2. PICK r \in 0 .. B-1 : r = x % B BY Divide
<1>3. x = B*q + r BY <1>1, <1>2, Divide
<1>4. CASE r = B-1
  <2>1. q + 1 \in Nat /\ 0 \in 0 .. B-1 OBVIOUS
  <2>2. B*(q+1) = B*q + B OBVIOUS
  <2>3. x + 1 = B*(q+1) + 0 BY <1>3, <1>4, <2>2
  <2>4. (B*(q+1) + 0) \div B = q+1 /\ (B*(q+1) + 0) % B = 0 BY <2>1, Divided
  <2> QED BY <2>3, <2>4, <1>1, <1>2, <1>4
<1>5. CASE r # B-1
  <2>1. r + 1 \in 0 .. B-1 BY <1>5
  <2>2. x + 1 = B*q + (r+1)
    <3>1. B*q \in Nat OBVIOUS
    <3> QED BY <1>3, <3>1
  <2>3. (B*q + (r+1)) \div B = q /\ (B*q + (r+1)) % B = r+1 BY <2>1, Divided
  <2> QED BY <2>2, <2>3, <1>1, <1>2, <1>5
<1> QED BY <1>4, <1>5

\* A block of a channel as far as it has been heard, and the arrays of a channel when the
\* block last begun is q and its last place heard is r; t is the first that was begun.
Piece(b, length, ch) == [j \in 1 .. length |-> <<b, j-1, ch>>]
Filled(all, raw, ch, t, q, r) ==
  /\ Len(all) = q - t + 2
  /\ \A k \in 2 .. Len(all) : all[k] = Piece(t+k-2, IF k < Len(all) THEN BlockLen ELSE r+1, ch)
  /\ raw = [k \in 1 .. Len(all) - (IF r = BlockLen-1 THEN 1 ELSE 2) |-> k+1]

LEMMA PieceSeq ==
  ASSUME NEW b \in Nat, NEW n \in Nat, NEW ch, NEW S, \A j \in Nat : <<b, j, ch>> \in S
  PROVE  /\ Piece(b, n, ch) \in Seq(S) /\ Len(Piece(b, n, ch)) = n
         /\ \A j \in 1 .. n : Piece(b, n, ch)[j] = <<b, j-1, ch>>
<1>1. \A j \in 1 .. n : <<b, j-1, ch>> \in S
  <2>1. \A j \in 1 .. n : j-1 \in Nat OBVIOUS
  <2> QED BY <2>1
<1>2. Piece(b, n, ch) \in [1 .. n -> S] BY <1>1 DEF Piece
<1>3. Piece(b, n, ch) \in Seq(S) BY <1>2
<1>4. DOMAIN Piece(b, n, ch) = 1 .. n BY DEF Piece
<1>5. Len(Piece(b, n, ch)) = n BY <1>3, <1>4
<1> QED BY <1>3, <1>5 DEF Piece

LEMMA PieceIs ==
  ASSUME NEW b \in Nat, NEW n \in Nat, NEW ch
  PROVE  Len(Piece(b, n, ch)) = n /\ \A j \in 1 .. n : Piece(b, n, ch)[j] = <<b, j-1, ch>>
<1>1. PICK S : \A j \in Nat : <<b, j, ch>> \in S
  <2>1. \A j \in Nat : <<b, j, ch>> \in {<<b, k, ch>> : k \in Nat} OBVIOUS
  <2> QED BY <2>1
<1> QED BY <1>1, PieceSeq, Zenon

LEMMA PieceGrows ==
  ASSUME NEW b \in Nat, NEW n \in Nat, NEW ch
  PROVE  Append(Piece(b, n, ch), <<b, n, ch>>) = Piece(b, n+1, ch)
<1> DEFINE s == Append(Piece(b, n, ch), <<b, n, ch>>)
<1>1. PICK S : \A j \in Nat : <<b, j, ch>> \in S
  <2>1. \A j \in Nat : <<b, j, ch>> \in {<<b, k, ch>> : k \in Nat} OBVIOUS
  <2> QED BY <2>1
<1>2. n+1-1 = n /\ n+1 \in Nat OBVIOUS
<1>3. s \in Seq(S) /\ Len(s) = n+1
      /\ (\A j \in 1 .. n : s[j] = <<b, j-1, ch>>) /\ s[n+1] = <<b, n, ch>>
  <2>1. Piece(b, n, ch) \in Seq(S) /\ Len(Piece(b, n, ch)) = n
        /\ \A j \in 1 .. n : Piece(b, n, ch)[j] = <<b, j-1, ch>>
    BY <1>1, PieceSeq, Zenon
  <2> QED BY <1>1, <2>1
<1>4. Piece(b, n+1, ch) \in Seq(S) /\ Len(Piece(b, n+1, ch)) = n+1
      /\ \A j \in 1 .. n+1 : Piece(b, n+1, ch)[j] = <<b, j-1, ch>>
  BY <1>1, <1>2, PieceSeq, Zenon
<1>5. \A j \in 1 .. n+1 : j \in 1 .. n \/ j = n+1 OBVIOUS
<1> HIDE DEF s
<1>6. \A j \in 1 .. Len(s) : s[j] = Piece(b, n+1, ch)[j]
  <2> SUFFICES ASSUME NEW j \in 1 .. n+1 PROVE s[j] = Piece(b, n+1, ch)[j] BY <1>3
  <2>1. Piece(b, n+1, ch)[j] = <<b, j-1, ch>> BY <1>4
  <2>2. CASE j \in 1 .. n BY <2>1, <2>2, <1>3
  <2>3. CASE j = n+1 BY <2>1, <2>3, <1>2, <1>3
  <2> QED BY <2>2, <2>3, <1>5
<1>7. s = Piece(b, n+1, ch) BY <1>3, <1>4, <1>6, SeqEqual
<1> QED BY <1>7 DEF s

LEMMA PieceBegins ==
  ASSUME NEW b \in Nat, NEW ch
  PROVE  << <<b, 0, ch>> >> = Piece(b, 1, ch)
<1> DEFINE s == << <<b, 0, ch>> >>
<1>1. PICK S : \A j \in Nat : <<b, j, ch>> \in S
  <2>1. \A j \in Nat : <<b, j, ch>> \in {<<b, k, ch>> : k \in Nat} OBVIOUS
  <2> QED BY <2>1
<1>2. Piece(b, 1, ch) \in Seq(S) /\ Len(Piece(b, 1, ch)) = 1 /\ Piece(b, 1, ch)[1] = <<b, 0, ch>>
  <2>1. 1 \in Nat /\ 1 \in 1 .. 1 /\ 1-1 = 0 OBVIOUS
  <2>2. Piece(b, 1, ch) \in Seq(S) /\ Len(Piece(b, 1, ch)) = 1
        /\ \A j \in 1 .. 1 : Piece(b, 1, ch)[j] = <<b, j-1, ch>>
    BY <1>1, <2>1, PieceSeq, Zenon
  <2>3. Piece(b, 1, ch)[1] = <<b, 1-1, ch>> BY <2>1, <2>2
  <2> QED BY <2>1, <2>2, <2>3
<1>3. s \in Seq(S) /\ Len(s) = 1 /\ s[1] = <<b, 0, ch>>
  <2>1. <<b, 0, ch>> \in S BY <1>1
  <2> QED BY <2>1
<1> HIDE DEF s
<1>4. \A j \in 1 .. Len(s) : s[j] = Piece(b, 1, ch)[j] BY <1>2, <1>3
<1>5. s = Piece(b, 1, ch) BY <1>2, <1>3, <1>4, SeqEqual
<1> QED BY <1>5 DEF s

\* The first block that is begun.
LEMMA BeginsFirst ==
  ASSUME BlockLen \in Nat \ {0, 1}, NEW q \in Nat, NEW ch
  PROVE  Filled(Append(<< <<>> >>, << <<q, 0, ch>> >>), <<>>, ch, q, q, 0)
<1> DEFINE all == Append(<< <<>> >>, << <<q, 0, ch>> >>)
<1>1. Len(all) = 2 /\ all[2] = << <<q, 0, ch>> >> OBVIOUS
<1> HIDE DEF all
<1>2. << <<q, 0, ch>> >> = Piece(q, 1, ch) BY PieceBegins, Zenon
<1>3. \A k \in 2 .. 2 : k = 2 /\ ~(k < 2) OBVIOUS
<1>4. q+2-2 = q /\ 0+1 = 1 /\ q - q + 2 = 2 OBVIOUS
<1>5. <<>> = [k \in 1 .. 2-2 |-> k+1] OBVIOUS
<1>6. 0 # BlockLen-1 OBVIOUS
<1>7. Filled(all, <<>>, ch, q, q, 0) BY <1>1, <1>2, <1>3, <1>4, <1>5, <1>6 DEF Filled
<1> QED BY <1>7 DEF all

\* A block that begins when the one before it has its length.
LEMMA BeginsNext ==
  ASSUME BlockLen \in Nat \ {0, 1}, NEW S, NEW all \in Seq(S), NEW raw, NEW ch, NEW t \in Nat, NEW q \in Nat, t <= q,
         Filled(all, raw, ch, t, q, BlockLen-1), << <<q+1, 0, ch>> >> \in S
  PROVE  Filled(Append(all, << <<q+1, 0, ch>> >>), raw, ch, t, q+1, 0)
<1> DEFINE more == Append(all, << <<q+1, 0, ch>> >>)
<1>1. /\ Len(more) = Len(all) + 1 /\ more[Len(all)+1] = << <<q+1, 0, ch>> >>
      /\ \A k \in 1 .. Len(all) : more[k] = all[k]
  OBVIOUS
<1> HIDE DEF more
<1>2. Len(all) = q - t + 2 BY DEF Filled
<1>3. \A k \in 2 .. Len(all) : more[k] = Piece(t+k-2, BlockLen, ch)
  <2>1. \A k \in 2 .. Len(all) : k \in 1 .. Len(all) BY <1>2
  <2>2. BlockLen-1+1 = BlockLen OBVIOUS
  <2> QED BY <2>1, <2>2, <1>1 DEF Filled
<1>4. << <<q+1, 0, ch>> >> = Piece(q+1, 1, ch)
  <2>1. q+1 \in Nat OBVIOUS
  <2> QED BY <2>1, PieceBegins, Zenon
<1>5. \A k \in 2 .. Len(more) : more[k] = Piece(t+k-2, IF k < Len(more) THEN BlockLen ELSE 0+1, ch)
  <2> SUFFICES ASSUME NEW k \in 2 .. Len(more)
               PROVE  more[k] = Piece(t+k-2, IF k < Len(more) THEN BlockLen ELSE 0+1, ch)
    OBVIOUS
  <2>1. CASE k < Len(more)
    <3>1. k \in 2 .. Len(all) BY <2>1, <1>1, <1>2
    <3> QED BY <3>1, <2>1, <1>3
  <2>2. CASE ~(k < Len(more))
    <3>1. k = Len(all)+1 /\ t+k-2 = q+1 BY <2>2, <1>1, <1>2
    <3>2. 0+1 = 1 OBVIOUS
    <3> QED BY <3>1, <3>2, <2>2, <1>1, <1>4
  <2> QED BY <2>1, <2>2
<1>6. raw = [k \in 1 .. Len(more) - 2 |-> k+1]
  <2>1. raw = [k \in 1 .. Len(all) - 1 |-> k+1] BY DEF Filled
  <2>2. Len(more) - 2 = Len(all) - 1 BY <1>1, <1>2
  <2> QED BY <2>1, <2>2
<1>7. 0 # BlockLen-1 /\ Len(more) = q+1 - t + 2 BY <1>1, <1>2
<1>8. Filled(more, raw, ch, t, q+1, 0) BY <1>5, <1>6, <1>7 DEF Filled
<1> QED BY <1>8 DEF more

\* The next bit of a block.
LEMMA Continues ==
  ASSUME BlockLen \in Nat \ {0, 1}, NEW S, NEW all \in Seq(S), NEW raw \in Seq(Nat), NEW ch, NEW t \in Nat, NEW q \in Nat, t <= q,
         NEW r \in 0 .. BlockLen-2, Filled(all, raw, ch, t, q, r)
  PROVE  /\ Last(all) # <<>>
         /\ Filled([all EXCEPT ![Len(all)] = Append(Last(all), <<q, r+1, ch>>)],
                   IF Len(Append(Last(all), <<q, r+1, ch>>)) = BlockLen THEN Append(raw, Len(all)) ELSE raw, ch, t, q, r+1)
<1> DEFINE now == Append(Last(all), <<q, r+1, ch>>)
           more == [all EXCEPT ![Len(all)] = now]
           taken == IF Len(now) = BlockLen THEN Append(raw, Len(all)) ELSE raw
<1>1. Len(all) = q - t + 2 /\ Len(all) \in 2 .. Len(all) BY DEF Filled
<1>2. Last(all) = Piece(q, r+1, ch)
  <2>1. t + Len(all) - 2 = q BY <1>1
  <2>2. all[Len(all)] = Piece(t+Len(all)-2, r+1, ch) BY <1>1 DEF Filled
  <2> QED BY <2>1, <2>2 DEF Last
<1>3. now = Piece(q, r+1+1, ch) /\ Len(now) = r+1+1 /\ Last(all) # <<>>
  <2>1. r+1 \in Nat /\ r+1+1 \in Nat /\ r+1 # 0 OBVIOUS
  <2>2. Append(Piece(q, r+1, ch), <<q, r+1, ch>>) = Piece(q, r+1+1, ch) BY <2>1, PieceGrows, Zenon
  <2>3. Len(Piece(q, r+1, ch)) = r+1 /\ Len(Piece(q, r+1+1, ch)) = r+1+1
    <3>1. \A n \in Nat : Len(Piece(q, n, ch)) = n BY PieceIs, Zenon
    <3> QED BY <3>1, <2>1
  <2>4. Piece(q, r+1, ch) # <<>>
    <3>1. Len(<<>>) = 0 OBVIOUS
    <3> QED BY <3>1, <2>1, <2>3
  <2> QED BY <2>2, <2>3, <2>4, <1>2
<1>4. /\ Len(more) = Len(all) /\ more[Len(all)] = now
      /\ \A k \in 1 .. Len(all) : k # Len(all) => more[k] = all[k]
  <2>1. DOMAIN all = 1 .. Len(all) /\ Len(all) \in DOMAIN all BY <1>1
  <2> HIDE DEF now
  <2> QED BY <2>1, <1>1
<1> HIDE DEF now, more
<1>5. \A k \in 2 .. Len(more) : more[k] = Piece(t+k-2, IF k < Len(more) THEN BlockLen ELSE r+1+1, ch)
  <2> SUFFICES ASSUME NEW k \in 2 .. Len(all)
               PROVE  more[k] = Piece(t+k-2, IF k < Len(all) THEN BlockLen ELSE r+1+1, ch)
    BY <1>4
  <2>1. CASE k < Len(all)
    <3>1. k \in 1 .. Len(all) /\ k # Len(all) BY <2>1, <1>1
    <3>2. all[k] = Piece(t+k-2, BlockLen, ch) BY <2>1 DEF Filled
    <3> QED BY <3>1, <3>2, <2>1, <1>4
  <2>2. CASE ~(k < Len(all))
    <3>1. k = Len(all) /\ t+k-2 = q BY <2>2, <1>1
    <3> QED BY <3>1, <2>2, <1>3, <1>4
  <2> QED BY <2>1, <2>2
<1>6. raw = [k \in 1 .. Len(all)-2 |-> k+1] /\ Len(raw) = Len(all)-2
  <2>1. r # BlockLen-1 OBVIOUS
  <2>2. raw = [k \in 1 .. Len(all)-2 |-> k+1] BY <2>1 DEF Filled
  <2>3. DOMAIN raw = 1 .. Len(all)-2 /\ Len(all)-2 \in Nat BY <2>2, <1>1
  <2> QED BY <2>2, <2>3
<1>7. taken = [k \in 1 .. Len(all) - (IF r+1 = BlockLen-1 THEN 1 ELSE 2) |-> k+1]
  <2>1. CASE r+1 = BlockLen-1
    <3>1. Len(now) = BlockLen BY <2>1, <1>3
    <3>2. taken = Append(raw, Len(all)) BY <3>1
    <3> DEFINE s == [k \in 1 .. Len(all)-1 |-> k+1]
    <3>3. Len(all)-1 \in Nat /\ Len(all)-1 = Len(raw)+1 /\ Len(all) \in Nat BY <1>1, <1>6
    <3>4. s \in Seq(Nat) /\ Len(s) = Len(all)-1
      <4>1. \A k \in 1 .. Len(all)-1 : k+1 \in Nat OBVIOUS
      <4>2. s \in [1 .. Len(all)-1 -> Nat] BY <4>1
      <4>3. DOMAIN s = 1 .. Len(all)-1 OBVIOUS
      <4> HIDE DEF s
      <4>4. s \in Seq(Nat)
        <5>1. PICK m \in Nat : m = Len(all)-1 BY <3>3
        <5>2. s \in [1 .. m -> Nat] BY <4>2, <5>1
        <5> QED BY <5>2
      <4> QED BY <4>3, <4>4, <3>3
    <3>5. Append(raw, Len(all)) \in Seq(Nat) /\ Len(Append(raw, Len(all))) = Len(raw)+1 BY <3>3
    <3>6. ASSUME NEW k \in 1 .. Len(raw)+1 PROVE Append(raw, Len(all))[k] = s[k]
      <4>1. CASE k = Len(raw)+1
        <5>1. Append(raw, Len(all))[Len(raw)+1] = Len(all) BY <3>3
        <5>2. s[k] = k+1 BY <3>3
        <5> QED BY <5>1, <5>2, <4>1, <3>3
      <4>2. CASE k \in 1 .. Len(raw)
        <5>1. Append(raw, Len(all))[k] = raw[k] BY <4>2
        <5>2. raw[k] = k+1 BY <4>2, <1>6
        <5>3. s[k] = k+1 BY <3>3
        <5> QED BY <5>1, <5>2, <5>3
      <4> QED BY <4>1, <4>2
    <3> HIDE DEF s
    <3>7. Append(raw, Len(all)) = s BY <3>3, <3>4, <3>5, <3>6, SeqEqual
    <3> HIDE DEF taken
    <3> QED BY <3>2, <3>7, <2>1 DEF s
  <2>2. CASE r+1 # BlockLen-1
    <3>1. Len(now) # BlockLen BY <2>2, <1>3
    <3> QED BY <3>1, <2>2, <1>6
  <2> QED BY <2>1, <2>2
<1> HIDE DEF taken
<1>8. Filled(more, taken, ch, t, q, r+1) BY <1>1, <1>4, <1>5, <1>7 DEF Filled
<1> QED BY <1>3, <1>8 DEF more, taken, now

------------------------------------------------------------------------------
(* A channel after frames F .. X-1 have been heard.                          *)

ChannelAt(all, raw, ch, F, X) ==
  \/ all = << <<>> >> /\ raw = <<>> /\ \A x \in F .. X-1 : x % BlockLen # 0
  \/ \E s \in F .. X-1 : /\ s % BlockLen = 0 /\ \A x \in F .. s-1 : x % BlockLen # 0
                         /\ Filled(all, raw, ch, s \div BlockLen, (X-1) \div BlockLen, (X-1) % BlockLen)
WorkAt(w, F, X) ==
  /\ \A ch \in {0, 1} : ChannelAt(w.arrays[ch], w.raw[ch], ch, F, X)
  /\ \A ch \in Channels \ {0, 1} : w.arrays[ch] = << <<>> >> /\ w.raw[ch] = <<>>

\* What a bit does to its channel, and that it does nothing to another.
NextArrays(all, C, begins) ==
  IF begins THEN Append(all, <<C>>)
  ELSE IF Last(all) = <<>> THEN all ELSE [all EXCEPT ![Len(all)] = Append(Last(all), C)]
NextRaw(all, raw, C, begins) ==
  IF ~begins /\ Last(all) # <<>> /\ Len(Append(Last(all), C)) = BlockLen THEN Append(raw, Len(all)) ELSE raw
LEMMA BitDoes ==
  ASSUME NEW w, w \in WorkSet, NEW ch \in Channels, NEW C, NEW begins
  PROVE  /\ Bit(w, ch, C, begins).arrays[ch] = NextArrays(w.arrays[ch], C, begins)
         /\ Bit(w, ch, C, begins).raw[ch] = NextRaw(w.arrays[ch], w.raw[ch], C, begins)
         /\ \A c \in Channels \ {ch} : /\ Bit(w, ch, C, begins).arrays[c] = w.arrays[c]
                                       /\ Bit(w, ch, C, begins).raw[c] = w.raw[c]
<1> DEFINE all == w.arrays[ch]
<1>1. CASE begins BY <1>1 DEF Bit, WorkSet, NextArrays, NextRaw
<1>2. CASE ~begins /\ Last(all) = <<>> BY <1>2 DEF Bit, WorkSet, NextArrays, NextRaw
<1>3. CASE ~begins /\ Last(all) # <<>> BY <1>3 DEF Bit, WorkSet, NextArrays, NextRaw
<1> QED BY <1>1, <1>2, <1>3

LEMMA ChannelUntil ==
  ASSUME NEW all, NEW raw, NEW ch, NEW F, NEW X, NEW Y, X - 1 = Y
  PROVE  ChannelAt(all, raw, ch, F, X) <=>
           \/ all = << <<>> >> /\ raw = <<>> /\ \A x \in F .. Y : x % BlockLen # 0
           \/ \E s \in F .. Y : /\ s % BlockLen = 0 /\ \A x \in F .. s-1 : x % BlockLen # 0
                              /\ Filled(all, raw, ch, s \div BlockLen, Y \div BlockLen, Y % BlockLen)
BY DEF ChannelAt

LEMMA OneFrame ==
  ASSUME BlockLen \in Nat \ {0, 1}, NEW A, NEW all \in Seq(Seq(A)), NEW raw \in Seq(Nat), NEW ch,
         NEW F \in Nat, NEW X \in Nat, F <= X, BitOf(X, ch) \in A, ChannelAt(all, raw, ch, F, X),
         NEW begins, begins <=> X % BlockLen = 0
  PROVE  ChannelAt(NextArrays(all, BitOf(X, ch), begins), NextRaw(all, raw, BitOf(X, ch), begins), ch, F, X+1)
<1> DEFINE C == BitOf(X, ch)
           all2 == NextArrays(all, C, begins)
           raw2 == NextRaw(all, raw, C, begins)
<1>0. ChannelAt(all2, raw2, ch, F, X+1) <=>
        \/ all2 = << <<>> >> /\ raw2 = <<>> /\ \A x \in F .. X : x % BlockLen # 0
        \/ \E s \in F .. X : /\ s % BlockLen = 0 /\ \A x \in F .. s-1 : x % BlockLen # 0
                           /\ Filled(all2, raw2, ch, s \div BlockLen, X \div BlockLen, X % BlockLen)
  <2>1. PICK N \in Nat : N = X+1 OBVIOUS
  <2>2. N - 1 = X BY <2>1
  <2> HIDE DEF all2, raw2
  <2>3. ChannelAt(all2, raw2, ch, F, N) <=>
          \/ all2 = << <<>> >> /\ raw2 = <<>> /\ \A x \in F .. X : x % BlockLen # 0
          \/ \E s \in F .. X : /\ s % BlockLen = 0 /\ \A x \in F .. s-1 : x % BlockLen # 0
                             /\ Filled(all2, raw2, ch, s \div BlockLen, X \div BlockLen, X % BlockLen)
    BY <2>2, ChannelUntil
  <2> QED BY <2>1, <2>3
<1>1. X \in F .. X /\ (\A x \in F .. X : x \in F .. X-1 \/ x = X) /\ \A x \in F .. X-1 : x \in F .. X
  OBVIOUS
<1>2. X \div BlockLen \in Nat /\ X % BlockLen \in 0 .. BlockLen-1 BY Divide
<1>3. C = <<X \div BlockLen, X % BlockLen, ch>> BY DEF BitOf
<1>4. CASE all = << <<>> >> /\ raw = <<>> /\ \A x \in F .. X-1 : x % BlockLen # 0
  <2>1. Last(all) = <<>> BY <1>4 DEF Last
  <2>2. CASE begins
    <3>1. NextArrays(all, C, begins) = Append(<< <<>> >>, << <<X \div BlockLen, 0, ch>> >>)
          /\ NextRaw(all, raw, C, begins) = <<>>
      BY <2>2, <1>3, <1>4 DEF NextArrays, NextRaw
    <3>2. Filled(NextArrays(all, C, begins), NextRaw(all, raw, C, begins), ch,
                 X \div BlockLen, X \div BlockLen, X % BlockLen)
      <4>1. X % BlockLen = 0 BY <2>2
      <4>2. Filled(Append(<< <<>> >>, << <<X \div BlockLen, 0, ch>> >>), <<>>, ch, X \div BlockLen, X \div BlockLen, 0)
        BY <1>2, BeginsFirst
      <4> QED BY <3>1, <4>1, <4>2
    <3> HIDE DEF all2, raw2
    <3>3. Filled(all2, raw2, ch, X \div BlockLen, X \div BlockLen, X % BlockLen) BY <3>2 DEF all2, raw2
    <3>4. ChannelAt(all2, raw2, ch, F, X+1) BY <3>3, <2>2, <1>0, <1>1, <1>4
    <3> QED BY <3>4 DEF all2, raw2
  <2>3. CASE ~begins
    <3>1. NextArrays(all, C, begins) = all /\ NextRaw(all, raw, C, begins) = raw
      BY <2>1, <2>3 DEF NextArrays, NextRaw
    <3>2. \A x \in F .. X : x % BlockLen # 0 BY <2>3, <1>1, <1>4
    <3>3. all2 = << <<>> >> /\ raw2 = <<>> BY <3>1, <1>4
    <3> HIDE DEF all2, raw2
    <3>4. ChannelAt(all2, raw2, ch, F, X+1) BY <3>2, <3>3, <1>0
    <3> QED BY <3>4 DEF all2, raw2
  <2> QED BY <2>2, <2>3
<1>5. CASE \E s \in F .. X-1 :
              /\ s % BlockLen = 0 /\ \A x \in F .. s-1 : x % BlockLen # 0
              /\ Filled(all, raw, ch, s \div BlockLen, (X-1) \div BlockLen, (X-1) % BlockLen)
  <2>1. PICK s \in F .. X-1 :
              /\ s % BlockLen = 0 /\ \A x \in F .. s-1 : x % BlockLen # 0
              /\ Filled(all, raw, ch, s \div BlockLen, (X-1) \div BlockLen, (X-1) % BlockLen)
    BY <1>5
  <2>2. X-1 \in Nat /\ s \in Nat /\ s <= X-1 /\ X-1+1 = X OBVIOUS
  <2>3. PICK q \in Nat : q = (X-1) \div BlockLen BY <2>2, Divide
  <2>4. PICK r \in 0 .. BlockLen-1 : r = (X-1) % BlockLen BY <2>2, Divide
  <2>5. PICK t \in Nat : t = s \div BlockLen BY <2>2, Divide
  <2>6. t <= q
    <3>1. s <= X-1 <=> (s \div BlockLen < (X-1) \div BlockLen
                        \/ (s \div BlockLen = (X-1) \div BlockLen /\ s % BlockLen <= (X-1) % BlockLen))
      BY <2>2, BlockOrder
    <3> QED BY <3>1, <2>2, <2>3, <2>5
  <2>7. IF r = BlockLen-1 THEN X % BlockLen = 0 /\ X \div BlockLen = q+1
        ELSE X % BlockLen = r+1 /\ X \div BlockLen = q
    BY <2>2, <2>3, <2>4, NextFrame
  <2>8. Filled(all, raw, ch, t, q, r) BY <2>1, <2>3, <2>4, <2>5
  <2>9. Filled(NextArrays(all, C, begins), NextRaw(all, raw, C, begins), ch, t, X \div BlockLen, X % BlockLen)
    <3>1. CASE r = BlockLen-1
      <4>1. begins /\ X % BlockLen = 0 /\ X \div BlockLen = q+1 BY <2>7, <3>1
      <4>2. NextArrays(all, C, begins) = Append(all, << <<q+1, 0, ch>> >>)
            /\ NextRaw(all, raw, C, begins) = raw
        BY <4>1, <1>3 DEF NextArrays, NextRaw
      <4>3. << <<q+1, 0, ch>> >> \in Seq(A)
        <5>1. <<q+1, 0, ch>> \in A BY <4>1, <1>3
        <5> QED BY <5>1
      <4>4. Filled(all, raw, ch, t, q, BlockLen-1) BY <2>8, <3>1
      <4>5. Filled(Append(all, << <<q+1, 0, ch>> >>), raw, ch, t, q+1, 0) BY <2>6, <4>3, <4>4, BeginsNext
      <4> QED BY <4>1, <4>2, <4>5
    <3>2. CASE r # BlockLen-1
      <4>1. X % BlockLen = r+1 /\ X \div BlockLen = q BY <2>7, <3>2
      <4>2. ~begins BY <4>1
      <4>3. r \in 0 .. BlockLen-2 BY <3>2
      <4>4. C = <<q, r+1, ch>> BY <4>1, <1>3
      <4> HIDE DEF C
      <4>5. /\ Last(all) # <<>>
            /\ Filled([all EXCEPT ![Len(all)] = Append(Last(all), C)],
                      IF Len(Append(Last(all), C)) = BlockLen THEN Append(raw, Len(all)) ELSE raw, ch, t, q, r+1)
        BY <2>6, <2>8, <4>3, <4>4, Continues
      <4>6. NextArrays(all, C, begins) = [all EXCEPT ![Len(all)] = Append(Last(all), C)]
        BY <4>2, <4>5 DEF NextArrays
      <4>7. NextRaw(all, raw, C, begins) = IF Len(Append(Last(all), C)) = BlockLen THEN Append(raw, Len(all)) ELSE raw
        BY <4>2, <4>5 DEF NextRaw
      <4> QED BY <4>1, <4>5, <4>6, <4>7
    <3> QED BY <3>1, <3>2
  <2>10. s \in F .. X BY <1>1
  <2> HIDE DEF all2, raw2
  <2>11. Filled(all2, raw2, ch, s \div BlockLen, X \div BlockLen, X % BlockLen) BY <2>5, <2>9 DEF all2, raw2
  <2>12. ChannelAt(all2, raw2, ch, F, X+1) BY <2>1, <2>10, <2>11, <1>0
  <2> QED BY <2>12 DEF all2, raw2
<1> QED BY <1>4, <1>5 DEF ChannelAt

LEMMA TwoChannels == 0 \in Channels /\ 1 \in Channels BY DEF Channels

\* A pair of the next frame on the first two channels.
Unharmed(w) == w.exc = ""
Good(a, spn) == a.parity[spn][0] /\ a.parity[spn][1]
Begins(a, spn, X) == spn \in a.B <=> X % BlockLen = 0
LEMMA OneStereo ==
  ASSUME Given, NEW w, WorkOk(w), Unharmed(w), NEW d \in Packet, NEW spn \in 0 .. 3, NEW F \in Nat, NEW X \in Nat, F <= X,
         WorkAt(w, F, X), spn \in d.audio.SP, Good(d.audio, spn), Begins(d.audio, spn, X),
         ChannelOf(d.audio, spn, 0) = 0, ChannelOf(d.audio, spn, 1) = 1,
         d.audio.C[spn][0] = BitOf(X, 0), d.audio.C[spn][1] = BitOf(X, 1)
  PROVE  WorkAt(Pair(w, d.audio, spn), F, X+1)
<1> DEFINE a == d.audio
           begins == spn \in a.B
           left == Bit(w, 0, BitOf(X, 0), begins)
           both == Bit(left, 1, BitOf(X, 1), begins)
<1> HIDE DEF begins
<1>1. 0 \in Channels /\ 1 \in Channels /\ 0 # 1 BY TwoChannels
<1>2. BitOf(X, 0) \in ABit /\ BitOf(X, 1) \in ABit
  <2>1. 0 \in {0, 1} /\ 1 \in {0, 1} OBVIOUS
  <2>2. a.C[spn][0] \in ABit /\ a.C[spn][1] \in ABit BY <2>1, ItsBits
  <2> QED BY <2>2
<1>3. WorkOk(left) /\ Unharmed(left)
  <2>1. WorkOk(left) BY <1>1, <1>2, OneBit
  <2>2. Bit(w, 0, BitOf(X, 0), begins).exc = w.exc BY BitJudges DEF WorkOk
  <2> QED BY <2>1, <2>2 DEF Unharmed
<1>4. Pair(w, a, spn) = both
  <2>1. Member(w, a, spn, 0) = left BY <1>1 DEF Member, begins, Good
  <2>2. Member(left, a, spn, 1) = both BY <1>1 DEF Member, begins, Good
  <2> HIDE DEF left, both
  <2> QED BY <2>1, <2>2, <1>3 DEF Pair, Good, Unharmed
<1>5. w \in WorkSet /\ left \in WorkSet /\ BlockLen \in Nat \ {0, 1} BY <1>3 DEF WorkOk, Given
<1> HIDE DEF left
<1>6. /\ left.arrays[0] = NextArrays(w.arrays[0], BitOf(X, 0), begins)
      /\ left.raw[0] = NextRaw(w.arrays[0], w.raw[0], BitOf(X, 0), begins)
      /\ \A c \in Channels \ {0} : left.arrays[c] = w.arrays[c] /\ left.raw[c] = w.raw[c]
  <2>1. left = Bit(w, 0, BitOf(X, 0), begins) BY DEF left
  <2>2. PICK C : C = BitOf(X, 0) OBVIOUS
  <2>3. left = Bit(w, 0, C, begins) BY <2>1, <2>2
  <2>4. /\ Bit(w, 0, C, begins).arrays[0] = NextArrays(w.arrays[0], C, begins)
        /\ Bit(w, 0, C, begins).raw[0] = NextRaw(w.arrays[0], w.raw[0], C, begins)
        /\ \A c \in Channels \ {0} : /\ Bit(w, 0, C, begins).arrays[c] = w.arrays[c]
                                     /\ Bit(w, 0, C, begins).raw[c] = w.raw[c]
    BY <1>1, <1>5, BitDoes
  <2> QED BY <2>2, <2>3, <2>4
<1> HIDE DEF both
<1>7. /\ both.arrays[1] = NextArrays(left.arrays[1], BitOf(X, 1), begins)
      /\ both.raw[1] = NextRaw(left.arrays[1], left.raw[1], BitOf(X, 1), begins)
      /\ \A c \in Channels \ {1} : both.arrays[c] = left.arrays[c] /\ both.raw[c] = left.raw[c]
  <2>1. both = Bit(left, 1, BitOf(X, 1), begins) BY DEF both
  <2>2. PICK C : C = BitOf(X, 1) OBVIOUS
  <2>3. both = Bit(left, 1, C, begins) BY <2>1, <2>2
  <2>4. /\ Bit(left, 1, C, begins).arrays[1] = NextArrays(left.arrays[1], C, begins)
        /\ Bit(left, 1, C, begins).raw[1] = NextRaw(left.arrays[1], left.raw[1], C, begins)
        /\ \A c \in Channels \ {1} : /\ Bit(left, 1, C, begins).arrays[c] = left.arrays[c]
                                     /\ Bit(left, 1, C, begins).raw[c] = left.raw[c]
    BY <1>1, <1>5, BitDoes
  <2> QED BY <2>2, <2>3, <2>4
<1>8. /\ w.arrays[0] \in Seq(Seq(ABit)) /\ w.raw[0] \in Seq(Nat)
      /\ w.arrays[1] \in Seq(Seq(ABit)) /\ w.raw[1] \in Seq(Nat)
  BY <1>1, <1>5 DEF WorkSet
<1>9. ChannelAt(w.arrays[0], w.raw[0], 0, F, X) /\ ChannelAt(w.arrays[1], w.raw[1], 1, F, X) BY DEF WorkAt
<1>10. begins <=> X % BlockLen = 0 BY DEF begins, Begins
<1>11. ChannelAt(left.arrays[0], left.raw[0], 0, F, X+1)
  BY <1>2, <1>5, <1>6, <1>8, <1>9, <1>10, OneFrame
<1>12. ChannelAt(both.arrays[1], both.raw[1], 1, F, X+1)
  <2>1. left.arrays[1] = w.arrays[1] /\ left.raw[1] = w.raw[1] BY <1>1, <1>6
  <2> QED BY <2>1, <1>2, <1>5, <1>7, <1>8, <1>9, <1>10, OneFrame
<1>13. both.arrays[0] = left.arrays[0] /\ both.raw[0] = left.raw[0] BY <1>1, <1>7
<1>14. \A ch \in Channels \ {0, 1} : both.arrays[ch] = << <<>> >> /\ both.raw[ch] = <<>>
  BY <1>6, <1>7 DEF WorkAt
<1> QED BY <1>4, <1>11, <1>12, <1>13, <1>14 DEF WorkAt

\* How many frames have been heard after k pairs.
Heard(layout, count, k) ==
  IF layout = 0 THEN IF k <= count THEN k ELSE count ELSE IF k = 0 \/ count = 0 THEN 0 ELSE 1
LEMMA HeardIs ==
  ASSUME NEW count \in 0 .. 4, NEW layout \in {0, 1}, NEW k \in 0 .. 3
  PROVE  /\ Heard(layout, count, k) \in Nat
         /\ k >= count => Heard(layout, count, k+1) = Heard(layout, count, k)
         /\ k < count /\ layout = 0 => Heard(layout, count, k) = k /\ Heard(layout, count, k+1) = k+1
         /\ count > 0 /\ layout = 1 /\ k = 0 => Heard(layout, count, k) = 0
         /\ count > 0 /\ layout = 1 => Heard(layout, count, k+1) = 1
         /\ count > 0 /\ layout = 1 /\ k > 0 => Heard(layout, count, k) = 1
         /\ Heard(layout, count, 0) = 0
         /\ Heard(layout, count, 4) = IF layout = 0 \/ count = 0 THEN count ELSE 1
BY DEF Heard

LEMMA PairHears ==
  ASSUME Given, NEW w, WorkOk(w), NEW d \in Packet, NEW spn \in 0 .. 3, NEW F \in Nat, NEW X \in Nat, F <= X,
         NEW count \in 0 .. 4, d.audio.SP = 0 .. count-1, d.audio.LAYOUT \in {0, 1}, Carries(d.audio, X),
         \A k \in d.audio.SP : Good(d.audio, k),
         Unharmed(w) => WorkAt(w, F, X + Heard(d.audio.LAYOUT, count, spn)),
         Unharmed(Pair(w, d.audio, spn))
  PROVE  WorkAt(Pair(w, d.audio, spn), F, X + Heard(d.audio.LAYOUT, count, spn+1))
<1> DEFINE a == d.audio
           v == Pair(w, a, spn)
<1>1. Unharmed(w)
  <2>1. Judges(w, v, a, spn) BY PairJudges, Zenon
  <2> QED BY <2>1 DEF Judges, Unharmed
<1>2. spn \in a.SP <=> spn < count OBVIOUS
<1>3. CASE spn \notin a.SP
  <2>1. v = w BY <1>3 DEF Pair
  <2>2. Heard(a.LAYOUT, count, spn+1) = Heard(a.LAYOUT, count, spn) BY <1>2, <1>3, HeardIs
  <2> HIDE DEF v
  <2>3. WorkAt(v, F, X + Heard(a.LAYOUT, count, spn+1)) BY <1>1, <2>1, <2>2
  <2> QED BY <2>3 DEF v
<1>4. CASE spn \in a.SP /\ (a.LAYOUT = 0 \/ spn = 0)
  <2>1. ChannelOf(a, spn, 0) = 0 /\ ChannelOf(a, spn, 1) = 1 BY <1>4 DEF ChannelOf
  <2>2. PICK n \in Nat : n = Heard(a.LAYOUT, count, spn) BY HeardIs
  <2>3. Heard(a.LAYOUT, count, spn+1) = n+1
    <3>1. CASE a.LAYOUT = 0 BY <3>1, <1>2, <1>4, <2>2, HeardIs
    <3>2. CASE a.LAYOUT = 1
      <4>1. count > 0 /\ spn = 0 BY <1>2, <1>4, <3>2
      <4>2. Heard(1, count, 0) = 0 /\ Heard(1, count, 0+1) = 1
        <5>1. 0 \in 0 .. 3 /\ 1 \in {0, 1} OBVIOUS
        <5> QED BY <4>1, <5>1, HeardIs
      <4> QED BY <4>1, <4>2, <2>2, <3>2
    <3> QED BY <3>1, <3>2
  <2>4. FrameOf(a, X, spn) = X + n
    <3>1. CASE a.LAYOUT = 0
      <4>1. n = spn BY <3>1, <1>2, <1>4, <2>2, HeardIs
      <4> QED BY <3>1, <4>1 DEF FrameOf
    <3>2. CASE a.LAYOUT = 1
      <4>1. n = 0
        <5>1. 0 \in 0 .. 3 /\ 1 \in {0, 1} OBVIOUS
        <5>2. count > 0 /\ spn = 0 BY <1>2, <1>4, <3>2
        <5>3. Heard(1, count, 0) = 0 BY <5>1, <5>2, HeardIs
        <5> QED BY <2>2, <3>2, <5>2, <5>3
      <4> QED BY <3>2, <4>1 DEF FrameOf
    <3> QED BY <3>1, <3>2
  <2>5. a.C[spn][0] = BitOf(X+n, 0) /\ a.C[spn][1] = BitOf(X+n, 1)
    <3>1. 0 \in {0, 1} /\ 1 \in {0, 1} OBVIOUS
    <3>2. \A spm \in {0, 1} : a.C[spn][spm] = BitOf(FrameOf(a, X, spn), spm) BY <1>4 DEF Carries
    <3> QED BY <3>1, <3>2, <2>4
  <2>6. Begins(a, spn, X+n)
    <3>1. spn \in a.B <=> FrameOf(a, X, spn) % BlockLen = 0 /\ (a.LAYOUT = 1 => spn = 0) BY <1>4 DEF Carries
    <3>2. a.LAYOUT = 1 => spn = 0 BY <1>4
    <3> QED BY <3>1, <3>2, <2>4 DEF Begins
  <2>7. Good(a, spn) BY <1>4
  <2>8. WorkAt(w, F, X+n) /\ X+n \in Nat /\ F <= X+n BY <1>1, <2>2
  <2>9. WorkAt(v, F, X+n+1) BY <1>1, <1>4, <2>1, <2>5, <2>6, <2>7, <2>8, OneStereo
  <2>10. X+n+1 = X+(n+1) OBVIOUS
  <2> HIDE DEF v
  <2>11. WorkAt(v, F, X + Heard(a.LAYOUT, count, spn+1)) BY <2>3, <2>9, <2>10
  <2> QED BY <2>11 DEF v
<1>5. CASE spn \in a.SP /\ a.LAYOUT = 1 /\ spn = 1
  <2>1. ChannelOf(a, spn, 0) = 4 /\ ChannelOf(a, spn, 1) = 5 BY <1>5 DEF ChannelOf
  <2>2. spn \notin a.B BY <1>5 DEF Carries
  <2>3. Last(w.arrays[4]) = <<>> /\ Last(w.arrays[5]) = <<>> /\ 4 \in Channels /\ 5 \in Channels
    <3>1. 4 \in Channels \ {0, 1} /\ 5 \in Channels \ {0, 1} BY DEF Channels
    <3>2. w.arrays[4] = << <<>> >> /\ w.arrays[5] = << <<>> >> BY <1>1, <3>1 DEF WorkAt
    <3> QED BY <3>1, <3>2 DEF Last
  <2>4. Good(a, spn) BY <1>5
  <2>5. Member(w, a, spn, 0) = w BY <2>1, <2>2, <2>3, <2>4 DEF Member, Good, Bit
  <2>6. Member(w, a, spn, 1) = w BY <2>1, <2>2, <2>3, <2>4 DEF Member, Good, Bit
  <2>7. v = w BY <1>1, <2>4, <2>5, <2>6 DEF Pair, Good, Unharmed
  <2>8. Heard(a.LAYOUT, count, spn+1) = 1 /\ Heard(a.LAYOUT, count, spn) = 1 BY <1>2, <1>5, HeardIs
  <2> HIDE DEF v
  <2>9. WorkAt(v, F, X + Heard(a.LAYOUT, count, spn+1)) BY <1>1, <2>7, <2>8
  <2> QED BY <2>9 DEF v
<1>6. CASE spn \in a.SP /\ a.LAYOUT = 1 /\ spn \in {2, 3}
  <2>1. ChannelOf(a, spn, 0) \notin Channels BY <1>6 DEF ChannelOf, Channels
  <2>2. Good(a, spn) BY <1>6
  <2>3. Member(w, a, spn, 0) = [w EXCEPT !.exc = "IndexError"] BY <2>1, <2>2 DEF Member, Good
  <2>4. Member(w, a, spn, 0).exc = "IndexError" BY <2>3 DEF WorkOk, WorkSet
  <2>5. v = Member(w, a, spn, 0) BY <1>1, <1>6, <2>4 DEF Pair, Unharmed
  <2> QED BY <2>4, <2>5 DEF Unharmed
<1>7. spn = 0 \/ spn = 1 \/ spn \in {2, 3} OBVIOUS
<1> QED BY <1>3, <1>4, <1>5, <1>6, <1>7

\* A packet of samples with nothing wrong is heard from its first frame to its last.
\* The samples have the bits of frames X .. Z in them.
Spans(a, X, Z) ==
  \A ch \in {0, 1} : \A bit : (\E spn \in a.SP : bit = a.C[spn][ch]) <=> (\E x \in X .. Z : bit = BitOf(x, ch))
LEMMA SamplesHeard ==
  ASSUME Given, WorkOk(Work), NEW d \in Packet, IsPacket(d), d.type = Samples, ~Wrong(d),
         NEW F \in Nat, NEW X \in Nat, F <= X, Carries(d.audio, X), WorkAt(Work, F, X),
         Unharmed(DecodeType(d))
  PROVE  /\ WorkAt(DecodeType(d), F, X + Frames(d.audio)) /\ Frames(d.audio) \in Nat
         /\ Spans(d.audio, X, X+Frames(d.audio)-1)
<1> DEFINE a == d.audio
<1>1. DecodeType(d) = DecodeSamples(d) BY DEF DecodeType, Samples, InfoFrames, OtherInfoFrames, AVI, SPD, Audio
<1>2. /\ d.fault = "" /\ IsAudio(a) /\ \A k \in a.SP : Good(a, k)
  <2>1. d.fault = "" /\ ~\E spn \in a.SP, spm \in {0, 1} : ~a.parity[spn][spm] BY DEF Wrong
  <2> QED BY <2>1 DEF IsPacket, Good
<1>3. PICK count \in 0 .. 4 : a.SP = 0 .. count-1 BY <1>2 DEF IsAudio
<1>4. a.LAYOUT \in {0, 1} /\ ~(Cardinality(a.B) > 1)
  <2>1. a.LAYOUT \in {0, 1} /\ a.B \subseteq 0 .. count-1 /\ Cardinality(a.B) <= 1 BY <1>2, <1>3 DEF IsAudio
  <2>2. Cardinality(a.B) \in Nat
    <3>1. IsFiniteSet(0 .. count-1) BY FS_Interval
    <3> QED BY <3>1, <2>1, FS_Subset, FS_CardinalityType
  <2> QED BY <2>1, <2>2
<1>5. PICK v1 : v1 = Pair(Work, a, 0) OBVIOUS
<1>6. PICK v2 : v2 = Pair(v1, a, 1) OBVIOUS
<1>7. PICK v3 : v3 = Pair(v2, a, 2) OBVIOUS
<1>8. PICK v4 : v4 = Pair(v3, a, 3) OBVIOUS
<1>9. DecodeType(d) = v4
  <2>1. a.SP \in {0 .. k-1 : k \in 0 .. 4} BY <1>3
  <2>2. DecodeSamples(d) = Pair(Pair(Pair(Pair(Work, a, 0), a, 1), a, 2), a, 3)
    BY <1>2, <1>4, <2>1 DEF DecodeSamples
  <2> QED BY <2>2, <1>1, <1>5, <1>6, <1>7, <1>8
<1>10. 0 \in 0 .. 3 /\ 1 \in 0 .. 3 /\ 2 \in 0 .. 3 /\ 3 \in 0 .. 3 /\ 0+1 = 1 /\ 1+1 = 2 /\ 2+1 = 3 /\ 3+1 = 4 /\ X+0 = X
  OBVIOUS
<1>11. WorkOk(v1) /\ WorkOk(v2) /\ WorkOk(v3) /\ WorkOk(v4)
  <2>1. WorkOk(v1) BY <1>5, <1>10, OnePair
  <2>2. WorkOk(v2) BY <1>6, <1>10, <2>1, OnePair
  <2>3. WorkOk(v3) BY <1>7, <1>10, <2>2, OnePair
  <2> QED BY <2>1, <2>2, <2>3, <1>8, <1>10, OnePair
<1>12. Heard(a.LAYOUT, count, 0) = 0 /\ Heard(a.LAYOUT, count, 4) = IF a.LAYOUT = 0 \/ count = 0 THEN count ELSE 1
  BY <1>4, <1>10, HeardIs
<1>13. WorkAt(Work, F, X + Heard(a.LAYOUT, count, 0)) BY <1>10, <1>12
<1>14. Unharmed(v1) => WorkAt(v1, F, X + Heard(a.LAYOUT, count, 1))
  <2>1. Unharmed(Pair(Work, a, 0)) => WorkAt(Pair(Work, a, 0), F, X + Heard(a.LAYOUT, count, 0+1))
    BY <1>2, <1>3, <1>4, <1>10, <1>13, PairHears
  <2> QED BY <2>1, <1>5, <1>10
<1>15. Unharmed(v2) => WorkAt(v2, F, X + Heard(a.LAYOUT, count, 2))
  <2>1. Unharmed(Pair(v1, a, 1)) => WorkAt(Pair(v1, a, 1), F, X + Heard(a.LAYOUT, count, 1+1))
    BY <1>2, <1>3, <1>4, <1>10, <1>11, <1>14, PairHears
  <2> QED BY <2>1, <1>6, <1>10
<1>16. Unharmed(v3) => WorkAt(v3, F, X + Heard(a.LAYOUT, count, 3))
  <2>1. Unharmed(Pair(v2, a, 2)) => WorkAt(Pair(v2, a, 2), F, X + Heard(a.LAYOUT, count, 2+1))
    BY <1>2, <1>3, <1>4, <1>10, <1>11, <1>15, PairHears
  <2> QED BY <2>1, <1>7, <1>10
<1>17. Unharmed(v4) => WorkAt(v4, F, X + Heard(a.LAYOUT, count, 4))
  <2>1. Unharmed(Pair(v3, a, 3)) => WorkAt(Pair(v3, a, 3), F, X + Heard(a.LAYOUT, count, 3+1))
    BY <1>2, <1>3, <1>4, <1>10, <1>11, <1>16, PairHears
  <2> QED BY <2>1, <1>8, <1>10
<1>18. Frames(a) = IF a.LAYOUT = 0 \/ count = 0 THEN count ELSE 1
  <2>1. Cardinality(0 .. count-1) = count BY FS_Interval
  <2>2. a.SP = {} <=> count = 0 BY <1>3
  <2> QED BY <2>1, <2>2, <1>3 DEF Frames
<1>19. ASSUME NEW ch \in {0, 1}, NEW bit
       PROVE  (\E spn \in a.SP : bit = a.C[spn][ch]) <=> (\E x \in X .. X+Frames(a)-1 : bit = BitOf(x, ch))
  <2>1. \A spn \in a.SP : a.C[spn][ch] = BitOf(FrameOf(a, X, spn), ch) BY DEF Carries
  <2>2. CASE a.LAYOUT = 0
    <3>1. Frames(a) = count BY <1>18, <2>2
    <3>2. \A spn \in a.SP : X+spn \in X .. X+count-1 /\ a.C[spn][ch] = BitOf(X+spn, ch)
      BY <1>3, <2>1, <2>2 DEF FrameOf
    <3>3. \A x \in X .. X+count-1 : x-X \in a.SP /\ X+(x-X) = x BY <1>3
    <3> QED BY <3>1, <3>2, <3>3
  <2>3. CASE a.LAYOUT # 0 /\ count = 0
    <3>1. Frames(a) = 0 /\ a.SP = {} BY <1>3, <1>18, <2>3
    <3>2. X .. X+0-1 = {} OBVIOUS
    <3> QED BY <3>1, <3>2
  <2>4. CASE a.LAYOUT # 0 /\ count # 0
    <3>1. Frames(a) = 1 /\ 0 \in a.SP BY <1>3, <1>18, <2>4
    <3>2. X .. X+1-1 = {X} OBVIOUS
    <3>3. \A spn \in a.SP : a.C[spn][ch] = BitOf(X, ch) BY <2>1, <2>4 DEF FrameOf
    <3> QED BY <3>1, <3>2, <3>3
  <2> QED BY <2>2, <2>3, <2>4
<1>20. Frames(a) \in Nat BY <1>18
<1>21. WorkAt(v4, F, X + Frames(a)) BY <1>9, <1>12, <1>17, <1>18
<1>22. Spans(a, X, X+Frames(a)-1) BY <1>19 DEF Spans
<1> QED BY <1>9, <1>20, <1>21, <1>22

LEMMA OthersUnheard ==
  ASSUME NEW d, d.type # Samples
  PROVE  DecodeType(d).arrays = arrays /\ DecodeType(d).raw = iec60958_cs_raw
<1>1. Work.arrays = arrays /\ Work.raw = iec60958_cs_raw BY DEF Work
<1>2. Fails(Work).arrays = arrays /\ Fails(Work).raw = iec60958_cs_raw BY DEF Work, Fails
<1>3. \A name : Raises(Work, name).arrays = arrays /\ Raises(Work, name).raw = iec60958_cs_raw BY DEF Work, Raises
<1>4. DecodeInfoFrame(d).arrays = arrays /\ DecodeInfoFrame(d).raw = iec60958_cs_raw
  BY <1>1, <1>2, <1>3 DEF DecodeInfoFrame
<1>5. DecodeType(d) \in {Work, Fails(Work), DecodeInfoFrame(d)} BY DEF DecodeType
<1> QED BY <1>1, <1>2, <1>4, <1>5

------------------------------------------------------------------------------
(* The audio that has been heard.                                            *)

\* Frame is where the audio of a packet begins in the stream; AudioPackets(n) are the
\* first n packets of samples, and their bits are those of frames F .. X-1.
Frame == CHOOSE frame : Stream(cap, frame)
AudioPackets(n) == {q \in Whole : cap.packets[q].type = Samples /\ Ahead(q) < n}
HasBit(q, ch, bit) == \E spn \in cap.packets[q].audio.SP : bit = cap.packets[q].audio.C[spn][ch]
HeardAs(n, F, X) ==
  \A ch \in {0, 1} : \A bit :
    (\E q \in AudioPackets(n) : HasBit(q, ch, bit)) <=> (\E x \in F .. X-1 : bit = BitOf(x, ch))
Silent(w) == \A ch \in Channels : w.arrays[ch] = << <<>> >> /\ w.raw[ch] = <<>>
AudioUntil(w, n, F, X) ==
  /\ F <= X /\ WorkAt(w, F, X) /\ HeardAs(n, F, X) /\ (n = 0 => Silent(w))
  /\ \A q \in AudioPackets(n) : Ahead(q) = n-1 => X = Frame[q] + Frames(cap.packets[q].audio)
AudioOf(w, n) == \E F, X \in Nat : AudioUntil(w, n, F, X)

\* n is how many packets of samples have been decoded.
DecodedAudio(n) ==
  /\ ~Known(Samples) => n = 0
  /\ \A k \in DOMAIN packet_dict : packet_dict[k].type = Samples =>
       /\ p_i+1 < k => n = 0
       /\ p_i+1 = k => n = p_j
       /\ p_i+1 > k => n = Len(packet_dict[k].list)
AllRight == \A p \in Whole : ~Wrong(cap.packets[p])
AudioInv ==
  /\ p_pass = "extract" => Silent(Work)
  /\ p_pass = "decode" /\ AllRight => \E n \in Nat : AudioOf(Work, n) /\ DecodedAudio(n)

LEMMA AheadOrder ==
  ASSUME NEW p \in Nat \ {0}, NEW q \in Nat \ {0}
  PROVE  /\ Ahead(p) \in Nat /\ Ahead(q) \in Nat
         /\ p < q /\ cap.packets[p].type = cap.packets[q].type => Ahead(p) + 1 <= Ahead(q)
<1>1. p-1 \in Nat /\ q-1 \in Nat /\ p-1+1 = p OBVIOUS
<1>2. Ahead(p) \in Nat /\ Ahead(q) \in Nat BY <1>1, Counting DEF Ahead
<1>3. ASSUME p < q, cap.packets[p].type = cap.packets[q].type PROVE Ahead(p) + 1 <= Ahead(q)
  <2> DEFINE type == cap.packets[p].type
  <2>1. Count(type, p) = Ahead(p) + 1
    <3>1. Count(type, p-1+1) = Count(type, p-1) + (IF cap.packets[p-1+1].type = type THEN 1 ELSE 0)
      BY <1>1, Counting
    <3> QED BY <3>1, <1>1 DEF Ahead
  <2>2. OfType(type, p) \subseteq OfType(type, q-1)
    <3>1. \A r \in 1 .. p : r \in 1 .. q-1 BY <1>3
    <3> QED BY <3>1 DEF OfType
  <2>3. IsFiniteSet(OfType(type, q-1)) BY <1>1, Counting
  <2>4. Cardinality(OfType(type, p)) <= Cardinality(OfType(type, q-1)) BY <2>2, <2>3, FS_Subset
  <2>5. Ahead(q) = Count(type, q-1) BY <1>3 DEF Ahead
  <2> QED BY <2>1, <2>4, <2>5 DEF Count
<1> QED BY <1>2, <1>3

\* The packet of samples after the first n begins where those have ended.
LEMMA FollowsOn ==
  ASSUME Given, TypeInv, AllRight, NEW P \in Nat, Whole = 1 .. P, Found(packet_dict, P),
         NEW q \in Whole, cap.packets[q].type = Samples, NEW w, AudioOf(w, Ahead(q))
  PROVE  \E F, X \in Nat : F <= X /\ WorkAt(w, F, X) /\ HeardAs(Ahead(q), F, X) /\ X = Frame[q]
<1>1. Stream(cap, Frame) BY DEF Given, IsCapture, Frame, TypeInv
<1>2. \A p \in Whole : p \in DOMAIN cap.packets /\ p \in Nat \ {0} BY DEF Whole
<1>3. Frame[q] \in Nat BY <1>1, <1>2 DEF Stream
<1>4. Ahead(q) \in Nat BY <1>2, AheadOrder
<1>5. CASE Ahead(q) = 0
  <2>1. Silent(w) BY <1>5 DEF AudioOf, AudioUntil
  <2>2. WorkAt(w, Frame[q], Frame[q])
    <3>1. Frame[q] .. Frame[q]-1 = {} BY <1>3
    <3>2. \A ch \in {0, 1} : ch \in Channels BY TwoChannels
    <3> QED BY <3>1, <3>2, <2>1 DEF WorkAt, ChannelAt, Silent
  <2>3. HeardAs(0, Frame[q], Frame[q])
    <3>1. Frame[q] .. Frame[q]-1 = {} BY <1>3
    <3>2. AudioPackets(0) = {} BY <1>2, AheadOrder DEF AudioPackets
    <3> QED BY <3>1, <3>2 DEF HeardAs
  <2> QED BY <2>2, <2>3, <1>3, <1>5
<1>6. CASE Ahead(q) # 0
  <2>1. PICK F \in Nat, X \in Nat : AudioUntil(w, Ahead(q), F, X) BY DEF AudioOf
  <2>2. PICK k \in DOMAIN packet_dict :
          packet_dict[k].type = Samples /\ Ahead(q)+1 \in DOMAIN packet_dict[k].list
    BY DEF Found, Places
  <2>3. Ahead(q) \in DOMAIN packet_dict[k].list
    <3>1. /\ DOMAIN packet_dict[k].list = 1 .. Len(packet_dict[k].list)
          /\ Len(packet_dict[k].list) \in Nat
      BY AList
    <3> QED BY <3>1, <2>2, <1>4, <1>6
  <2>4. PICK p \in Whole : cap.packets[p].type = Samples /\ Ahead(p) = Ahead(q)-1
    <3>1. Holds(packet_dict[k], P) BY DEF Found
    <3> QED BY <3>1, <2>2, <2>3 DEF Holds
  <2>5. p \in AudioPackets(Ahead(q))
    <3>1. Ahead(p) < Ahead(q) BY <2>4, <1>4
    <3> QED BY <3>1, <2>4 DEF AudioPackets
  <2>6. X = Frame[p] + Frames(cap.packets[p].audio) BY <2>1, <2>4, <2>5 DEF AudioUntil
  <2>7. \A r \in Whole : cap.packets[r].type = Samples /\ r < q => Ahead(r) + 1 <= Ahead(q)
    BY <1>2, AheadOrder
  <2>8. \A r \in Whole : cap.packets[r].type = Samples /\ p < r => Ahead(p) + 1 <= Ahead(r)
    BY <1>2, <2>4, AheadOrder
  <2>9. p \in Nat /\ q \in Nat /\ Ahead(p) \in Nat BY <1>2, AheadOrder
  <2>10. p < q
    <3>1. p # q BY <2>4, <1>4
    <3>2. ~(q < p)
      <4>1. q < p => Ahead(q) + 1 <= Ahead(p) BY <1>2, <2>4, AheadOrder
      <4> QED BY <4>1, <2>4, <1>4
    <3> QED BY <3>1, <3>2, <2>9
  <2>11. ASSUME NEW r \in p .. q-1 PROVE ~Wrong(cap.packets[r]) /\ (cap.packets[r].type = Samples => r = p)
    <3>1. r \in Whole /\ p <= r /\ r < q /\ r \in Nat BY <2>9, <2>10
    <3>2. ASSUME cap.packets[r].type = Samples, p < r PROVE FALSE
      <4>1. Ahead(r) + 1 <= Ahead(q) /\ Ahead(p) + 1 <= Ahead(r) BY <3>1, <3>2, <2>7, <2>8
      <4>2. Ahead(r) \in Nat BY <1>2, <3>1, AheadOrder
      <4> QED BY <4>1, <4>2, <2>4, <2>9, <1>4
    <3> QED BY <3>1, <3>2, <2>9 DEF AllRight
  <2>12. Frame[q] = Frame[p] + Frames(cap.packets[p].audio)
    BY <1>1, <1>2, <2>4, <2>10, <2>11 DEF Stream
  <2>13. X = Frame[q] BY <2>6, <2>12
  <2> QED BY <2>1, <2>13 DEF AudioUntil
<1> QED BY <1>5, <1>6

\* The bits of the first n packets and those of one more.
Bears(q, X, Y) == \A ch \in {0, 1} : \A bit : HasBit(q, ch, bit) <=> (\E x \in X .. Y-1 : bit = BitOf(x, ch))
LEMMA ItBears == ASSUME NEW q, NEW X, NEW Y, Spans(cap.packets[q].audio, X, Y-1) PROVE Bears(q, X, Y)
BY DEF Spans, Bears, HasBit

LEMMA Joined ==
  ASSUME NEW F \in Nat, NEW X \in Nat, NEW Y \in Nat, F <= X, X <= Y, NEW n, NEW m, NEW q,
         AudioPackets(m) = AudioPackets(n) \cup {q}, HeardAs(n, F, X), Bears(q, X, Y)
  PROVE  HeardAs(m, F, Y)
<1> SUFFICES ASSUME NEW ch \in {0, 1}, NEW bit
             PROVE  (\E r \in AudioPackets(m) : HasBit(r, ch, bit)) <=> (\E x \in F .. Y-1 : bit = BitOf(x, ch))
  BY DEF HeardAs
<1>1. F .. Y-1 = F .. X-1 \cup X .. Y-1
  <2>1. \A x \in F .. Y-1 : x \in F .. X-1 \/ x \in X .. Y-1 OBVIOUS
  <2>2. (\A x \in F .. X-1 : x \in F .. Y-1) /\ \A x \in X .. Y-1 : x \in F .. Y-1 OBVIOUS
  <2> QED BY <2>1, <2>2
<1>2. (\E r \in AudioPackets(n) : HasBit(r, ch, bit)) <=> (\E x \in F .. X-1 : bit = BitOf(x, ch))
  BY DEF HeardAs
<1>3. HasBit(q, ch, bit) <=> (\E x \in X .. Y-1 : bit = BitOf(x, ch)) BY DEF Bears
<1>4. (\E r \in AudioPackets(m) : HasBit(r, ch, bit)) <=> (\E r \in AudioPackets(n) : HasBit(r, ch, bit)) \/ HasBit(q, ch, bit)
  OBVIOUS
<1>5. (\E x \in F .. Y-1 : bit = BitOf(x, ch)) <=> (\E x \in F .. X-1 : bit = BitOf(x, ch)) \/ (\E x \in X .. Y-1 : bit = BitOf(x, ch))
  BY <1>1
<1> QED BY <1>2, <1>3, <1>4, <1>5

LEMMA OneAfter ==
  ASSUME NEW n \in Nat, NEW q, AudioPackets(n+1) = AudioPackets(n) \cup {q}, Ahead(q) = n,
         \A r \in AudioPackets(n) : Ahead(r) # n,
         NEW w, NEW F \in Nat, NEW Y \in Nat, F <= Y, WorkAt(w, F, Y), HeardAs(n+1, F, Y),
         Y = Frame[q] + Frames(cap.packets[q].audio)
  PROVE  AudioUntil(w, n+1, F, Y)
<1>1. PICK m \in Nat : m = n+1 OBVIOUS
<1>2. m # 0 /\ m-1 = n BY <1>1
<1>3. HeardAs(m, F, Y) /\ \A r \in AudioPackets(m) : Ahead(r) = n => r = q BY <1>1
<1>4. \A r \in AudioPackets(m) : Ahead(r) = m-1 => Y = Frame[r] + Frames(cap.packets[r].audio) BY <1>2, <1>3
<1>5. AudioUntil(w, m, F, Y) BY <1>2, <1>3, <1>4 DEF AudioUntil
<1> QED BY <1>1, <1>5

\* The first packets of samples, and the next of them.
IsAudioPacket(q) == q \in Whole /\ cap.packets[q].type = Samples
LEMMA NextAudio ==
  ASSUME NEW q, IsAudioPacket(q), \A p \in Whole : p \in Nat \ {0}
  PROVE  /\ AudioPackets(Ahead(q)+1) = AudioPackets(Ahead(q)) \cup {q} /\ Ahead(q) \in Nat
         /\ \A r \in AudioPackets(Ahead(q)) : Ahead(r) # Ahead(q)
<1>1. Ahead(q) \in Nat BY AheadOrder DEF IsAudioPacket
<1>2. \A n : \A r \in AudioPackets(n) : IsAudioPacket(r) /\ Ahead(r) < n BY DEF AudioPackets, IsAudioPacket
<1>3. \A n : \A r : IsAudioPacket(r) /\ Ahead(r) < n => r \in AudioPackets(n) BY DEF AudioPackets, IsAudioPacket
<1>4. ASSUME NEW r, IsAudioPacket(r)
      PROVE  Ahead(r) \in Nat /\ (r # q => Ahead(r)+1 <= Ahead(q) \/ Ahead(q)+1 <= Ahead(r))
  <2>1. /\ r \in Nat \ {0} /\ q \in Nat \ {0} /\ cap.packets[r].type = cap.packets[q].type
    BY <1>4 DEF IsAudioPacket
  <2>2. r # q => r < q \/ q < r BY <2>1
  <2> QED BY <2>1, <2>2, AheadOrder
<1>5. \A r \in AudioPackets(Ahead(q)+1) : r \in AudioPackets(Ahead(q)) \/ r = q
  <2> SUFFICES ASSUME NEW r \in AudioPackets(Ahead(q)+1), r # q PROVE Ahead(r) < Ahead(q) BY <1>2, <1>3
  <2>1. IsAudioPacket(r) /\ Ahead(r) < Ahead(q)+1 BY <1>2
  <2> QED BY <2>1, <1>4, <1>1
<1>6. \A r \in AudioPackets(Ahead(q)) : r \in AudioPackets(Ahead(q)+1) /\ Ahead(r) # Ahead(q)
  <2> SUFFICES ASSUME NEW r \in AudioPackets(Ahead(q)) PROVE Ahead(r) < Ahead(q)+1 /\ Ahead(r) # Ahead(q) BY <1>2, <1>3
  <2>1. IsAudioPacket(r) /\ Ahead(r) < Ahead(q) BY <1>2
  <2>2. Ahead(r) \in Nat BY <2>1, <1>4
  <2> QED BY <2>1, <2>2, <1>1
<1>7. q \in AudioPackets(Ahead(q)+1)
  <2>1. Ahead(q) < Ahead(q)+1 BY <1>1
  <2> QED BY <2>1, <1>3
<1> QED BY <1>1, <1>5, <1>6, <1>7

\* One more packet of samples.
LEMMA HeardOneMore ==
  ASSUME Given, TypeInv, AllRight, NEW P \in Nat, Whole = 1 .. P, Found(packet_dict, P),
         NEW q \in Whole, IsAudioPacket(q), AudioOf(Work, Ahead(q)),
         Unharmed(DecodeType(cap.packets[q]))
  PROVE  AudioOf(DecodeType(cap.packets[q]), Ahead(q)+1)
<1>1. \A p \in Whole : p \in DOMAIN cap.packets /\ p \in Nat \ {0} BY DEF Whole
<1>2. PICK n \in Nat : n = Ahead(q) BY <1>1, NextAudio
<1>3. PICK F \in Nat, X \in Nat : F <= X /\ WorkAt(Work, F, X) /\ HeardAs(Ahead(q), F, X) /\ X = Frame[q]
  BY FollowsOn DEF IsAudioPacket
<1>4. /\ ~Wrong(cap.packets[q]) /\ IsPacket(cap.packets[q]) /\ cap.packets[q] \in Packet
  BY <1>1 DEF AllRight, TypeInv, Given, IsCapture, Packet, Sent
<1>5. Carries(cap.packets[q].audio, X)
  <2>1. Stream(cap, Frame) BY DEF Given, IsCapture, Frame, TypeInv
  <2> QED BY <2>1, <1>1, <1>3, <1>4 DEF Stream, IsAudioPacket
<1>6. PICK v : v = DecodeType(cap.packets[q]) OBVIOUS
<1>7. PICK more : more = Frames(cap.packets[q].audio) OBVIOUS
<1>8. WorkAt(v, F, X + more) /\ more \in Nat /\ \A Y : Y-1 = X+more-1 => Bears(q, X, Y)
  <2>1. PICK d \in Packet : d = cap.packets[q] BY <1>4
  <2>2. WorkOk(Work) /\ d.type = Samples BY <2>1 DEF TypeInv, IsAudioPacket
  <2>3. Carries(d.audio, X) /\ Unharmed(DecodeType(d)) /\ ~Wrong(d) /\ IsPacket(d) BY <1>4, <1>5, <2>1
  <2>4. /\ WorkAt(DecodeType(d), F, X + Frames(d.audio)) /\ Frames(d.audio) \in Nat
        /\ Spans(d.audio, X, X+Frames(d.audio)-1)
    BY <1>3, <2>2, <2>3, SamplesHeard
  <2>5. v = DecodeType(d) /\ more = Frames(d.audio) BY <1>6, <1>7, <2>1
  <2>6. WorkAt(v, F, X + more) /\ more \in Nat /\ Spans(d.audio, X, X+more-1) BY <2>4, <2>5
  <2>7. ASSUME NEW Y, Y-1 = X+more-1 PROVE Bears(q, X, Y)
    <3>1. Spans(d.audio, X, Y-1) BY <2>6, <2>7
    <3> QED BY <3>1, <2>1, ItBears
  <2> QED BY <2>6, <2>7
<1>9. PICK Y \in Nat : Y = X + more BY <1>8
<1>10. F <= Y /\ X <= Y
  <2>1. F <= X /\ more \in Nat BY <1>3, <1>8
  <2> QED BY <2>1, <1>9
<1>11. WorkAt(v, F, Y) /\ Bears(q, X, Y) BY <1>8, <1>9
<1>12. /\ AudioPackets(n+1) = AudioPackets(n) \cup {q} /\ \A r \in AudioPackets(n) : Ahead(r) # n
  BY <1>1, <1>2, NextAudio
<1>13. HeardAs(n, F, X) BY <1>2, <1>3
<1>14. HeardAs(n+1, F, Y)
  <2>1. PICK m : m = n+1 OBVIOUS
  <2>2. AudioPackets(m) = AudioPackets(n) \cup {q} BY <1>12, <2>1
  <2>3. HeardAs(m, F, Y) BY <1>3, <1>10, <1>11, <1>13, <2>2, Joined
  <2> QED BY <2>1, <2>3
<1>15. Y = Frame[q] + Frames(cap.packets[q].audio) BY <1>3, <1>7, <1>9
<1>16. AudioUntil(v, n+1, F, Y) BY <1>2, <1>10, <1>11, <1>12, <1>14, <1>15, OneAfter
<1>17. AudioOf(v, n+1) BY <1>16 DEF AudioOf
<1> QED BY <1>2, <1>6, <1>17

LEMMA SameHeard ==
  ASSUME cap' = cap, NEW arr, NEW raw, arrays' = arr, iec60958_cs_raw' = raw, NEW n,
         NEW w, w.arrays = arr, w.raw = raw, AudioOf(w, n)
  PROVE  AudioOf(Work, n)'
<1>1. Work'.arrays = w.arrays /\ Work'.raw = w.raw BY DEF Work
<1>2. Whole' = Whole /\ Frame' = Frame BY SameCapture DEF Frame
<1>3. \A F, X : WorkAt(Work, F, X)' <=> WorkAt(w, F, X) BY <1>1 DEF WorkAt, ChannelAt, Filled, Piece
<1>4. AudioPackets(n)' = AudioPackets(n) BY <1>2 DEF AudioPackets, Ahead, Count, OfType
<1>5. \A F, X : HeardAs(n, F, X)' <=> HeardAs(n, F, X) BY <1>4 DEF HeardAs, HasBit
<1>6. Silent(Work)' <=> Silent(w) BY <1>1 DEF Silent
<1>7. \A q : Ahead(q)' = Ahead(q) BY DEF Ahead, Count, OfType
<1> QED BY <1>2, <1>3, <1>4, <1>5, <1>6, <1>7 DEF AudioOf, AudioUntil

LEMMA AudioAtFirst == ASSUME PacketsInit PROVE AudioInv
<1>1. p_pass \in {"extract", "report"} /\ Silent(Work) BY DEF PacketsInit, Silent, Work
<1> QED BY <1>1 DEF AudioInv

\* The places of the next packet, and how many of samples have been decoded there.
LEMMA OneOnward ==
  ASSUME NEW i \in Nat, NEW j \in Nat, NEW k \in Nat, NEW n \in Nat, NEW length \in Nat, NEW u \in Nat, NEW v \in Nat,
         i+1 < k => n = 0, i+1 = k => n = j /\ j < length, i+1 > k => n = length,
         \/ u = i /\ v = j+1 /\ (i+1 = k => j+1 < length)
         \/ u = i+1 /\ v = 0 /\ (i+1 = k => ~(j+1 < length)),
         NEW m, m = IF k = i+1 THEN n+1 ELSE n
  PROVE  /\ u+1 < k => m = 0
         /\ u+1 = k => m = v
         /\ u+1 > k => m = length
OBVIOUS

AtAudio(k) == packet_dict[k].type = Samples
LEMMA AudioOnward ==
  ASSUME TypeInv, p_i < Len(packet_dict), p_pass = "decode", packet_dict' = packet_dict, NextPacket,
         NEW n \in Nat, DecodedAudio(n), NEW m, m = IF AtAudio(p_i+1) THEN n+1 ELSE n
  PROVE  DecodedAudio(m)'
<1>1. /\ p_i \in Nat /\ p_j \in Nat /\ p_j < Len(packet_list) /\ DOMAIN packet_dict = 1 .. Len(packet_dict)
      /\ Len(packet_dict) \in Nat /\ p_i+1 \in DOMAIN packet_dict
  BY DEF TypeInv
<1>2. p_i' \in Nat /\ p_j' \in Nat BY <1>1 DEF NextPacket
<1>3. ~Known(Samples) => m = 0 BY <1>1 DEF DecodedAudio, Known, AtAudio
<1>4. ASSUME NEW k \in DOMAIN packet_dict, AtAudio(k)
      PROVE  /\ p_i'+1 < k => m = 0
             /\ p_i'+1 = k => m = p_j'
             /\ p_i'+1 > k => m = Len(packet_dict[k].list)
  <2>1. AtAudio(p_i+1) <=> k = p_i+1 BY <1>1, <1>4 DEF AtAudio, TypeInv, DictOk
  <2>2. /\ p_i+1 < k => n = 0
        /\ p_i+1 = k => n = p_j
        /\ p_i+1 > k => n = Len(packet_dict[k].list)
    BY <1>4 DEF DecodedAudio, AtAudio
  <2>3. p_i+1 = k => packet_list = packet_dict[k].list BY DEF packet_list
  <2>4. k \in Nat /\ Len(packet_dict[k].list) \in Nat BY <1>1, AList
  <2>5. \/ p_i' = p_i /\ p_j' = p_j+1 /\ p_j+1 < Len(packet_list)
        \/ p_i' = p_i+1 /\ p_j' = 0 /\ ~(p_j+1 < Len(packet_list))
    BY DEF NextPacket
  <2>6. PICK i \in Nat, j \in Nat, u \in Nat, v \in Nat, length \in Nat :
          /\ i = p_i /\ j = p_j /\ u = p_i' /\ v = p_j' /\ length = Len(packet_dict[k].list)
    BY <1>1, <1>2, <2>4
  <2>7. /\ m = IF k = i+1 THEN n+1 ELSE n
        /\ (i+1 < k => n = 0) /\ (i+1 = k => n = j /\ j < length) /\ (i+1 > k => n = length)
    BY <1>1, <2>1, <2>2, <2>3, <2>6
  <2>8. \/ u = i /\ v = j+1 /\ (i+1 = k => j+1 < length)
        \/ u = i+1 /\ v = 0 /\ (i+1 = k => ~(j+1 < length))
    BY <2>3, <2>5, <2>6
  <2>9. /\ u+1 < k => m = 0
        /\ u+1 = k => m = v
        /\ u+1 > k => m = length
    BY <2>4, <2>7, <2>8, OneOnward
  <2> QED BY <2>6, <2>9
<1> QED BY <1>3, <1>4 DEF DecodedAudio, Known, AtAudio

LEMMA AudioDecoding ==
  ASSUME Given, TypeInv, FoundInv, AudioInv, DecodePacket PROVE AudioInv'
<1> DEFINE d == packet_list[p_j+1]
<1>0. PICK w : w = DecodeType(d) OBVIOUS
<1>1. /\ p_pass = "decode" /\ p_i < Len(packet_dict) /\ cap' = cap /\ packet_dict' = packet_dict
      /\ arrays' = w.arrays /\ iec60958_cs_raw' = w.raw
      /\ IF w.exc # "" THEN Goto("end") ELSE IF w.stop THEN Goto("report") ELSE p_pass' = p_pass /\ NextPacket
  BY <1>0 DEF DecodePacket
<1>2. p_i+1 \in DOMAIN packet_dict /\ p_j+1 \in DOMAIN packet_list /\ d \in Packet BY <1>1, TheNext
<1>3. CASE w.exc # "" \/ w.stop
  <2>1. p_pass' \in {"end", "report"} BY <1>1, <1>3 DEF Goto
  <2> QED BY <2>1 DEF AudioInv
<1>4. CASE w.exc = "" /\ ~w.stop /\ AllRight
  <2>1. p_pass' = "decode" /\ NextPacket /\ Unharmed(w) BY <1>1, <1>4 DEF Unharmed
  <2>2. PICK n \in Nat : AudioOf(Work, n) /\ DecodedAudio(n) BY <1>1, <1>4 DEF AudioInv
  <2>3. PICK P \in Nat : Whole = 1 .. P /\ Found(packet_dict, P) BY <1>1 DEF FoundInv
  <2>4. PICK m : m = IF AtAudio(p_i+1) THEN n+1 ELSE n OBVIOUS
  <2>5. DecodedAudio(m)' BY <1>1, <2>1, <2>2, <2>4, AudioOnward
  <2>6. packet_dict[p_i+1].type = d.type BY <1>2 DEF TypeInv, DictOk, packet_list
  <2>7. m \in Nat /\ AudioOf(w, m)
    <3>1. CASE AtAudio(p_i+1)
      <4>1. m = n+1 /\ n = p_j BY <1>2, <2>2, <2>4, <3>1 DEF DecodedAudio, AtAudio
      <4>2. PICK q \in Whole : cap.packets[q].type = Samples /\ Ahead(q) = n /\ d = cap.packets[q]
        <5>1. PICK k \in DOMAIN packet_dict : k = p_i+1 /\ Holds(packet_dict[k], P) BY <1>2, <2>3 DEF Found
        <5>2. PICK l \in DOMAIN packet_dict[k].list : l = p_j+1 BY <1>2, <5>1 DEF packet_list
        <5>3. packet_dict[k].type = Samples /\ d = packet_dict[k].list[l] BY <3>1, <5>1, <5>2 DEF AtAudio, packet_list
        <5>4. PICK q \in 1 .. P : cap.packets[q].type = packet_dict[k].type /\ Ahead(q) = l-1 /\ packet_dict[k].list[l] = cap.packets[q]
          BY <5>1 DEF Holds
        <5>5. q \in Whole /\ cap.packets[q].type = Samples /\ d = cap.packets[q] BY <2>3, <5>3, <5>4
        <5>6. Ahead(q) = n
          <6>1. l = n+1 BY <4>1, <5>2
          <6>2. Ahead(q) = l-1 BY <5>4
          <6> QED BY <6>1, <6>2
        <5> HIDE DEF d
        <5> QED BY <5>5, <5>6
      <4>3. Ahead(q) = n /\ IsAudioPacket(q) BY <4>2 DEF IsAudioPacket
      <4>4. AudioOf(Work, Ahead(q)) /\ Unharmed(DecodeType(cap.packets[q])) BY <1>0, <2>1, <2>2, <4>2, <4>3
      <4>5. AudioOf(DecodeType(cap.packets[q]), Ahead(q)+1) BY <1>4, <2>3, <4>3, <4>4, HeardOneMore
      <4> QED BY <1>0, <4>1, <4>2, <4>3, <4>5
    <3>2. CASE ~AtAudio(p_i+1)
      <4>1. w.arrays = arrays /\ w.raw = iec60958_cs_raw BY <1>0, <2>6, <3>2, OthersUnheard DEF AtAudio
      <4>2. w.arrays = Work.arrays /\ w.raw = Work.raw BY <4>1 DEF Work
      <4> QED BY <2>2, <2>4, <3>2, <4>2 DEF AudioOf, AudioUntil, WorkAt, Silent
    <3> QED BY <3>1, <3>2
  <2>8. PICK arr, raw : arr = w.arrays /\ raw = w.raw OBVIOUS
  <2>9. AudioOf(Work, m)' BY <1>1, <2>7, <2>8, SameHeard
  <2>10. \E i \in Nat : AudioOf(Work, i)' /\ DecodedAudio(i)' BY <2>5, <2>7, <2>9
  <2>11. p_pass' # "extract" BY <2>1
  <2> QED BY <2>10, <2>11 DEF AudioInv
<1>5. CASE ~AllRight
  <2>1. p_pass' \in {"end", "report", "decode"} BY <1>1 DEF Goto
  <2>2. ~AllRight' BY <1>1, <1>5, SameCapture DEF AllRight
  <2> QED BY <2>1, <2>2 DEF AudioInv
<1> QED BY <1>3, <1>4, <1>5

------------------------------------------------------------------------------
(* The blocks of a channel.                                                  *)

\* The blocks whose frames are all among F .. Y, if s is the first that begins one.
LEMMA WhichBlocks ==
  ASSUME NEW B \in Nat \ {0, 1}, NEW F \in Nat, NEW Y \in Nat, NEW s \in Nat, F <= s, s <= Y, s % B = 0,
         \A x \in F .. s-1 : x % B # 0, NEW b \in Nat
  PROVE  (\A j \in 0 .. B-1 : B*b + j \in F .. Y) <=>
           /\ s \div B <= b
           /\ b < Y \div B \/ (b = Y \div B /\ Y % B = B-1)
<1>1. PICK c \in Nat : c = B*b OBVIOUS
<1>2. PICK x \in Nat : x = B*b + 0 OBVIOUS
<1>3. PICK y \in Nat : y = B*b + (B-1)
  <2>1. c + (B-1) \in Nat OBVIOUS
  <2> QED BY <1>1, <2>1
<1>4. x \div B = b /\ x % B = 0 /\ y \div B = b /\ y % B = B-1
  <2>1. 0 \in 0 .. B-1 /\ B-1 \in 0 .. B-1 OBVIOUS
  <2> QED BY <2>1, <1>2, <1>3, Divided
<1>5. (\A j \in 0 .. B-1 : B*b + j \in F .. Y) <=> F <= x /\ y <= Y
  <2>1. x = c /\ y = c + (B-1) BY <1>1, <1>2, <1>3
  <2>2. (\A j \in 0 .. B-1 : c + j \in F .. Y) <=> F <= x /\ y <= Y
    <3>1. ASSUME \A j \in 0 .. B-1 : c + j \in F .. Y PROVE F <= x /\ y <= Y
      <4>1. c + 0 \in F .. Y BY <3>1
      <4>2. c + (B-1) \in F .. Y BY <3>1
      <4> QED BY <4>1, <4>2, <2>1
    <3>2. ASSUME F <= x, y <= Y, NEW j \in 0 .. B-1 PROVE c + j \in F .. Y BY <3>2, <2>1
    <3> QED BY <3>1, <3>2
  <2> QED BY <2>2, <1>1
<1>6. F <= x <=> s <= x
  <2>1. F <= x /\ x < s => x \in F .. s-1 OBVIOUS
  <2> QED BY <2>1, <1>4
<1>7. s <= x <=> s \div B <= b
  <2>1. s <= x <=> (s \div B < x \div B \/ (s \div B = x \div B /\ s % B <= x % B)) BY BlockOrder
  <2>2. PICK t \in Nat : t = s \div B BY Divide
  <2>3. s <= x <=> (t < b \/ t = b) BY <2>1, <2>2, <1>4
  <2> QED BY <2>2, <2>3
<1>8. y <= Y <=> b < Y \div B \/ (b = Y \div B /\ Y % B = B-1)
  <2>1. y <= Y <=> (y \div B < Y \div B \/ (y \div B = Y \div B /\ y % B <= Y % B)) BY BlockOrder
  <2>2. PICK q \in Nat : q = Y \div B BY Divide
  <2>3. PICK r \in 0 .. B-1 : r = Y % B BY Divide
  <2>4. y <= Y <=> (b < q \/ (b = q /\ B-1 <= r)) BY <2>1, <2>2, <2>3, <1>4
  <2>5. B-1 <= r <=> r = B-1 BY <2>3
  <2> QED BY <2>2, <2>3, <2>4, <2>5
<1> QED BY <1>5, <1>6, <1>7, <1>8

\* A bit of the source is the place of one frame.
LEMMA BitsOf ==
  ASSUME Given, NEW b \in Nat, NEW j \in 0 .. BlockLen-1, NEW ch
  PROVE  /\ BitOf(BlockLen*b + j, ch) = <<b, j, ch>>
         /\ \A x \in Nat : BitOf(x, ch) = <<b, j, ch>> => x = BlockLen*b + j
<1>0. PICK B \in Nat \ {0, 1} : B = BlockLen BY DEF Given
<1>1. (B*b + j) \div B = b /\ (B*b + j) % B = j BY <1>0, Divided
<1>4. ASSUME NEW x \in Nat, BitOf(x, ch) = <<b, j, ch>> PROVE x = B*b + j
  <2>1. x \div B = b /\ x % B = j BY <1>0, <1>4 DEF BitOf
  <2>2. x = B * (x \div B) + (x % B) BY Divide
  <2> QED BY <2>1, <2>2
<1>5. BitOf(B*b + j, ch) = <<b, j, ch>> BY <1>0, <1>1 DEF BitOf
<1> QED BY <1>0, <1>4, <1>5

\* The frames F .. Y have all bits of a block if and only if they have it whole.
AllBits(b, ch, F, Y) == \A j \in 0 .. BlockLen-1 : \E x \in F .. Y : <<b, j, ch>> = BitOf(x, ch)
LEMMA AllItsBits ==
  ASSUME Given, NEW F \in Nat, NEW Y \in Nat, NEW ch, NEW b \in Nat
  PROVE  AllBits(b, ch, F, Y) <=> \A j \in 0 .. BlockLen-1 : BlockLen*b + j \in F .. Y
<1>1. ASSUME NEW j \in 0 .. BlockLen-1
      PROVE  (\E x \in F .. Y : <<b, j, ch>> = BitOf(x, ch)) <=> BlockLen*b + j \in F .. Y
  <2>1. /\ BitOf(BlockLen*b + j, ch) = <<b, j, ch>>
        /\ \A x \in Nat : BitOf(x, ch) = <<b, j, ch>> => x = BlockLen*b + j
    BY BitsOf
  <2>2. \A x \in F .. Y : x \in Nat OBVIOUS
  <2> QED BY <2>1, <2>2
<1> QED BY <1>1 DEF AllBits

\* The blocks taken from a channel are consecutive, and those that have been heard whole.
LEMMA WholePiece ==
  ASSUME Given, NEW b, NEW ch
  PROVE  SubSeq(Piece(b, BlockLen, ch), 1, BlockLen) = Piece(b, BlockLen, ch)
<1>1. PICK B \in Nat \ {0, 1} : B = BlockLen BY DEF Given
<1>2. PICK s : s = [j \in 1 .. B |-> <<b, j-1, ch>>] OBVIOUS
<1>3. PICK S : S = {<<b, j-1, ch>> : j \in 1 .. B} OBVIOUS
<1>4. s \in Seq(S) /\ Len(s) = B BY <1>2, <1>3
<1>5. SubSeq(s, 1, Len(s)) = s BY <1>4, SubSeqFull
<1> QED BY <1>1, <1>2, <1>4, <1>5 DEF Piece

Heeds(all, raw, ch, F, Y, t, N) ==
  /\ DOMAIN raw = 1 .. N
  /\ \A k \in 1 .. N : SubSeq(all[raw[k]], 1, BlockLen) = Piece(t+k-1, BlockLen, ch)
  /\ \A b \in Nat : b \in t .. t+N-1 <=> AllBits(b, ch, F, Y)

LEMMA HeedsFilled ==
  ASSUME Given, NEW all, NEW raw, NEW ch, NEW F \in Nat, NEW Y \in Nat, NEW s \in F .. Y,
         s % BlockLen = 0, \A x \in F .. s-1 : x % BlockLen # 0,
         Filled(all, raw, ch, s \div BlockLen, Y \div BlockLen, Y % BlockLen)
  PROVE  \E t, N \in Nat : Heeds(all, raw, ch, F, Y, t, N)
<1>1. PICK B \in Nat \ {0, 1} : B = BlockLen BY DEF Given
<1>2. s \in Nat /\ F <= s /\ s <= Y OBVIOUS
<1>3. PICK t \in Nat : t = s \div B BY <1>2, Divide
<1>4. PICK q \in Nat : q = Y \div B BY Divide
<1>5. PICK r \in 0 .. B-1 : r = Y % B BY Divide
<1>6. t <= q
  <2>1. s <= Y <=> (s \div B < Y \div B \/ (s \div B = Y \div B /\ s % B <= Y % B)) BY <1>2, BlockOrder
  <2>2. t < q \/ t = q BY <2>1, <1>2, <1>3, <1>4
  <2> QED BY <2>2
<1>7. Filled(all, raw, ch, t, q, r) BY <1>1, <1>3, <1>4, <1>5
<1>8. PICK N \in Nat : N = q - t + (IF r = B-1 THEN 1 ELSE 0) BY <1>6
<1>9. /\ DOMAIN raw = 1 .. N /\ \A k \in 1 .. N : raw[k] = k+1
  <2>1. Len(all) = q - t + 2 /\ raw = [k \in 1 .. Len(all) - (IF r = B-1 THEN 1 ELSE 2) |-> k+1]
    BY <1>1, <1>7 DEF Filled
  <2>2. Len(all) - (IF r = B-1 THEN 1 ELSE 2) = N BY <2>1, <1>6, <1>8
  <2> QED BY <2>1, <2>2
<1>10. ASSUME NEW k \in 1 .. N PROVE SubSeq(all[raw[k]], 1, BlockLen) = Piece(t+k-1, BlockLen, ch)
  <2>1. PICK l \in Nat : l = k+1 OBVIOUS
  <2>2. l \in 2 .. Len(all) /\ (~(l < Len(all)) => r+1 = B)
    <3>1. Len(all) = q - t + 2 BY <1>7 DEF Filled
    <3> QED BY <3>1, <2>1, <1>6, <1>8
  <2>3. all[l] = Piece(t+l-2, IF l < Len(all) THEN BlockLen ELSE r+1, ch) BY <2>2, <1>7 DEF Filled
  <2>4. all[l] = Piece(t+l-2, BlockLen, ch) BY <2>2, <2>3, <1>1
  <2>5. t+l-2 = t+k-1 BY <2>1
  <2>6. raw[k] = l BY <1>9, <2>1
  <2> QED BY <2>4, <2>5, <2>6, WholePiece
<1>11. ASSUME NEW b \in Nat PROVE b \in t .. t+N-1 <=> AllBits(b, ch, F, Y)
  <2>1. AllBits(b, ch, F, Y) <=> \A j \in 0 .. B-1 : B*b + j \in F .. Y BY <1>1, AllItsBits
  <2>2. (\A j \in 0 .. B-1 : B*b + j \in F .. Y) <=> s \div B <= b /\ (b < Y \div B \/ (b = Y \div B /\ Y % B = B-1))
    <3>1. s % B = 0 /\ \A x \in F .. s-1 : x % B # 0 BY <1>1
    <3>2. s \in Nat /\ F <= s /\ s <= Y BY <1>2
    <3> QED BY <3>1, <3>2, WhichBlocks
  <2>3. t <= b /\ (b < q \/ (b = q /\ r = B-1)) <=> b \in t .. t+N-1 BY <1>6, <1>8
  <2> QED BY <2>1, <2>2, <2>3, <1>3, <1>4, <1>5
<1> QED BY <1>9, <1>10, <1>11 DEF Heeds

LEMMA HeedsChannel ==
  ASSUME Given, NEW all, NEW raw, NEW ch, NEW F \in Nat, NEW X \in Nat, ChannelAt(all, raw, ch, F, X)
  PROVE  \E t, N \in Nat : Heeds(all, raw, ch, F, X-1, t, N)
<1>1. CASE raw = <<>> /\ \A x \in F .. X-1 : x % BlockLen # 0
  <2>1. DOMAIN raw = 1 .. 0 BY <1>1
  <2>2. ASSUME NEW b \in Nat PROVE ~AllBits(b, ch, F, X-1)
    <3>1. 0 \in 0 .. BlockLen-1 BY DEF Given
    <3>2. \A x \in F .. X-1 : <<b, 0, ch>> # BitOf(x, ch) BY <1>1 DEF BitOf
    <3> QED BY <3>1, <3>2 DEF AllBits
  <2>3. \A b \in Nat : ~(b \in 0 .. 0+0-1) OBVIOUS
  <2>4. Heeds(all, raw, ch, F, X-1, 0, 0) BY <2>1, <2>2, <2>3 DEF Heeds
  <2> QED BY <2>4
<1>2. CASE \E s \in F .. X-1 : /\ s % BlockLen = 0 /\ \A x \in F .. s-1 : x % BlockLen # 0
                               /\ Filled(all, raw, ch, s \div BlockLen, (X-1) \div BlockLen, (X-1) % BlockLen)
  <2>1. PICK s \in F .. X-1 : /\ s % BlockLen = 0 /\ \A x \in F .. s-1 : x % BlockLen # 0
                              /\ Filled(all, raw, ch, s \div BlockLen, (X-1) \div BlockLen, (X-1) % BlockLen)
    BY <1>2
  <2>2. X-1 \in Nat OBVIOUS
  <2> QED BY <2>1, <2>2, HeedsFilled
<1> QED BY <1>1, <1>2 DEF ChannelAt

TheSources(blocks, ch) ==
  \A k \in DOMAIN blocks :
    /\ Len(blocks[k]) = BlockLen
    /\ \A j \in 1 .. BlockLen : blocks[k][j] = <<blocks[k][1][1], j-1, ch>>
    /\ k > 1 => blocks[k][1][1] > blocks[k-1][1][1]
Numbers(blocks) == {blocks[k][1][1] : k \in DOMAIN blocks}
Complete(Seen, ch) == {b \in {bit[1] : bit \in Seen} : \A j \in 0 .. BlockLen-1 : <<b, j, ch>> \in Seen}
IsSpan(Seen, ch, F, Y) == \A bit : bit \in Seen <=> \E x \in F .. Y : bit = BitOf(x, ch)
AreTaken(blocks, all, raw) == blocks = [k \in DOMAIN raw |-> SubSeq(all[raw[k]], 1, BlockLen)]
LEMMA BlocksTaken ==
  ASSUME Given, NEW all, NEW raw, NEW ch, NEW F, NEW Y, NEW t \in Nat, NEW N \in Nat, Heeds(all, raw, ch, F, Y, t, N),
         NEW blocks, AreTaken(blocks, all, raw)
  PROVE  TheSources(blocks, ch) /\ Numbers(blocks) = t .. t+N-1
<1>1. PICK B \in Nat \ {0, 1} : B = BlockLen BY DEF Given
<1>2. /\ DOMAIN blocks = 1 .. N
      /\ \A k \in 1 .. N : blocks[k] = Piece(t+k-1, BlockLen, ch)
  BY DEF Heeds, AreTaken
<1>3. ASSUME NEW k \in 1 .. N
      PROVE  /\ Len(blocks[k]) = BlockLen /\ \A j \in 1 .. BlockLen : blocks[k][j] = <<t+k-1, j-1, ch>>
             /\ blocks[k][1][1] = t+k-1
  <2>1. PICK b \in Nat : b = t+k-1 OBVIOUS
  <2>2. Len(Piece(b, B, ch)) = B /\ \A j \in 1 .. B : Piece(b, B, ch)[j] = <<b, j-1, ch>>
    BY PieceIs, Zenon
  <2>3. blocks[k] = Piece(b, B, ch) BY <1>1, <1>2, <2>1
  <2>4. 1 \in 1 .. B /\ 1-1 = 0 OBVIOUS
  <2>5. Piece(b, B, ch)[1] = <<b, 0, ch>>
    <3>1. Piece(b, B, ch)[1] = <<b, 1-1, ch>> BY <2>2, <2>4
    <3> QED BY <3>1, <2>4
  <2>6. blocks[k][1] = <<b, 0, ch>> BY <2>3, <2>5
  <2>7. blocks[k][1][1] = b
    <3>1. <<b, 0, ch>>[1] = b OBVIOUS
    <3> QED BY <2>6, <3>1, Zenon
  <2> QED BY <1>1, <2>1, <2>2, <2>3, <2>7
<1>4. ASSUME NEW k \in 1 .. N, k > 1 PROVE blocks[k][1][1] > blocks[k-1][1][1]
  <2>1. PICK l \in 1 .. N : l = k-1 BY <1>4
  <2>2. PICK x, y : x = blocks[k][1][1] /\ y = blocks[l][1][1] OBVIOUS
  <2>3. x = t+k-1 /\ y = t+l-1 BY <1>3, <2>2
  <2>4. x > y BY <2>1, <2>3
  <2> QED BY <2>1, <2>2, <2>4
<1>5. TheSources(blocks, ch) BY <1>2, <1>3, <1>4 DEF TheSources
<1>6. \A k \in 1 .. N : blocks[k][1][1] \in t .. t+N-1
  <2>1. \A k \in 1 .. N : t+k-1 \in t .. t+N-1 OBVIOUS
  <2> QED BY <2>1, <1>3
<1>7. ASSUME NEW b \in t .. t+N-1 PROVE \E k \in 1 .. N : blocks[k][1][1] = b
  <2>1. PICK k \in 1 .. N : b = t+k-1
    <3>1. b-t+1 \in 1 .. N /\ b = t+(b-t+1)-1 OBVIOUS
    <3> QED BY <3>1
  <2> QED BY <2>1, <1>3
<1>8. {blocks[k][1][1] : k \in 1 .. N} = t .. t+N-1
  <2>1. \A b \in {blocks[k][1][1] : k \in 1 .. N} : b \in t .. t+N-1 BY <1>6
  <2>2. \A b \in t .. t+N-1 : b \in {blocks[k][1][1] : k \in 1 .. N} BY <1>7, Zenon
  <2> QED BY <2>1, <2>2, Zenon
<1> QED BY <1>2, <1>5, <1>8 DEF Numbers

LEMMA BlocksSeen ==
  ASSUME Given, NEW ch, NEW F \in Nat, NEW Y, NEW t \in Nat, NEW N \in Nat, NEW Seen, IsSpan(Seen, ch, F, Y),
         NEW all, NEW raw, Heeds(all, raw, ch, F, Y, t, N)
  PROVE  Complete(Seen, ch) = t .. t+N-1
<1>0. \A b \in Nat : b \in t .. t+N-1 <=> AllBits(b, ch, F, Y) BY DEF Heeds
<1>1. \A b : AllBits(b, ch, F, Y) <=> \A j \in 0 .. BlockLen-1 : <<b, j, ch>> \in Seen BY DEF AllBits, IsSpan
<1>2. \A bit \in Seen : bit[1] \in Nat
  <2> SUFFICES ASSUME NEW x \in F .. Y, NEW bit, bit = BitOf(x, ch) PROVE bit[1] \in Nat BY DEF IsSpan
  <2>1. x \div BlockLen \in Nat
    <3>1. PICK B \in Nat \ {0, 1} : B = BlockLen BY DEF Given
    <3>2. x \in Nat OBVIOUS
    <3> QED BY <3>1, <3>2, Divide
  <2> QED BY <2>1 DEF BitOf
<1>3. \A b : AllBits(b, ch, F, Y) => b \in {bit[1] : bit \in Seen}
  <2>1. 0 \in 0 .. BlockLen-1 BY DEF Given
  <2>2. \A b : AllBits(b, ch, F, Y) => <<b, 0, ch>> \in Seen BY <2>1, <1>1
  <2>3. \A b : <<b, 0, ch>>[1] = b OBVIOUS
  <2> QED BY <2>2, <2>3
<1>4. \A b \in t .. t+N-1 : b \in Nat OBVIOUS
<1> QED BY <1>0, <1>1, <1>2, <1>3, <1>4 DEF Complete

LEMMA AllPassed ==
  ASSUME Given, TypeInv, FoundInv, StopsInv, p_pass = "decode", p_i = Len(packet_dict)
  PROVE  AllRight
<1>1. PICK P \in Nat : Whole = 1 .. P /\ Found(packet_dict, P) BY DEF FoundInv
<1>2. \A k \in DOMAIN packet_dict : k <= p_i BY DEF TypeInv
<1>3. ASSUME NEW p \in Whole PROVE ~Wrong(cap.packets[p])
  <2>1. Places(packet_dict, p) BY <1>1 DEF Found
  <2> QED BY <2>1, <1>2 DEF Places, StopsInv, Passed
<1> QED BY <1>3 DEF AllRight

\* When the last packet has been decoded, those of samples are all there are.
LEMMA AllAudio ==
  ASSUME Given, TypeInv, FoundInv, p_pass = "decode", p_i = Len(packet_dict), NEW n \in Nat, DecodedAudio(n)
  PROVE  AudioPackets(n) = WholeOf(Samples)
<1>1. PICK P \in Nat : Whole = 1 .. P /\ Found(packet_dict, P) BY DEF FoundInv
<1>2. ASSUME NEW q \in Whole, cap.packets[q].type = Samples PROVE Ahead(q) < n
  <2>1. PICK k \in DOMAIN packet_dict : packet_dict[k].type = Samples /\ Ahead(q)+1 \in DOMAIN packet_dict[k].list
    BY <1>1, <1>2 DEF Found, Places
  <2>2. p_i + 1 > k BY DEF TypeInv
  <2>3. n = Len(packet_dict[k].list) BY <2>1, <2>2 DEF DecodedAudio
  <2>4. DOMAIN packet_dict[k].list = 1 .. n BY <2>3, AList
  <2>5. q \in Nat \ {0} BY <1>1
  <2>6. Ahead(q) \in Nat BY <2>5, AheadOrder
  <2> QED BY <2>1, <2>4, <2>6
<1> QED BY <1>2 DEF AudioPackets, WholeOf

LEMMA SeenIsHeard ==
  ASSUME NEW n, AudioPackets(n) = WholeOf(Samples), NEW ch, NEW bit
  PROVE  bit \in BitsSeen(ch) <=> \E q \in AudioPackets(n) : HasBit(q, ch, bit)
BY DEF BitsSeen, HasBit

LEMMA Building ==
  ASSUME Given, TypeInv, FoundInv, StopsInv, AudioInv, p_pass = "decode", p_i = Len(packet_dict),
         NEW ch \in {0, 1}, NEW blocks, blocks = [k \in DOMAIN iec60958_cs_raw[ch] |-> Block(ch, iec60958_cs_raw[ch][k])]
  PROVE  TheSources(blocks, ch) /\ Numbers(blocks) = Complete(BitsSeen(ch), ch)
<1>1. PICK n \in Nat : AudioOf(Work, n) /\ DecodedAudio(n) BY AllPassed DEF AudioInv
<1>2. PICK F \in Nat, X \in Nat : AudioUntil(Work, n, F, X) BY <1>1 DEF AudioOf
<1>3. AudioPackets(n) = WholeOf(Samples) BY <1>1, AllAudio
<1>4. PICK all, raw : all = arrays[ch] /\ raw = iec60958_cs_raw[ch] OBVIOUS
<1>5. ChannelAt(all, raw, ch, F, X)
  <2>1. ChannelAt(Work.arrays[ch], Work.raw[ch], ch, F, X) BY <1>2 DEF AudioUntil, WorkAt
  <2> QED BY <2>1, <1>4 DEF Work
<1>6. PICK t \in Nat, N \in Nat : Heeds(all, raw, ch, F, X-1, t, N) BY <1>5, HeedsChannel
<1>7. PICK Y : Y = X-1 OBVIOUS
<1>8. Heeds(all, raw, ch, F, Y, t, N) BY <1>6, <1>7
<1>9. AreTaken(blocks, all, raw) BY <1>4 DEF Block, AreTaken
<1>10. TheSources(blocks, ch) /\ Numbers(blocks) = t .. t+N-1 BY <1>8, <1>9, BlocksTaken
<1>11. PICK Seen : Seen = BitsSeen(ch) OBVIOUS
<1>12. IsSpan(Seen, ch, F, Y)
  <2>1. ASSUME NEW bit PROVE (\E q \in AudioPackets(n) : HasBit(q, ch, bit)) <=> (\E x \in F .. X-1 : bit = BitOf(x, ch))
    BY <1>2 DEF AudioUntil, HeardAs
  <2>2. ASSUME NEW bit PROVE bit \in Seen <=> \E x \in F .. X-1 : bit = BitOf(x, ch) BY <2>1, <1>3, <1>11, SeenIsHeard
  <2> QED BY <2>2, <1>7 DEF IsSpan
<1>13. Complete(Seen, ch) = t .. t+N-1 BY <1>8, <1>12, BlocksSeen
<1> QED BY <1>10, <1>11, <1>13

LEMMA NoneHeard ==
  ASSUME Given, TypeInv, Silent(Work) PROVE AudioOf(Work, 0)
<1>1. \A p \in Whole : p \in Nat \ {0}
  <2>1. \A p \in Whole : p \in DOMAIN cap.packets BY DEF Whole
  <2>2. PICK length \in Nat : DOMAIN cap.packets = 1 .. length BY DEF TypeInv, Given, IsCapture
  <2> QED BY <2>1, <2>2
<1>2. AudioPackets(0) = {}
  <2>1. \A q \in AudioPackets(0) : Ahead(q) \in Nat /\ Ahead(q) < 0 BY <1>1, AheadOrder DEF AudioPackets
  <2> QED BY <2>1
<1>3. \A x \in 0 .. 0-1 : FALSE OBVIOUS
<1>4. HeardAs(0, 0, 0) BY <1>2, <1>3 DEF HeardAs
<1>5. WorkAt(Work, 0, 0)
  <2>1. \A ch \in {0, 1} : ch \in Channels BY TwoChannels
  <2> QED BY <2>1, <1>3 DEF WorkAt, ChannelAt, Silent
<1>6. AudioUntil(Work, 0, 0, 0) BY <1>2, <1>4, <1>5 DEF AudioUntil
<1> QED BY <1>6 DEF AudioOf

LEMMA AudioNext ==
  ASSUME Given PROVE TypeInv /\ FoundInv /\ AudioInv /\ [PacketsNext]_packet_vars => AudioInv'
<1> SUFFICES ASSUME TypeInv, FoundInv, AudioInv, [PacketsNext]_packet_vars PROVE AudioInv' OBVIOUS
<1>0. ASSUME UNCHANGED audio_vars, cap' = cap, NEW n, AudioOf(Work, n) PROVE AudioOf(Work, n)'
  <2>1. PICK arr, raw : arr = arrays /\ raw = iec60958_cs_raw OBVIOUS
  <2>2. PICK w : w = Work OBVIOUS
  <2>3. w.arrays = arr /\ w.raw = raw BY <2>1, <2>2 DEF Work
  <2>4. arrays' = arr /\ iec60958_cs_raw' = raw BY <1>0, <2>1 DEF audio_vars
  <2> QED BY <1>0, <2>2, <2>3, <2>4, SameHeard
<1>1. CASE ExtractPixel
  <2>1. p_pass = "extract" /\ p_pass' \in {"extract", "end"} /\ UNCHANGED audio_vars
    BY <1>1 DEF ExtractPixel, Goto
  <2>2. Silent(Work)' BY <2>1 DEF AudioInv, Silent, Work, audio_vars
  <2> QED BY <2>1, <2>2 DEF AudioInv
<1>2. CASE CheckEcc
  <2>1. /\ p_pass = "extract" /\ p_pass' \in {"decode", "report"} /\ p_i' = 0 /\ p_j' = 0
        /\ cap' = cap /\ packet_dict' = packet_dict /\ UNCHANGED audio_vars
    BY <1>2 DEF CheckEcc, GotoUnlessStopped, Goto
  <2>2. AudioOf(Work, 0)' BY <2>1, <1>0, NoneHeard DEF AudioInv
  <2>3. DecodedAudio(0)'
    <3>1. \A k \in DOMAIN packet_dict : ~(0+1 > k) BY DEF TypeInv
    <3> QED BY <2>1, <3>1 DEF DecodedAudio
  <2>4. \E n \in Nat : AudioOf(Work, n)' /\ DecodedAudio(n)' BY <2>2, <2>3
  <2>5. p_pass' # "extract" BY <2>1
  <2> QED BY <2>4, <2>5 DEF AudioInv
<1>3. CASE DecodePacket BY <1>3, AudioDecoding
<1>4. CASE BuildBlocks \/ Compare \/ Report
  <2>1. p_pass' \in {"compare", "report", "end"} BY <1>4 DEF BuildBlocks, Compare, Report, Goto
  <2> QED BY <2>1 DEF AudioInv
<1>5. CASE UNCHANGED packet_vars
  <2>1. /\ cap' = cap /\ p_pass' = p_pass /\ p_i' = p_i /\ p_j' = p_j /\ packet_dict' = packet_dict
        /\ UNCHANGED audio_vars
    BY <1>5 DEF packet_vars
  <2>2. p_pass = "extract" => Silent(Work)' BY <2>1 DEF AudioInv, Silent, Work, audio_vars
  <2>3. AllRight' <=> AllRight BY <2>1, SameCapture DEF AllRight
  <2>4. ASSUME p_pass = "decode", AllRight PROVE \E n \in Nat : AudioOf(Work, n)' /\ DecodedAudio(n)'
    <3>1. PICK n \in Nat : AudioOf(Work, n) /\ DecodedAudio(n) BY <2>4 DEF AudioInv
    <3>2. AudioOf(Work, n)' BY <2>1, <3>1, <1>0
    <3>3. DecodedAudio(n)' BY <2>1, <3>1 DEF DecodedAudio, Known
    <3> QED BY <3>2, <3>3
  <2> QED BY <2>1, <2>2, <2>3, <2>4 DEF AudioInv
<1> QED BY <1>1, <1>2, <1>3, <1>4, <1>5 DEF PacketsNext

\* The blocks, once they are built, are those of the source.
BlocksInv == BlocksAreTheSources /\ NoBlockIsMissed
LEMMA BlocksAtFirst == ASSUME PacketsInit PROVE BlocksInv
<1>1. p_pass # "compare" /\ \A ch \in Channels : iec60958_cs[ch] = <<>> BY DEF PacketsInit
<1> QED BY <1>1 DEF BlocksInv, BlocksAreTheSources, NoBlockIsMissed

LEMMA OnBuilding ==
  ASSUME Given, TypeInv, FoundInv, StopsInv, AudioInv, BuildBlocks PROVE BlocksInv'
<1>1. /\ p_pass = "decode" /\ p_i = Len(packet_dict) /\ cap' = cap
      /\ iec60958_cs' = [ch \in Channels |-> [k \in DOMAIN iec60958_cs_raw[ch] |-> Block(ch, iec60958_cs_raw[ch][k])]]
  BY DEF BuildBlocks
<1>2. ASSUME NEW ch \in {0, 1}
      PROVE  TheSources(iec60958_cs'[ch], ch) /\ Numbers(iec60958_cs'[ch]) = Complete(BitsSeen(ch), ch)
  <2>1. PICK blocks : blocks = [k \in DOMAIN iec60958_cs_raw[ch] |-> Block(ch, iec60958_cs_raw[ch][k])] OBVIOUS
  <2>2. iec60958_cs'[ch] = blocks BY <1>1, <2>1, TwoChannels
  <2> QED BY <1>1, <2>1, <2>2, Building
<1>3. ASSUME NEW ch \in Channels \ {0, 1} PROVE iec60958_cs'[ch] = <<>>
  <2>1. PICK n \in Nat : AudioOf(Work, n) BY <1>1, AllPassed DEF AudioInv
  <2>2. iec60958_cs_raw[ch] = <<>> BY <2>1 DEF AudioOf, AudioUntil, WorkAt, Work
  <2> QED BY <1>1, <2>2
<1>4. BlocksAreTheSources'
  <2>1. ASSUME NEW ch \in Channels PROVE TheSources(iec60958_cs'[ch], ch)
    <3>1. CASE ch \in {0, 1} BY <3>1, <1>2
    <3>2. CASE ch \notin {0, 1} BY <3>2, <1>3 DEF TheSources
    <3> QED BY <3>1, <3>2
  <2> QED BY <2>1 DEF BlocksAreTheSources, TheSources
<1>5. NoBlockIsMissed'
  <2>1. \A ch : BitsSeen(ch)' = BitsSeen(ch) BY <1>1, SameCapture DEF BitsSeen
  <2> QED BY <2>1, <1>2 DEF NoBlockIsMissed, Numbers, Complete
<1> QED BY <1>4, <1>5 DEF BlocksInv

LEMMA BlocksNext ==
  ASSUME Given
  PROVE  TypeInv /\ FoundInv /\ StopsInv /\ AudioInv /\ BlocksInv /\ [PacketsNext]_packet_vars => BlocksInv'
<1> SUFFICES ASSUME TypeInv, FoundInv, StopsInv, AudioInv, BlocksInv, [PacketsNext]_packet_vars PROVE BlocksInv' OBVIOUS
<1>1. CASE BuildBlocks BY <1>1, OnBuilding
<1>2. CASE ExtractPixel \/ CheckEcc \/ DecodePacket \/ Compare \/ Report
  <2>1. iec60958_cs' = iec60958_cs
    BY <1>2 DEF ExtractPixel, CheckEcc, DecodePacket, Compare, Report
  <2>2. p_pass' # "compare"
    <3>1. CASE ExtractPixel BY <3>1 DEF ExtractPixel, Goto
    <3>2. CASE CheckEcc BY <3>2 DEF CheckEcc, GotoUnlessStopped, Goto
    <3>3. CASE DecodePacket
      <4>1. p_pass = "decode" /\ p_pass' \in {"end", "report", "decode"} BY <3>3 DEF DecodePacket, Goto
      <4> QED BY <4>1
    <3>4. CASE Compare \/ Report BY <3>4 DEF Compare, Report, Goto
    <3> QED BY <1>2, <3>1, <3>2, <3>3, <3>4
  <2>3. BlocksAreTheSources' BY <2>1 DEF BlocksInv, BlocksAreTheSources
  <2>4. NoBlockIsMissed' BY <2>2 DEF NoBlockIsMissed
  <2> QED BY <2>3, <2>4 DEF BlocksInv
<1>3. CASE UNCHANGED packet_vars
  <2>1. cap' = cap /\ p_pass' = p_pass /\ iec60958_cs' = iec60958_cs BY <1>3 DEF packet_vars
  <2>2. \A ch : BitsSeen(ch)' = BitsSeen(ch) BY <2>1, SameCapture DEF BitsSeen
  <2>3. BlocksAreTheSources' BY <2>1 DEF BlocksInv, BlocksAreTheSources
  <2>4. NoBlockIsMissed'
    <3>1. NoBlockIsMissed BY DEF BlocksInv
    <3> QED BY <2>1, <2>2, <3>1 DEF NoBlockIsMissed
  <2> QED BY <2>3, <2>4 DEF BlocksInv
<1> QED BY <1>1, <1>2, <1>3 DEF PacketsNext

\* The four parts of the property together: the types, the packets that are found, the
\* blocks that are put together from them, and that none is left out.  For every capture
\* that is a stretch of packets and frames, whatever its length and wherever it is cut.
THEOREM PacketsAreRight == ASSUME Given PROVE PacketsSpec => []PacketsAreTheSources
<1>1. PacketsSpec => []BlocksInv
  BY TypesAtFirst, TypeNext, FoundAtFirst, FoundNext, StopsAtFirst, StopsNext, AudioAtFirst, AudioNext,
     BlocksAtFirst, BlocksNext, PTL DEF PacketsSpec
<1>2. PacketTypes /\ PacketsAreFound /\ BlocksInv => PacketsAreTheSources BY DEF PacketsAreTheSources, BlocksInv
<1> QED BY <1>1, <1>2, TypeCorrect, PacketsFound, PTL
=============================================================================
