------------------------------ MODULE TmdsDecode ------------------------------
(***************************************************************************)
(* tmds_cap.py, "decode (tmds[] => tmds_p, tmds_c, tmds_sync)": the client *)
(* of the TMDS capture design sorts the captured pixels into control,      *)
(* preamble, guardband, data island and video periods, in passes over the  *)
(* whole capture.  A pass handles one pixel per step; a pass that finds an *)
(* error breaks off and sets stop, and the later passes are skipped.       *)
(*                                                                         *)
(* A pixel is three channel symbols and, for the properties only, what the *)
(* source meant by it.  The ten bit characters are abstracted to the       *)
(* classes that the tables of spec/tmds.py tell apart (module TmdsCode has *)
(* the characters themselves):                                             *)
(*   c0..c3   control characters with their C value                        *)
(*   t0..t3   TERC4 characters, by the low two bits of their value         *)
(*   g        TERC4 value 8, the video guardband of channels 0 and 2       *)
(*   d        the data guardband, and the video guardband of channel 1     *)
(*   v        any other video character                                    *)
(*   x        a character in none of the tables                            *)
(***************************************************************************)
EXTENDS Integers, Sequences, FiniteSets

CONSTANTS
  PRE_LEN, GB_LEN,                 \* lengths of a preamble, of a guardband
  PACKET_LEN, PACKET_MAX,          \* pixels of a packet, packets of an island
  CTRL_PERIOD_LEN_MIN,
  Captures,                        \* the captures considered
  outfile_dec                      \* TRUE: option -w is given

VARIABLES
  tmds,        \* the capture: a sequence of pixels
  pass,        \* the loop being run
  ch, i,       \* loop variables; i counts from 0, or from -1 (see preambles)
  m_protocol, m_start,
  tmds_ch_p,   \* period flags per channel and pixel
  tmds_c,      \* C value per channel and pixel, -1 if it is no control
  tmds_p,      \* overall period flags
  tmds_sync,   \* bit 0 = h sync, bit 1 = v sync; -1 if unknown
  p_count, p_type, sync,
  error,       \* the last message printed, "none" before
  stop,
  file         \* the decoded data file, <<>> if there is none

results == <<m_protocol, m_start, tmds_ch_p, tmds_c, tmds_p, tmds_sync>>
vars == <<tmds, pass, ch, i, results, p_count, p_type, sync, error, stop, file>>

Channel == 0 .. 2
Ctrl  == {"c0", "c1", "c2", "c3"}
Terc4 == {"t0", "t1", "t2", "t3", "g"}
Symbol == Ctrl \cup Terc4 \cup {"d", "v", "x"}
video_gb == <<"g", "d", "g">>
CIndex == [c0 |-> 0, c1 |-> 1, c2 |-> 2, c3 |-> 3]
\* spec.tmds.terc4.index(...) & 3
Terc4Low == [t0 |-> 0, t1 |-> 1, t2 |-> 2, t3 |-> 3, g |-> 0]

ChannelFlag == {"CTRL", "VIDEO_GB", "VIDEO", "DATA", "DATA_GB_LEADING", "DATA_GB_TRAILING"}
Flag == ChannelFlag \cup {"VIDEO_PRE", "DATA_PRE"}

ASSUME LengthAssumption ==
  /\ PRE_LEN \in Nat \ {0} /\ GB_LEN \in Nat \ {0}
  /\ PACKET_LEN \in Nat \ {0} /\ PACKET_MAX \in Nat \ {0}
  /\ CTRL_PERIOD_LEN_MIN \in Nat
\* A captured pixel; what the source meant, and whether the capture lost a pixel
\* before this one (its FIFO may overflow), are part of it.
Pixel == [sym : [Channel -> Symbol], sent : STRING, hv : 0 .. 3, lost : BOOLEAN]
ASSUME CaptureAssumption == \A s \in Captures : s \in Seq(Pixel) /\ Len(s) > 0

n == Len(tmds)
Pixels == 0 .. n-1
Sym(c, k) == tmds[k+1].sym[c]

\* The definitions ending in ...Only, ...Unchecked, ...Swapped and the like are
\* slips of the code; PROJECT.json names the property that catches each.
TerseTable(c, s) ==   \* a video table without the TERC4 and guardband entries
  (IF s \in Ctrl THEN {"CTRL"} ELSE {})
  \cup (IF s = video_gb[c+1] THEN {"VIDEO_GB"} ELSE {})
  \cup (IF s = "v" THEN {"VIDEO"} ELSE {})
  \cup (IF c > 0 /\ s = "d" THEN {"DATA_GB_LEADING", "DATA_GB_TRAILING"} ELSE {})
  \cup (IF s \in Terc4 THEN {"DATA"} ELSE {})
EagerPreamble(c, s) ==   \* a preamble decided from one channel
  IF s \in Ctrl THEN {"CTRL", "VIDEO_PRE"} ELSE IF s = "x" THEN {} ELSE {"VIDEO"}
\* A video character is any of the table: all but the controls and x.
ChannelPeriods(c, s) ==
  (IF s \in Ctrl THEN {"CTRL"} ELSE {})
  \cup (IF s = video_gb[c+1] THEN {"VIDEO_GB"} ELSE {})
  \cup (IF s \notin Ctrl \cup {"x"} THEN {"VIDEO"} ELSE {})
  \cup (IF c > 0 /\ s = "d" THEN {"DATA_GB_LEADING", "DATA_GB_TRAILING"} ELSE {})
  \cup (IF s \in Terc4 THEN {"DATA"} ELSE {})

Init ==
  /\ tmds \in Captures
  /\ pass = "prelim" /\ ch = 0 /\ i = 0
  /\ m_protocol = "DVI" /\ m_start = -1
  /\ tmds_ch_p = [c \in Channel |-> [k \in Pixels |-> {}]]
  /\ tmds_c = [c \in Channel |-> [k \in Pixels |-> -1]]
  /\ tmds_p = [k \in Pixels |-> {}]
  /\ tmds_sync = [k \in Pixels |-> -1]
  /\ p_count = 0 /\ p_type = "" /\ sync = -1
  /\ error = "none" /\ stop = FALSE
  /\ file = <<>>

------------------------------------------------------------------------------
(* The loops.  A pass whose loop is over, or broken off, goes to the next. *)

NextPass == [prelim |-> "resolve", resolve |-> "preambles", preambles |-> "islands",
             islands |-> "video", video |-> "syncs", syncs |-> "write"]

\* The next pass begins with p_count = 0 and p_type = ''; with stop every
\* "if not stop" is skipped, down to the writing of the file.
NewPass(halt, start) ==
  /\ pass' = IF halt THEN "write" ELSE NextPass[pass]
  /\ i' = IF pass = "resolve" /\ ~halt THEN start ELSE 0
  /\ p_count' = 0 /\ p_type' = ""
Loop(start) == IF i = n-1 THEN NewPass(FALSE, start)
               ELSE /\ i' = i + 1
                    /\ UNCHANGED <<pass, p_count, p_type>>
Break(what) ==
  /\ error' = what /\ stop' = TRUE
  /\ NewPass(TRUE, 0)

\* "preliminary period detection per channel": an illegal character ends the
\* loop of its channel only.
NextChannel == IF ch = 2 THEN NewPass(stop', 0) /\ ch' = 0
               ELSE /\ ch' = ch + 1 /\ i' = 0
                    /\ UNCHANGED <<pass, p_count, p_type>>
PrelimDetect ==
  LET s == Sym(ch, i)
      p == ChannelPeriods(ch, s) IN
  /\ pass = "prelim"
  /\ IF s \in Ctrl
     THEN /\ tmds_c' = [tmds_c EXCEPT ![ch][i] = CIndex[s]]
          /\ m_protocol' = IF ch > 0 /\ CIndex[s] > 0 THEN "HDMI" ELSE m_protocol
     ELSE UNCHANGED <<tmds_c, m_protocol>>
  /\ \/ /\ p = {}
        /\ error' = "illegal TMDS character" /\ stop' = TRUE
        /\ UNCHANGED tmds_ch_p
        /\ NextChannel
     \/ /\ p # {}
        /\ tmds_ch_p' = [tmds_ch_p EXCEPT ![ch][i] = p]
        /\ UNCHANGED <<error, stop>>
        /\ IF i = n-1 THEN NextChannel
           ELSE i' = i + 1 /\ UNCHANGED <<pass, ch, p_count, p_type>>
  /\ UNCHANGED <<tmds, m_start, tmds_p, tmds_sync, sync, file>>

\* Python's index -1 is the last element.
At(k) == k % n
AnyChannel(f, k) == \E c \in Channel : f \in tmds_ch_p[c][k]
AllChannels(f, k) == \A c \in Channel : f \in tmds_ch_p[c][k]

\* "resolve control periods".  p_count is never incremented here, so the
\* check of CTRL_PERIOD_LEN_MIN never reports anything.
ResolveControl ==
  /\ pass = "resolve"
  /\ \/ /\ AnyChannel("CTRL", i) /\ AllChannels("CTRL", i)
        /\ tmds_p' = [tmds_p EXCEPT ![i] = {"CTRL"}]
        /\ m_start' = IF m_start = -1 /\ tmds_c[1][i] = 0 /\ tmds_c[2][i] = 0
                      THEN i ELSE m_start
        /\ UNCHANGED <<error, stop>>
        /\ Loop(m_start')
     \/ /\ AnyChannel("CTRL", i) /\ ~AllChannels("CTRL", i)
        /\ UNCHANGED <<tmds_p, m_start>>
        /\ Break("control period channel misalignment")
     \/ /\ ~AnyChannel("CTRL", i)
        /\ UNCHANGED <<tmds_p, m_start>>
        /\ IF p_count > 0 /\ p_count < CTRL_PERIOD_LEN_MIN
           THEN Break("control period too short")
           ELSE UNCHANGED <<error, stop>> /\ Loop(m_start)
  /\ UNCHANGED <<tmds, ch, m_protocol, tmds_ch_p, tmds_c, tmds_sync, sync, file>>

\* "detect preambles", from m_start; from -1, the last pixel, if there was no
\* control pixel with CTL = 0.
PreambleOf == [ctl \in {<<0, 0>>, <<1, 0>>, <<1, 1>>} |->
                 CASE ctl = <<0, 0>> -> {}
                   [] ctl = <<1, 0>> -> {"VIDEO_PRE"}
                   [] ctl = <<1, 1>> -> {"DATA_PRE"}]
DetectPreambles ==
  LET k == At(i)
      ctl == <<tmds_c[1][k], tmds_c[2][k]>> IN
  /\ pass = "preambles"
  /\ IF "CTRL" \notin tmds_p[k]
     THEN UNCHANGED <<tmds_p, error, stop>> /\ Loop(0)
     ELSE IF ctl \in DOMAIN PreambleOf
     THEN /\ tmds_p' = [tmds_p EXCEPT ![k] = @ \cup PreambleOf[ctl]]
          /\ UNCHANGED <<error, stop>> /\ Loop(0)
     ELSE UNCHANGED tmds_p /\ Break("illegal control period CTL value")
  /\ UNCHANGED <<tmds, ch, m_protocol, m_start, tmds_ch_p, tmds_c, tmds_sync, sync, file>>

------------------------------------------------------------------------------
(* "check preambles and detect data islands": a machine over p_type.       *)

IsVideoGb(k) == AllChannels("VIDEO_GB", k)
IsData(k)    == AllChannels("DATA", k)
IsDataGb(k)  == /\ "DATA" \in tmds_ch_p[0][k]
                /\ "DATA_GB_LEADING" \in tmds_ch_p[1][k] \cap tmds_ch_p[2][k]

Advance(type, count) ==
  /\ UNCHANGED <<error, stop>>
  /\ IF i = n-1 THEN NewPass(FALSE, 0)
     ELSE /\ i' = i + 1 /\ UNCHANGED pass
          /\ p_type' = type /\ p_count' = count
\* The pixel is one of the period type, the count-th of it.
Mark(f, type, count) ==
  /\ tmds_p' = [tmds_p EXCEPT ![i] = @ \cup f]
  /\ Advance(type, count)
Same(f) == Mark(f, p_type, p_count + 1)
Fail(what) == UNCHANGED tmds_p /\ Break(what)

InPreamble(pre, isGb, gb, next) ==
  IF pre \in tmds_p[i] THEN Same({})
  ELSE IF p_count # PRE_LEN THEN Fail("bad preamble length")
  ELSE IF isGb THEN Mark({gb}, next, 1)
  ELSE Fail("expected guardband after preamble")

InVideoGb ==
  IF IsVideoGb(i) THEN Same({"VIDEO_GB"})
  ELSE IF p_count # GB_LEN THEN Fail("bad video guardband length")
  ELSE Mark({}, "", 0)

\* After the leading guardband the message is printed with printf, a name
\* that does not exist: the program dies with an exception.
InDataGbLeading ==
  IF IsDataGb(i) THEN Same({"DATA_GB_LEADING"})
  ELSE IF p_count # GB_LEN THEN Fail("bad leading data guardband length")
  ELSE IF IsData(i) THEN Mark({"DATA"}, "data", 1)
  ELSE /\ pass' = "exception" /\ error' = "NameError: printf"
       /\ UNCHANGED <<tmds_p, i, p_count, p_type, stop>>

InDataUnchecked ==
  IF IsData(i) THEN Same({"DATA"})
  ELSE IF p_count \div PACKET_LEN > PACKET_MAX THEN Fail("too many consecutive data packets")
  ELSE IF IsDataGb(i) THEN Mark({"DATA_GB_TRAILING"}, "data_gb_trailing", 1)
  ELSE Fail("expected trailing data guardband after data")
InDataNoTrailing ==   \* an island over at the first pixel of its guardband
  IF IsData(i) THEN Same({"DATA"})
  ELSE IF p_count % PACKET_LEN # 0 THEN Fail("non-integer multiple of data packets")
  ELSE IF p_count \div PACKET_LEN > PACKET_MAX THEN Fail("too many consecutive data packets")
  ELSE IF IsDataGb(i) THEN Mark({"DATA_GB_TRAILING"}, "", 0)
  ELSE Fail("expected trailing data guardband after data")
InData ==
  IF IsData(i) THEN Same({"DATA"})
  ELSE IF p_count % PACKET_LEN # 0 THEN Fail("non-integer multiple of data packets")
  ELSE IF p_count \div PACKET_LEN > PACKET_MAX THEN Fail("too many consecutive data packets")
  ELSE IF IsDataGb(i) THEN Mark({"DATA_GB_TRAILING"}, "data_gb_trailing", 1)
  ELSE Fail("expected trailing data guardband after data")

\* The control pixel that ends an island is not looked at for a preamble.
InDataGbTrailing ==
  IF IsDataGb(i) THEN Same({"DATA_GB_TRAILING"})
  ELSE IF p_count # GB_LEN THEN Fail("bad trailing data guardband length")
  ELSE IF "CTRL" \notin tmds_p[i] THEN Fail("expected control period after data island")
  ELSE Mark({}, "", 0)

OutsideLate ==   \* the first pixel of a preamble not counted
  IF "VIDEO_PRE" \in tmds_p[i] THEN Mark({}, "video_pre", 0)
  ELSE IF "DATA_PRE" \in tmds_p[i] THEN Mark({}, "data_pre", 0)
  ELSE Mark({}, p_type, p_count)
Outside ==
  IF "VIDEO_PRE" \in tmds_p[i] THEN Mark({}, "video_pre", 1)
  ELSE IF "DATA_PRE" \in tmds_p[i] THEN Mark({}, "data_pre", 1)
  ELSE Mark({}, p_type, p_count)

DetectIslands ==
  /\ pass = "islands"
  /\ \/ /\ p_type = "video_pre"
        /\ InPreamble("VIDEO_PRE", IsVideoGb(i), "VIDEO_GB", "video_gb")
     \/ /\ p_type = "data_pre"
        /\ InPreamble("DATA_PRE", IsDataGb(i), "DATA_GB_LEADING", "data_gb_leading")
     \/ p_type = "video_gb" /\ InVideoGb
     \/ p_type = "data_gb_leading" /\ InDataGbLeading
     \/ p_type = "data" /\ InData
     \/ p_type = "data_gb_trailing" /\ InDataGbTrailing
     \/ p_type = "" /\ Outside
  /\ UNCHANGED <<tmds, ch, m_protocol, m_start, tmds_ch_p, tmds_c, tmds_sync, sync, file>>

------------------------------------------------------------------------------
\* "detect video periods"; the source calls its error impossible.
NON_VIDEO == "non-video characters found in video period"
DetectVideo ==
  /\ pass = "video"
  /\ IF tmds_p[i] # {} THEN UNCHANGED <<tmds_p, error, stop>> /\ Loop(0)
     ELSE IF AllChannels("VIDEO", i)
     THEN /\ tmds_p' = [tmds_p EXCEPT ![i] = {"VIDEO"}]
          /\ UNCHANGED <<error, stop>> /\ Loop(0)
     ELSE Fail(NON_VIDEO)
  /\ UNCHANGED <<tmds, ch, m_protocol, m_start, tmds_ch_p, tmds_c, tmds_sync, sync, file>>

\* "resolve syncs": "assumption - sync states persist after control and data
\* periods".
SyncControlOnly(k) == IF "CTRL" \in tmds_p[k] THEN tmds_c[0][k] ELSE sync
SyncAt(k) ==
  IF "CTRL" \in tmds_p[k] THEN tmds_c[0][k]
  ELSE IF tmds_p[k] \cap {"DATA", "DATA_GB_LEADING", "DATA_GB_TRAILING"} # {}
       THEN Terc4Low[Sym(0, k)]
       ELSE sync
ResolveSyncs ==
  /\ pass = "syncs"
  /\ sync' = SyncAt(i)
  /\ tmds_sync' = [tmds_sync EXCEPT ![i] = sync']
  /\ Loop(0)
  /\ UNCHANGED <<tmds, ch, m_protocol, m_start, tmds_ch_p, tmds_c, tmds_p, error, stop, file>>

\* "write decoded data to file", with option -w, whether or not the decode
\* stopped.  'I' cannot pack the -1 of m_start.
Protocol01(name) == IF name = "HDMI" THEN 1 ELSE 0
DecodedDataSwapped ==
  <<n, m_start, Protocol01(m_protocol),
    tmds, tmds_ch_p[2], tmds_c[2], tmds, tmds_ch_p[1], tmds_c[1],
    tmds, tmds_ch_p[0], tmds_c[0], tmds_p, tmds_sync>>
DecodedData ==
  <<n, m_start, Protocol01(m_protocol),
    tmds, tmds_ch_p[0], tmds_c[0], tmds, tmds_ch_p[1], tmds_c[1],
    tmds, tmds_ch_p[2], tmds_c[2], tmds_p, tmds_sync>>
WriteDecoded ==
  /\ pass = "write"
  /\ IF ~outfile_dec THEN pass' = "done" /\ UNCHANGED <<error, file>>
     ELSE IF m_start = -1
     THEN pass' = "exception" /\ error' = "struct.error" /\ UNCHANGED file
     ELSE pass' = "done" /\ file' = DecodedData /\ UNCHANGED error
  /\ UNCHANGED <<tmds, ch, i, results, p_count, p_type, sync, stop>>

\* A later run of the program with option -r: it starts from the file alone.
ReadDecoded ==
  /\ pass = "done" /\ file # <<>>
  /\ pass' = "read"
  /\ tmds' = file[4]
  /\ m_start' = file[2]
  /\ m_protocol' = IF file[3] = 1 THEN "HDMI" ELSE "DVI"
  /\ tmds_ch_p' = [c \in Channel |-> file[5 + 3*c]]
  /\ tmds_c' = [c \in Channel |-> file[6 + 3*c]]
  /\ tmds_p' = file[13] /\ tmds_sync' = file[14]
  /\ ch' = 0 /\ i' = 0 /\ p_count' = 0 /\ p_type' = "" /\ sync' = -1
  /\ error' = "none" /\ stop' = FALSE
  /\ UNCHANGED file

Next == \/ PrelimDetect \/ ResolveControl \/ DetectPreambles \/ DetectIslands
        \/ DetectVideo \/ ResolveSyncs \/ WriteDecoded \/ ReadDecoded
Spec == Init /\ [][Next]_vars
------------------------------------------------------------------------------
(* Properties.                                                             *)

Messages ==
  {"none", "illegal TMDS character", "control period channel misalignment",
   "control period too short", "illegal control period CTL value",
   "bad preamble length", "expected guardband after preamble",
   "bad video guardband length", "bad leading data guardband length",
   "NameError: printf", "non-integer multiple of data packets",
   "too many consecutive data packets", "expected trailing data guardband after data",
   "bad trailing data guardband length", "expected control period after data island",
   NON_VIDEO, "struct.error"}
TypeOK ==
  /\ tmds \in Seq(Pixel)
  /\ pass \in DOMAIN NextPass \cup {"write", "done", "read", "exception"}
  /\ ch \in Channel /\ i \in -1 .. n-1
  /\ m_protocol \in {"DVI", "HDMI"} /\ m_start \in -1 .. n-1
  /\ tmds_ch_p \in [Channel -> [Pixels -> SUBSET ChannelFlag]]
  /\ tmds_c \in [Channel -> [Pixels -> -1 .. 3]]
  /\ tmds_p \in [Pixels -> SUBSET Flag]
  /\ tmds_sync \in [Pixels -> -1 .. 3]
  /\ p_count \in 0 .. n
  /\ p_type \in {"", "video_pre", "video_gb", "data_pre", "data_gb_leading",
                 "data", "data_gb_trailing"}
  /\ sync \in -1 .. 3
  /\ error \in Messages /\ stop \in BOOLEAN
  /\ (file = <<>> \/ Len(file) = 14)

\* What the source puts on the wire for each period it means to send.
ControlSym == <<"c0", "c1", "c2", "c3">>
SentAs(k) ==
  LET q == tmds[k+1]
      ctl(a, b) == q.sym[0] = ControlSym[q.hv + 1] /\ q.sym[1] = a /\ q.sym[2] = b
      hv0 == q.sym[0] \in Terc4 /\ Terc4Low[q.sym[0]] = q.hv IN
  CASE q.sent = "CTRL"      -> ctl("c0", "c0")
    [] q.sent = "VIDEO_PRE" -> ctl("c1", "c0")
    [] q.sent = "DATA_PRE"  -> ctl("c1", "c1")
    [] q.sent = "VIDEO_GB"  -> \A c \in Channel : q.sym[c] = video_gb[c+1]
    [] q.sent \in {"DATA_GB_LEADING", "DATA_GB_TRAILING"}
                            -> hv0 /\ q.sym[1] = "d" /\ q.sym[2] = "d"
    [] q.sent = "DATA"      -> hv0 /\ q.sym[1] \in Terc4 /\ q.sym[2] \in Terc4
    [] q.sent = "VIDEO"     -> \A c \in Channel : q.sym[c] \notin Ctrl \cup {"x"}
    [] OTHER                -> FALSE     \* a period no source may send
Faults == {k \in Pixels : ~SentAs(k) \/ tmds[k+1].lost}
\* A video period whose first pixel looks like its guardband.
LooksLikeGb == \E k \in 1 .. n-1 : /\ Sym(0, k) = "g" /\ Sym(1, k) = "d" /\ Sym(2, k) = "g"
                                   /\ tmds[k+1].sent = "VIDEO" /\ tmds[k].sent = "VIDEO_GB"

FlagsOf(period) == IF period \in {"VIDEO_PRE", "DATA_PRE"} THEN {"CTRL", period} ELSE {period}
SortedAsSent(k) == tmds_p[k] = FlagsOf(tmds[k+1].sent)
FromStart == {k \in Pixels : k >= m_start}
Completed == pass = "done" /\ error = "none"

\* What a source may send after what, for the m periods s[0] .. s[m-1]: a
\* preamble, a guardband and an island that is not cut off by either end is of
\* its length; and the sync levels rest while video is sent.
Sent(k) == tmds[k+1].sent
After == [CTRL |-> {"CTRL", "VIDEO_PRE", "DATA_PRE", "VIDEO"},
          VIDEO_PRE |-> {"VIDEO_PRE", "VIDEO_GB"}, VIDEO_GB |-> {"VIDEO_GB", "VIDEO"},
          VIDEO |-> {"VIDEO", "CTRL"},
          DATA_PRE |-> {"DATA_PRE", "DATA_GB_LEADING"}, DATA_GB_LEADING |-> {"DATA_GB_LEADING", "DATA"},
          DATA |-> {"DATA", "DATA_GB_TRAILING"}, DATA_GB_TRAILING |-> {"DATA_GB_TRAILING", "CTRL"}]
RunIn(s, f, a, b) == \A k \in a .. b : s[k] = f
MayLast(f, length) ==
  CASE f \in {"VIDEO_PRE", "DATA_PRE"} -> length = PRE_LEN
    [] f \in {"VIDEO_GB", "DATA_GB_LEADING", "DATA_GB_TRAILING"} -> length = GB_LEN
    [] f = "DATA" -> length % PACKET_LEN = 0 /\ length \div PACKET_LEN <= PACKET_MAX
    [] OTHER -> TRUE
Follows(s, m) ==
  /\ \A k \in 1 .. m-1 : s[k] \in After[s[k-1]]
  /\ \A a \in 1 .. m-2 : \A b \in a .. m-2 :
       RunIn(s, s[a], a, b) /\ s[a-1] # s[a] /\ s[b+1] # s[a] => MayLast(s[a], b-a+1)
Sending == [k \in Pixels |-> Sent(k)]
FollowsTheStandard ==
  /\ Follows(Sending, n)
  /\ \A k \in Pixels \ {0} : Sent(k) \in {"VIDEO_GB", "VIDEO"} => tmds[k+1].hv = tmds[k].hv

\* An undamaged capture from which it can be told where the periods begin.
IsLegal == /\ Faults = {} /\ FollowsTheStandard /\ ~LooksLikeGb
           /\ \E k \in Pixels : Sent(k) = "CTRL"

\* A capture of what a source may send, begun and ended anywhere, is decoded
\* without an error and every pixel from m_start on is sorted into the period
\* it was sent in; m_start is the first control pixel outside the preambles.
LegalCaptureDecodes ==
  (pass = "done" /\ IsLegal) =>
    /\ error = "none" /\ m_start # -1 /\ \A k \in FromStart : SortedAsSent(k)
    /\ \A k \in Pixels : Sent(k) = "CTRL" => k \in FromStart

\* With a fault in it, a capture tells less of where its runs begin and end.
\* What is asked of its source besides: no preamble, guardband or island that is
\* cut off by an end is longer than a whole one; and video without preambles is
\* sent by a source that knows no other periods (DVI).
MayReach(f, length) ==
  CASE f \in {"VIDEO_PRE", "DATA_PRE"} -> length <= PRE_LEN
    [] f \in {"VIDEO_GB", "DATA_GB_LEADING", "DATA_GB_TRAILING"} -> length <= GB_LEN
    [] f = "DATA" -> length <= PACKET_LEN * PACKET_MAX
    [] OTHER -> TRUE
MaySend(s, m) ==
  /\ Follows(s, m)
  /\ \A a \in 0 .. m-1 : \A b \in a .. m-1 : RunIn(s, s[a], a, b) => MayReach(s[a], b-a+1)
  /\ (\E k \in 1 .. m-1 : s[k-1] = "CTRL" /\ s[k] = "VIDEO") =>
       \A k \in 0 .. m-1 : s[k] \in {"CTRL", "VIDEO"}
\* The periods as they were before one, f, was lost in front of pixel k.
Restored(k, f) == [j \in 0 .. n |-> IF j < k THEN Sent(j) ELSE IF j = k THEN f ELSE Sent(j-1)]
DamagedAt(k) == ~tmds[k+1].lost /\ MaySend(Sending, n)
LostAt(k) == /\ tmds[k+1].lost /\ SentAs(k)
             /\ \E f \in DOMAIN After : MaySend(Restored(k, f), n+1)
OneFault(k) == Faults = {k} /\ (DamagedAt(k) \/ LostAt(k))

\* If one pixel is damaged, or one was lost, either the decode reports an error
\* or every pixel that arrived sound is sorted as it was sent: a run that changed
\* its length never passes as another period.  (The pixel at which decoding
\* starts must be a sound one.)
OneFaultDoesNotSpread ==
  /\ Completed /\ m_start # -1 /\ SentAs(m_start)
  /\ ~LooksLikeGb /\ \E k \in Pixels : OneFault(k)
  => \A k \in FromStart : SentAs(k) => SortedAsSent(k)

\* The sync levels found for the pixels from m_start on are those the source
\* had: they are carried over video periods and read from TERC4 in islands.
SyncsAreTheSources ==
  (pass = "done" /\ IsLegal) => \A k \in FromStart : tmds_sync[k] = tmds[k+1].hv

\* "this should be impossible": no capture, however damaged, comes to the
\* video pass with a pixel that is not sorted and not video.
NonVideoIsImpossible == error # NON_VIDEO

\* Whatever was captured: a data island that got its trailing guardband is a
\* whole number of packets, no more than PACKET_MAX.
DataRun(a, b) == /\ a > 0 /\ \A k \in a .. b : "DATA" \in tmds_p[k]
                 /\ "DATA" \notin tmds_p[a-1]
IslandsAreWhole ==
  ~stop => \A a \in Pixels : \A b \in a .. n-2 :
    DataRun(a, b) /\ "DATA_GB_TRAILING" \in tmds_p[b+1] =>
      \E packets \in 1 .. PACKET_MAX : b - a + 1 = packets * PACKET_LEN

\* Whatever was captured, and in every state of the decode: the flags are of
\* their types, no period is impossible, and the islands are whole.
PeriodsAreSound == TypeOK /\ NonVideoIsImpossible /\ IslandsAreWhole

\* And what a source may send is decoded as it was sent, periods and sync levels.
CaptureIsDecoded == PeriodsAreSound /\ LegalCaptureDecodes /\ SyncsAreTheSources

\* A run that reads the decoded file sees what the decoding run found.
RereadIsTheSame == [][pass' = "read" => UNCHANGED <<tmds, results>>]_vars
=============================================================================
