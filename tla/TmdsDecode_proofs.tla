-------------------------- MODULE TmdsDecode_proofs ---------------------------
(***************************************************************************)
(* What the decode of a capture promises whatever was captured: the error  *)
(* its author calls impossible is impossible, data islands are whole       *)
(* numbers of packets, and the decoded file gives back what was found.     *)
(* And of every capture of what a source may send: it is decoded as sent.  *)
(* With one pixel of it damaged or lost it is rejected, or the pixels that *)
(* arrived sound are decoded as sent all the same.                         *)
(***************************************************************************)
EXTENDS TmdsDecode, TLAPS

PTypes == {"", "video_pre", "video_gb", "data_pre", "data_gb_leading",
           "data", "data_gb_trailing"}
DataFlags == {"DATA", "DATA_GB_LEADING", "DATA_GB_TRAILING"}

\* The values of the variables, the file aside.
Tables ==
  /\ tmds_ch_p \in [Channel -> [Pixels -> SUBSET ChannelFlag]]
  /\ tmds_c \in [Channel -> [Pixels -> -1 .. 3]]
  /\ tmds_p \in [Pixels -> SUBSET Flag]
  /\ tmds_sync \in [Pixels -> -1 .. 3]
Counters ==
  /\ ch \in Channel
  /\ i \in -1 .. n-1 /\ (i = -1 => pass = "preambles")
  /\ m_start \in -1 .. n-1
  /\ p_count \in 0 .. n /\ (pass = "islands" => p_count <= i)
  /\ sync \in -1 .. 3
Names ==
  /\ pass \in {"prelim", "resolve", "preambles", "islands", "video", "syncs",
               "write", "done", "read", "exception"}
  /\ m_protocol \in {"DVI", "HDMI"} /\ p_type \in PTypes
  /\ error \in Messages /\ stop \in BOOLEAN
Types == tmds \in Seq(Pixel) /\ n > 0 /\ Tables /\ Counters /\ Names

\* The channel passes have been over a pixel, and found no illegal character,
\* when a later pass comes to it.
Detected(c, k) == tmds_ch_p[c][k] = ChannelPeriods(c, Sym(c, k)) /\ tmds_ch_p[c][k] # {}
ChannelsKnown ==
  /\ \A c \in Channel : \A k \in Pixels :
       tmds_ch_p[c][k] # {} => tmds_ch_p[c][k] = ChannelPeriods(c, Sym(c, k))
  /\ pass = "prelim" /\ stop = FALSE =>
       \A c \in Channel : \A k \in Pixels : c < ch \/ (c = ch /\ k < i) => Detected(c, k)
  /\ pass \in {"resolve", "preambles", "islands", "video", "syncs"} =>
       \A c \in Channel : \A k \in Pixels : Detected(c, k)

\* A pixel that is control on any channel has a period before the video pass.
ControlKnown ==
  /\ pass = "resolve" => \A k \in Pixels : k < i /\ AnyChannel("CTRL", k) => tmds_p[k] # {}
  /\ pass \in {"preambles", "islands", "video"} =>
       \A k \in Pixels : AnyChannel("CTRL", k) => tmds_p[k] # {}

\* What the machine over p_type knows of the pixels behind it: in a run of data
\* p_count is its length so far.
IslandsKnown ==
  /\ \A k \in Pixels : tmds_p[k] \cap DataFlags # {} => "DATA" \in tmds_ch_p[0][k]
  /\ pass \in {"prelim", "resolve", "preambles"} =>
       \A k \in Pixels : tmds_p[k] \cap DataFlags = {}
  /\ pass = "islands" =>
       /\ \A k \in Pixels : k >= i => tmds_p[k] \cap DataFlags = {}
       /\ p_type = "data_gb_leading" => i > 0
       /\ p_type # "data" /\ i > 0 => "DATA" \notin tmds_p[i-1]
       /\ p_type = "data" =>
            /\ 0 < p_count /\ p_count < i
            /\ \A k \in i-p_count .. i-1 : "DATA" \in tmds_p[k]
            /\ "DATA" \notin tmds_p[i-p_count-1]

\* IslandsAreWhole, with or without stop.
AllRunsWhole ==
  \A a \in Pixels : \A b \in a .. n-2 :
    DataRun(a, b) /\ "DATA_GB_TRAILING" \in tmds_p[b+1] =>
      \E packets \in 1 .. PACKET_MAX : b - a + 1 = packets * PACKET_LEN

FileIsTheResult ==
  /\ pass \notin {"done", "read"} => file = <<>>
  /\ file # <<>> => file = DecodedData

IInv == Types /\ ChannelsKnown /\ ControlKnown /\ IslandsKnown /\ AllRunsWhole
        /\ FileIsTheResult /\ NonVideoIsImpossible

------------------------------------------------------------------------------
(* The tables and the loops.                                               *)

LEMMA Basics ==
  ASSUME Types
  PROVE  /\ n \in Nat /\ n > 0 /\ Pixels = 0 .. n-1
         /\ \A c \in Channel : \A k \in Pixels : Sym(c, k) \in Symbol
<1>1. tmds \in Seq(Pixel) /\ n > 0 BY DEF Types
<1>2. n \in Nat /\ Pixels = 0 .. n-1 BY <1>1 DEF n, Pixels
<1>3. ASSUME NEW c \in Channel, NEW k \in Pixels PROVE Sym(c, k) \in Symbol
  <2>1. tmds[k+1] \in Pixel
    <3> HIDE DEF Pixel
    <3> QED BY <1>1, <1>2 DEF n
  <2>2. tmds[k+1].sym \in [Channel -> Symbol] BY <2>1 DEF Pixel
  <2> QED BY <2>2 DEF Sym
<1> QED BY <1>1, <1>2, <1>3

\* A character of no control and of some period is video, whatever else it is.
LEMMA PeriodsOf ==
  ASSUME NEW c \in Channel, NEW s \in Symbol
  PROVE  /\ ChannelPeriods(c, s) \in SUBSET ChannelFlag
         /\ "CTRL" \in ChannelPeriods(c, s) <=> s \in Ctrl
         /\ s \in Ctrl \/ ChannelPeriods(c, s) = {} \/ "VIDEO" \in ChannelPeriods(c, s)
         /\ "DATA" \in ChannelPeriods(c, s) <=> s \in Terc4
<1>1. ChannelPeriods(c, s) \in SUBSET ChannelFlag
  BY DEF ChannelPeriods, ChannelFlag
<1>2. "CTRL" \in ChannelPeriods(c, s) <=> s \in Ctrl
  BY DEF ChannelPeriods
<1>3. "DATA" \in ChannelPeriods(c, s) <=> s \in Terc4
  BY DEF ChannelPeriods
<1>4. CASE s = "x"
  <2>1. s \notin Ctrl /\ s \notin Terc4 /\ s # "g" /\ s # "d"
    BY <1>4 DEF Ctrl, Terc4
  <2>2. s # video_gb[c+1]
    BY <2>1 DEF video_gb, Channel
  <2>3. ChannelPeriods(c, s) = {}
    BY <1>4, <2>1, <2>2 DEF ChannelPeriods
  <2> QED BY <1>1, <1>2, <1>3, <2>3
<1>5. CASE s # "x"
  <2>1. s \in Ctrl \/ "VIDEO" \in ChannelPeriods(c, s)
    BY <1>5 DEF ChannelPeriods
  <2> QED BY <1>1, <1>2, <1>3, <2>1
<1> QED BY <1>4, <1>5

LEMMA TableValues ==
  /\ \A s \in Ctrl : CIndex[s] \in 0 .. 3
  /\ \A s \in Terc4 : Terc4Low[s] \in 0 .. 3
  /\ NextPass["prelim"] = "resolve" /\ NextPass["resolve"] = "preambles"
  /\ NextPass["preambles"] = "islands" /\ NextPass["islands"] = "video"
  /\ NextPass["video"] = "syncs" /\ NextPass["syncs"] = "write"
BY DEF Ctrl, Terc4, CIndex, Terc4Low, NextPass

\* A pass goes on to its next pixel or to the next pass.
LEMMA Moves ==
  ASSUME NEW start, Loop(start)
  PROVE  \/ /\ i # n-1 /\ i' = i + 1 /\ pass' = pass
            /\ p_count' = p_count /\ p_type' = p_type
         \/ /\ i = n-1 /\ pass' = NextPass[pass] /\ p_count' = 0 /\ p_type' = ""
            /\ i' = IF pass = "resolve" THEN start ELSE 0
BY DEF Loop, NewPass

LEMMA Stops ==
  ASSUME NEW what, Break(what)
  PROVE  /\ error' = what /\ stop' = TRUE /\ pass' = "write"
         /\ i' = 0 /\ p_count' = 0 /\ p_type' = ""
BY DEF Break, NewPass

LEMMA InitIInv == Init => IInv
<1> SUFFICES ASSUME Init PROVE IInv
  OBVIOUS
<1>1. tmds \in Seq(Pixel) /\ n > 0
  BY CaptureAssumption DEF Init, n
<1>2. n \in Nat /\ Pixels = 0 .. n-1
  BY <1>1 DEF n, Pixels
<1>3. Tables
  <2>1. tmds_ch_p \in [Channel -> [Pixels -> SUBSET ChannelFlag]] BY DEF Init
  <2>2. tmds_c \in [Channel -> [Pixels -> -1 .. 3]]
    <3>1. tmds_c = [c \in Channel |-> [k \in Pixels |-> -1]] BY DEF Init
    <3> QED BY <3>1
  <2>3. tmds_p \in [Pixels -> SUBSET Flag] BY DEF Init
  <2>4. tmds_sync \in [Pixels -> -1 .. 3]
    <3>1. tmds_sync = [k \in Pixels |-> -1] BY DEF Init
    <3> QED BY <3>1
  <2> QED BY <2>1, <2>2, <2>3, <2>4 DEF Tables
<1>9. /\ ch = 0 /\ i = 0 /\ m_start = -1 /\ p_count = 0 /\ sync = -1
  BY DEF Init
<1>4. Types
  <2>1. Counters BY <1>2, <1>9, <1>1 DEF Counters, Channel
  <2>2. Names BY DEF Init, Names, PTypes, Messages
  <2> QED BY <1>1, <1>3, <2>1, <2>2 DEF Types
<1>5. \A k \in Pixels : tmds_p[k] = {} /\ \A c \in Channel : tmds_ch_p[c][k] = {}
  BY DEF Init
<1>6. ChannelsKnown
  <2>1. ASSUME NEW c \in Channel, NEW k \in Pixels
        PROVE  ~(c < ch \/ (c = ch /\ k < i))
    BY <1>2, <1>9 DEF Channel
  <2> QED BY <2>1, <1>5 DEF Init, ChannelsKnown
<1>7. ControlKnown /\ IslandsKnown /\ FileIsTheResult /\ NonVideoIsImpossible
  BY <1>5 DEF Init, ControlKnown, IslandsKnown, FileIsTheResult, NonVideoIsImpossible, NON_VIDEO
<1>8. AllRunsWhole
  BY <1>2, <1>5 DEF AllRunsWhole
<1> QED BY <1>4, <1>6, <1>7, <1>8 DEF IInv

------------------------------------------------------------------------------
(* What a step leaves as it is.                                            *)

LEMMA SameCapture ==
  ASSUME tmds' = tmds
  PROVE  /\ n' = n /\ Pixels' = Pixels
         /\ \A c, k : Sym(c, k)' = Sym(c, k)
BY DEF n, Pixels, Sym

LEMMA SameRuns ==
  ASSUME AllRunsWhole, tmds' = tmds, tmds_p' = tmds_p
  PROVE  AllRunsWhole'
BY SameCapture DEF AllRunsWhole, DataRun

\* Only the data flags and the trailing guardband make a run.
LEMMA SameDataRuns ==
  ASSUME AllRunsWhole, tmds' = tmds, n \in Nat,
         \A k \in Pixels : "DATA" \in tmds_p'[k] <=> "DATA" \in tmds_p[k],
         \A k \in Pixels :
           "DATA_GB_TRAILING" \in tmds_p'[k] <=> "DATA_GB_TRAILING" \in tmds_p[k]
  PROVE  AllRunsWhole'
<1>1. n' = n /\ Pixels' = Pixels /\ Pixels = 0 .. n-1
  BY SameCapture DEF Pixels
<1> SUFFICES ASSUME NEW a \in Pixels, NEW b \in a .. n-2,
                    DataRun(a, b)', "DATA_GB_TRAILING" \in tmds_p'[b+1]
             PROVE  \E packets \in 1 .. PACKET_MAX : b - a + 1 = packets * PACKET_LEN
  BY <1>1 DEF AllRunsWhole
<1>2. b + 1 \in Pixels /\ \A k \in a .. b : k \in Pixels
  BY <1>1
<1>3. DataRun(a, b)
  <2>1. a - 1 \in Pixels BY <1>1 DEF DataRun
  <2> QED BY <2>1, <1>2 DEF DataRun
<1> QED BY <1>2, <1>3 DEF AllRunsWhole

\* After the first pass the channel periods do not change.
LEMMA SameChannels ==
  ASSUME ChannelsKnown, tmds' = tmds, tmds_ch_p' = tmds_ch_p,
         pass # "prelim", pass' # "prelim",
         \/ pass \in {"resolve", "preambles", "islands", "video", "syncs"}
         \/ pass' \notin {"resolve", "preambles", "islands", "video", "syncs"}
  PROVE  ChannelsKnown'
BY SameCapture DEF ChannelsKnown, Detected

\* Without a file, and with none written, there is nothing to show of it.
LEMMA NoFile ==
  ASSUME FileIsTheResult, file' = file, pass \notin {"done", "read"}
  PROVE  FileIsTheResult'
BY DEF FileIsTheResult

\* The loop counters after a step to the next pixel, or to the start of a pass.
LEMMA CountersNext ==
  ASSUME Counters, n \in Nat, n > 0, n' = n, ch' = ch,
         m_start' \in -1 .. n-1, sync' \in -1 .. 3,
         \/ i # n-1 /\ i' = i + 1 /\ p_count' = p_count /\ pass' # "islands"
         \/ i' = 0 /\ p_count' = 0
  PROVE  Counters'
<1>1. i \in -1 .. n-1 /\ p_count \in 0 .. n /\ ch \in Channel
  BY DEF Counters
<1>2. CASE i # n-1 /\ i' = i + 1 /\ p_count' = p_count /\ pass' # "islands"
  <2>1. i' \in -1 .. n-1 /\ i' # -1 BY <1>1, <1>2
  <2> QED BY <1>1, <1>2, <2>1 DEF Counters
<1>3. CASE i' = 0 /\ p_count' = 0
  <2>1. i' \in -1 .. n-1 /\ i' # -1 /\ p_count' \in 0 .. n /\ p_count' <= i' BY <1>3
  <2> QED BY <1>1, <2>1 DEF Counters
<1> QED BY <1>2, <1>3

------------------------------------------------------------------------------
(* The last passes.                                                        *)

LEMMA SyncsStep == ASSUME IInv, ResolveSyncs PROVE IInv'
<1>1. /\ tmds' = tmds /\ ch' = ch /\ m_protocol' = m_protocol /\ m_start' = m_start
      /\ tmds_ch_p' = tmds_ch_p /\ tmds_c' = tmds_c /\ tmds_p' = tmds_p
      /\ error' = error /\ stop' = stop /\ file' = file
      /\ pass = "syncs" /\ sync' = SyncAt(i) /\ tmds_sync' = [tmds_sync EXCEPT ![i] = sync']
  BY DEF ResolveSyncs
<1>2. /\ tmds \in Seq(Pixel) /\ n > 0 /\ n \in Nat /\ Pixels = 0 .. n-1
      /\ n' = n /\ Pixels' = Pixels /\ i \in Pixels
  BY <1>1, Basics, SameCapture DEF IInv, Types, Counters
<1>3. \/ i # n-1 /\ i' = i + 1 /\ pass' = "syncs" /\ p_count' = p_count /\ p_type' = p_type
      \/ pass' = "write" /\ i' = 0 /\ p_count' = 0 /\ p_type' = ""
  BY <1>1, Moves, TableValues DEF ResolveSyncs
<1>4. SyncAt(i) \in -1 .. 3
  <2>1. tmds_c[0][i] \in -1 .. 3 /\ sync \in -1 .. 3
    BY <1>2 DEF IInv, Types, Tables, Counters, Channel
  <2>2. ASSUME tmds_p[i] \cap DataFlags # {} PROVE Terc4Low[Sym(0, i)] \in -1 .. 3
    <3>1. "DATA" \in tmds_ch_p[0][i]
      BY <2>2, <1>2 DEF IInv, IslandsKnown
    <3>2. "DATA" \in ChannelPeriods(0, Sym(0, i))
      BY <3>1, <1>2 DEF IInv, ChannelsKnown, Channel
    <3>3. Sym(0, i) \in Terc4
      BY <3>2, <1>2, Basics, PeriodsOf DEF IInv, Channel
    <3> QED BY <3>3, TableValues
  <2> QED BY <2>1, <2>2 DEF SyncAt, DataFlags
<1>5. Types'
  <2>1. tmds_sync' \in [Pixels -> -1 .. 3]
    BY <1>1, <1>2, <1>4 DEF IInv, Types, Tables
  <2>2. Tables'
    BY <2>1, <1>1, <1>2 DEF IInv, Types, Tables
  <2>3. Counters'
    <3>1. Counters /\ m_start' \in -1 .. n-1 BY <1>1 DEF IInv, Types, Counters
    <3> QED BY <1>1, <1>2, <1>3, <1>4, <3>1, CountersNext
  <2>4. Names'
    BY <1>1, <1>3 DEF IInv, Types, Names, PTypes
  <2> QED BY <1>1, <1>2, <2>2, <2>3, <2>4 DEF Types
<1>6. ChannelsKnown'
  BY <1>1, <1>3, SameChannels DEF IInv
<1>7. ControlKnown'
  BY <1>3 DEF ControlKnown
<1>8. IslandsKnown'
  BY <1>1, <1>2, <1>3 DEF IInv, IslandsKnown
<1> QED
  BY <1>1, <1>5, <1>6, <1>7, <1>8, SameRuns, NoFile
  DEF IInv, NonVideoIsImpossible

LEMMA WriteStep == ASSUME IInv, WriteDecoded PROVE IInv'
<1>1. /\ tmds' = tmds /\ ch' = ch /\ i' = i /\ m_protocol' = m_protocol
      /\ m_start' = m_start /\ tmds_ch_p' = tmds_ch_p /\ tmds_c' = tmds_c
      /\ tmds_p' = tmds_p /\ tmds_sync' = tmds_sync
      /\ p_count' = p_count /\ p_type' = p_type /\ sync' = sync /\ stop' = stop
      /\ pass = "write" /\ pass' \in {"done", "exception"}
      /\ error' = error \/ error' = "struct.error"
  BY DEF WriteDecoded, results
<1>2. n' = n /\ Pixels' = Pixels
  BY <1>1, SameCapture
<1>3. Types'
  <2>1. Tables' BY <1>1, <1>2 DEF IInv, Types, Tables
  <2>2. Counters'
    BY <1>1, <1>2 DEF IInv, Types, Counters
  <2>3. Names' BY <1>1 DEF IInv, Types, Names, Messages
  <2> QED BY <1>1, <1>2, <2>1, <2>2, <2>3 DEF IInv, Types
<1>4. ChannelsKnown'
  BY <1>1, SameChannels DEF IInv
<1>5. ControlKnown' /\ IslandsKnown'
  BY <1>1, <1>2 DEF IInv, ControlKnown, IslandsKnown
<1>6. FileIsTheResult'
  <2>1. file = <<>> BY <1>1 DEF IInv, FileIsTheResult
  <2>2. file' = <<>> \/ (pass' = "done" /\ file' = DecodedData)
    BY <2>1 DEF WriteDecoded
  <2>3. pass' = "exception" => file' = file
    BY DEF WriteDecoded
  <2>4. DecodedData' = DecodedData
    BY <1>1, <1>2 DEF DecodedData, Protocol01
  <2> QED BY <1>1, <2>1, <2>2, <2>3, <2>4 DEF FileIsTheResult
<1>7. NonVideoIsImpossible'
  BY <1>1 DEF IInv, NonVideoIsImpossible, NON_VIDEO
<1> QED BY <1>1, <1>3, <1>4, <1>5, <1>6, <1>7, SameRuns DEF IInv

\* The fields of the file.
LEMMA FileFields ==
  /\ DecodedData[2] = m_start
  /\ DecodedData[3] = Protocol01(m_protocol)
  /\ DecodedData[4] = tmds
  /\ DecodedData[5] = tmds_ch_p[0] /\ DecodedData[8] = tmds_ch_p[1]
  /\ DecodedData[11] = tmds_ch_p[2]
  /\ DecodedData[6] = tmds_c[0] /\ DecodedData[9] = tmds_c[1]
  /\ DecodedData[12] = tmds_c[2]
  /\ DecodedData[13] = tmds_p /\ DecodedData[14] = tmds_sync
BY DEF DecodedData

LEMMA ReadGivesBack ==
  ASSUME IInv, ReadDecoded
  PROVE  UNCHANGED <<tmds, results>>
<1>1. file = DecodedData
  BY DEF IInv, FileIsTheResult, ReadDecoded
<1>2. tmds' = tmds /\ m_start' = m_start /\ tmds_p' = tmds_p /\ tmds_sync' = tmds_sync
  BY <1>1, FileFields DEF ReadDecoded
<1>3. m_protocol' = m_protocol
  <2>1. m_protocol \in {"DVI", "HDMI"} BY DEF IInv, Types, Names
  <2>2. m_protocol' = IF file[3] = 1 THEN "HDMI" ELSE "DVI" BY DEF ReadDecoded
  <2>3. file[3] = IF m_protocol = "HDMI" THEN 1 ELSE 0
    BY <1>1, FileFields DEF Protocol01
  <2> QED BY <2>1, <2>2, <2>3
<1>4. tmds_ch_p' = tmds_ch_p
  <2>1. tmds_ch_p \in [Channel -> [Pixels -> SUBSET ChannelFlag]]
    BY DEF IInv, Types, Tables
  <2>2. tmds_ch_p' = [c \in Channel |-> file[5 + 3*c]]
    BY DEF ReadDecoded
  <2>3. \A c \in Channel : file[5 + 3*c] = tmds_ch_p[c]
    BY <1>1, FileFields DEF Channel
  <2> QED BY <2>1, <2>2, <2>3
<1>5. tmds_c' = tmds_c
  <2>1. tmds_c \in [Channel -> [Pixels -> -1 .. 3]]
    BY DEF IInv, Types, Tables
  <2>2. tmds_c' = [c \in Channel |-> file[6 + 3*c]]
    BY DEF ReadDecoded
  <2>3. \A c \in Channel : file[6 + 3*c] = tmds_c[c]
    BY <1>1, FileFields DEF Channel
  <2> QED BY <2>1, <2>2, <2>3
<1> QED BY <1>2, <1>3, <1>4, <1>5 DEF results

LEMMA ReadStep == ASSUME IInv, ReadDecoded PROVE IInv'
<1>1. /\ tmds' = tmds /\ m_protocol' = m_protocol /\ m_start' = m_start
      /\ tmds_ch_p' = tmds_ch_p /\ tmds_c' = tmds_c /\ tmds_p' = tmds_p
      /\ tmds_sync' = tmds_sync
  BY ReadGivesBack DEF results
<1>2. n' = n /\ Pixels' = Pixels /\ n \in Nat /\ n > 0
  BY <1>1, SameCapture, Basics DEF IInv
<1>3. pass = "done" /\ pass' = "read" /\ file' = file /\ error' = "none"
  BY DEF ReadDecoded
<1>9. ch' = 0 /\ i' = 0 /\ p_count' = 0 /\ sync' = -1
  BY DEF ReadDecoded
<1>4. Types'
  <2>1. Tables' BY <1>1, <1>2 DEF IInv, Types, Tables
  <2>2. Counters'
    <3>1. m_start' \in -1 .. n'-1 BY <1>1, <1>2 DEF IInv, Types, Counters
    <3>2. i' \in -1 .. n'-1 /\ i' # -1 /\ p_count' \in 0 .. n'
      BY <1>2, <1>9
    <3>3. ch' \in Channel /\ sync' \in -1 .. 3 BY <1>9 DEF Channel
    <3>4. pass' # "islands" BY <1>3
    <3> QED BY <3>1, <3>2, <3>3, <3>4 DEF Counters
  <2>3. Names'
    BY <1>1 DEF ReadDecoded, IInv, Types, Names, Messages, PTypes
  <2> QED BY <1>1, <1>2, <2>1, <2>2, <2>3 DEF IInv, Types
<1>5. ChannelsKnown'
  BY <1>1, <1>3, SameChannels DEF IInv
<1>6. ControlKnown' /\ IslandsKnown'
  BY <1>1, <1>2, <1>3 DEF IInv, ControlKnown, IslandsKnown
<1>7. FileIsTheResult'
  <2>1. DecodedData' = DecodedData
    BY <1>1, <1>2 DEF DecodedData, Protocol01
  <2> QED BY <1>3, <2>1 DEF IInv, FileIsTheResult
<1>8. NonVideoIsImpossible'
  BY <1>3 DEF NonVideoIsImpossible, NON_VIDEO
<1> QED BY <1>1, <1>4, <1>5, <1>6, <1>7, <1>8, SameRuns DEF IInv

\* A pixel without a period is video on all channels, if it was seen by the
\* passes before.
LEMMA UnsortedIsVideo ==
  ASSUME IInv, pass = "video", NEW k \in Pixels, tmds_p[k] = {}
  PROVE  AllChannels("VIDEO", k)
<1> SUFFICES ASSUME NEW c \in Channel PROVE "VIDEO" \in tmds_ch_p[c][k]
  BY DEF AllChannels
<1>1. Detected(c, k) BY DEF IInv, ChannelsKnown
<1>2. "CTRL" \notin tmds_ch_p[c][k]
  BY DEF IInv, ControlKnown, AnyChannel
<1>3. Sym(c, k) \in Symbol BY Basics DEF IInv
<1> QED BY <1>1, <1>2, <1>3, PeriodsOf DEF Detected

LEMMA VideoStep == ASSUME IInv, DetectVideo PROVE IInv'
<1>1. /\ tmds' = tmds /\ ch' = ch /\ m_protocol' = m_protocol /\ m_start' = m_start
      /\ tmds_ch_p' = tmds_ch_p /\ tmds_c' = tmds_c /\ tmds_sync' = tmds_sync
      /\ sync' = sync /\ file' = file /\ pass = "video"
  BY DEF DetectVideo
<1>2. /\ tmds \in Seq(Pixel) /\ n > 0 /\ n \in Nat /\ Pixels = 0 .. n-1
      /\ n' = n /\ Pixels' = Pixels /\ i \in Pixels
  BY <1>1, Basics, SameCapture DEF IInv, Types, Counters
<1>3. /\ \/ tmds_p' = tmds_p
         \/ tmds_p[i] = {} /\ tmds_p' = [tmds_p EXCEPT ![i] = {"VIDEO"}]
      /\ error' = error /\ stop' = stop /\ Loop(0)
  <2>1. tmds_p[i] = {} => AllChannels("VIDEO", i)
    BY <1>1, <1>2, UnsortedIsVideo
  <2> QED BY <2>1 DEF DetectVideo
<1>4. \/ i # n-1 /\ i' = i + 1 /\ pass' = "video" /\ p_count' = p_count /\ p_type' = p_type
      \/ pass' = "syncs" /\ i' = 0 /\ p_count' = 0 /\ p_type' = ""
  BY <1>1, <1>3, Moves, TableValues
<1>5. tmds_p \in [Pixels -> SUBSET Flag]
  BY DEF IInv, Types, Tables
<1>6. /\ tmds_p' \in [Pixels -> SUBSET Flag]
      /\ \A k \in Pixels : tmds_p[k] # {} => tmds_p'[k] # {}
      /\ \A k \in Pixels : \A f \in DataFlags : f \in tmds_p'[k] <=> f \in tmds_p[k]
  <2>1. CASE tmds_p' = tmds_p
    BY <2>1, <1>5
  <2>2. CASE tmds_p[i] = {} /\ tmds_p' = [tmds_p EXCEPT ![i] = {"VIDEO"}]
    <3>1. {"VIDEO"} \in SUBSET Flag /\ {"VIDEO"} \cap DataFlags = {}
      BY DEF Flag, ChannelFlag, DataFlags
    <3>2. /\ tmds_p' \in [Pixels -> SUBSET Flag] /\ tmds_p'[i] = {"VIDEO"}
          /\ \A k \in Pixels : k # i => tmds_p'[k] = tmds_p[k]
      BY <2>2, <3>1, <1>2, <1>5
    <3> QED BY <2>2, <3>1, <3>2
  <2> QED BY <1>3, <2>1, <2>2
<1>7. Types'
  <2>1. Tables' BY <1>1, <1>2, <1>6 DEF IInv, Types, Tables
  <2>2. Counters'
    <3>1. Counters /\ m_start' \in -1 .. n-1 /\ sync' \in -1 .. 3
      BY <1>1 DEF IInv, Types, Counters
    <3> QED BY <1>1, <1>2, <1>4, <3>1, CountersNext
  <2>3. Names' BY <1>1, <1>3, <1>4 DEF IInv, Types, Names, PTypes
  <2> QED BY <1>1, <1>2, <2>1, <2>2, <2>3 DEF Types
<1>8. ChannelsKnown'
  BY <1>1, <1>4, SameChannels DEF IInv
<1>9. ControlKnown'
  BY <1>1, <1>2, <1>4, <1>6 DEF IInv, ControlKnown, AnyChannel
<1>10. IslandsKnown'
  BY <1>1, <1>2, <1>4, <1>6 DEF IInv, IslandsKnown, DataFlags
<1>11. AllRunsWhole'
  BY <1>1, <1>2, <1>6, SameDataRuns DEF IInv, DataFlags
<1> QED BY <1>1, <1>3, <1>7, <1>8, <1>9, <1>10, <1>11, NoFile DEF IInv, NonVideoIsImpossible

------------------------------------------------------------------------------
(* The channel pass.                                                       *)

\* Where an illegal character has been met, the passes after it are skipped.
LEMMA PrelimMoves ==
  ASSUME Names, PrelimDetect
  PROVE  \/ /\ ch # 2 /\ ch' = ch + 1 /\ i' = 0
            /\ pass' = pass /\ p_count' = p_count /\ p_type' = p_type
            /\ ChannelPeriods(ch, Sym(ch, i)) = {} \/ i = n-1
         \/ /\ ch = 2 /\ ch' = 0 /\ i' = 0 /\ p_count' = 0 /\ p_type' = ""
            /\ \/ pass' = "write"
               \/ pass' = "resolve" /\ stop' = FALSE
            /\ ChannelPeriods(ch, Sym(ch, i)) = {} \/ i = n-1
         \/ /\ i # n-1 /\ i' = i + 1 /\ ch' = ch
            /\ pass' = pass /\ p_count' = p_count /\ p_type' = p_type
            /\ ChannelPeriods(ch, Sym(ch, i)) # {}
<1>1. ASSUME NextChannel, stop' \in BOOLEAN, pass = "prelim"
      PROVE  \/ /\ ch # 2 /\ ch' = ch + 1 /\ i' = 0
                /\ pass' = pass /\ p_count' = p_count /\ p_type' = p_type
             \/ /\ ch = 2 /\ ch' = 0 /\ i' = 0 /\ p_count' = 0 /\ p_type' = ""
                /\ \/ pass' = "write"
                   \/ pass' = "resolve" /\ stop' = FALSE
  <2>1. NextPass[pass] = "resolve" BY <1>1, TableValues
  <2>2. CASE ch = 2
    <3>1. NewPass(stop', 0) /\ ch' = 0 BY <1>1, <2>2, Zenon DEF NextChannel
    <3>2. i' = 0 /\ p_count' = 0 /\ p_type' = ""
      BY <3>1 DEF NewPass
    <3>3. pass' = "write" \/ (pass' = "resolve" /\ stop' = FALSE)
      BY <1>1, <2>1, <3>1, Zenon DEF NewPass
    <3> QED BY <2>2, <3>1, <3>2, <3>3
  <2>3. CASE ch # 2
    BY <1>1, <2>3 DEF NextChannel
  <2> QED BY <2>2, <2>3
<1>2. pass = "prelim" /\ stop \in BOOLEAN BY DEF PrelimDetect, Names
<1>3. CASE /\ ChannelPeriods(ch, Sym(ch, i)) = {} /\ stop' = TRUE /\ NextChannel
  BY <1>1, <1>2, <1>3
<1>4. CASE /\ ChannelPeriods(ch, Sym(ch, i)) # {} /\ stop' = stop
           /\ i = n-1 /\ NextChannel
  BY <1>1, <1>2, <1>4
<1>5. CASE /\ ChannelPeriods(ch, Sym(ch, i)) # {}
           /\ i # n-1 /\ i' = i + 1 /\ ch' = ch
           /\ pass' = pass /\ p_count' = p_count /\ p_type' = p_type
  BY <1>5
<1> QED BY <1>3, <1>4, <1>5 DEF PrelimDetect

LEMMA PrelimStep == ASSUME IInv, PrelimDetect PROVE IInv'
<1> DEFINE p == ChannelPeriods(ch, Sym(ch, i))
<1>1. /\ tmds' = tmds /\ m_start' = m_start /\ tmds_p' = tmds_p
      /\ tmds_sync' = tmds_sync /\ sync' = sync /\ file' = file /\ pass = "prelim"
  BY DEF PrelimDetect
<1>2. /\ tmds \in Seq(Pixel) /\ n > 0 /\ n \in Nat /\ Pixels = 0 .. n-1
      /\ n' = n /\ Pixels' = Pixels /\ i \in Pixels /\ ch \in Channel
      /\ Sym(ch, i) \in Symbol /\ p \in SUBSET ChannelFlag
  <2>1. i \in Pixels /\ ch \in Channel
    BY <1>1, Basics DEF IInv, Types, Counters
  <2>2. Sym(ch, i) \in Symbol BY <2>1, Basics DEF IInv
  <2> QED BY <1>1, <2>1, <2>2, Basics, SameCapture, PeriodsOf DEF IInv, Types
<1>3. /\ tmds_ch_p \in [Channel -> [Pixels -> SUBSET ChannelFlag]]
      /\ tmds_c \in [Channel -> [Pixels -> -1 .. 3]]
  BY DEF IInv, Types, Tables
<1>4. \/ p = {} /\ stop' = TRUE /\ tmds_ch_p' = tmds_ch_p
      \/ /\ p # {} /\ stop' = stop
         /\ tmds_ch_p' = [tmds_ch_p EXCEPT ![ch][i] = p]
  BY DEF PrelimDetect
<1>5. /\ tmds_ch_p' \in [Channel -> [Pixels -> SUBSET ChannelFlag]]
      /\ p # {} => tmds_ch_p'[ch][i] = p
      /\ \A c \in Channel : \A k \in Pixels :
           c # ch \/ k # i => tmds_ch_p'[c][k] = tmds_ch_p[c][k]
      /\ p = {} => tmds_ch_p'[ch][i] = tmds_ch_p[ch][i]
  <2> HIDE DEF p
  <2>1. CASE tmds_ch_p' = tmds_ch_p /\ p = {}
    BY <2>1, <1>3
  <2>2. CASE p # {} /\ tmds_ch_p' = [tmds_ch_p EXCEPT ![ch][i] = p]
    BY <2>2, <1>2, <1>3
  <2> QED BY <1>4, <2>1, <2>2
<1>6. Types'
  <2>1. tmds_c' \in [Channel -> [Pixels -> -1 .. 3]]
    <3>1. CASE Sym(ch, i) \in Ctrl
      <4>1. CIndex[Sym(ch, i)] \in -1 .. 3 BY <3>1, TableValues
      <4>2. tmds_c' = [tmds_c EXCEPT ![ch][i] = CIndex[Sym(ch, i)]]
        BY <3>1 DEF PrelimDetect
      <4> QED BY <4>1, <4>2, <1>2, <1>3
    <3>2. CASE Sym(ch, i) \notin Ctrl
      BY <3>2, <1>3 DEF PrelimDetect
    <3> QED BY <3>1, <3>2
  <2>2. Tables'
    BY <2>1, <1>1, <1>2, <1>5 DEF IInv, Types, Tables
  <2>3. Counters'
    <3> HIDE DEF p
    <3>1. /\ i' = 0 \/ (i # n-1 /\ i' = i + 1)
          /\ ch' = ch \/ (ch # 2 /\ ch' = ch + 1) \/ ch' = 0
          /\ p_count' = p_count \/ p_count' = 0
      BY PrelimMoves DEF IInv, Types
    <3>2. pass' # "islands"
      BY <1>1, PrelimMoves DEF IInv, Types
    <3>3. m_start' \in -1 .. n-1 /\ sync' \in -1 .. 3 /\ p_count \in 0 .. n
      BY <1>1 DEF IInv, Types, Counters
    <3>4. ch' \in Channel
      BY <3>1, <1>2 DEF Channel
    <3>5. i' \in -1 .. n-1 /\ i' # -1
      BY <3>1, <1>2
    <3>6. p_count' \in 0 .. n
      BY <3>1, <3>3, <1>2
    <3> QED BY <3>2, <3>3, <3>4, <3>5, <3>6, <1>2 DEF Counters
  <2>4. Names'
    <3>1. pass' \in {"prelim", "resolve", "write"} /\ p_type' \in PTypes
      BY <1>1, PrelimMoves DEF IInv, Types, Names, PTypes
    <3>2. m_protocol' \in {"DVI", "HDMI"}
      BY DEF PrelimDetect, IInv, Types, Names
    <3>3. error' \in Messages
      BY DEF PrelimDetect, IInv, Types, Names, Messages
    <3>4. stop' \in BOOLEAN
      BY <1>4 DEF IInv, Types, Names
    <3> QED BY <3>1, <3>2, <3>3, <3>4 DEF Names
  <2> QED BY <1>1, <1>2, <2>2, <2>3, <2>4 DEF Types
<1>7. ChannelsKnown'
  <2>1. \A c \in Channel : \A k \in Pixels :
          tmds_ch_p'[c][k] # {} => tmds_ch_p'[c][k] = ChannelPeriods(c, Sym(c, k))
    BY <1>2, <1>5 DEF IInv, ChannelsKnown
  <2>2. ASSUME stop' = FALSE,
               NEW c \in Channel, NEW k \in Pixels, c < ch \/ (c = ch /\ k <= i)
        PROVE  Detected(c, k)'
    <3>1. stop = FALSE /\ p # {}
      BY <2>2, <1>4 DEF IInv, Types, Names
    <3>2. CASE c = ch /\ k = i
      BY <3>1, <3>2, <1>1, <1>5, SameCapture DEF Detected
    <3>3. CASE ~(c = ch /\ k = i)
      <4>1. c < ch \/ (c = ch /\ k < i)
        BY <2>2, <3>3, <1>2 DEF Channel
      <4>2. Detected(c, k)
        BY <4>1, <3>1, <1>1 DEF IInv, ChannelsKnown
      <4> QED BY <4>2, <3>3, <1>1, <1>5, SameCapture DEF Detected
    <3> QED BY <3>2, <3>3
  <2>3. ASSUME stop' = FALSE, pass' = "prelim", NEW c \in Channel, NEW k \in Pixels,
               c < ch' \/ (c = ch' /\ k < i')
        PROVE  c < ch \/ (c = ch /\ k <= i)
    <3>1. p # {} BY <2>3, <1>4
    <3> QED BY <2>3, <3>1, <1>2, PrelimMoves DEF IInv, Types, Channel
  <2>4. ASSUME pass' \in {"resolve", "preambles", "islands", "video", "syncs"},
               NEW c \in Channel, NEW k \in Pixels
        PROVE  stop' = FALSE /\ (c < ch \/ (c = ch /\ k <= i))
    <3>1. ch = 2 /\ stop' = FALSE /\ (p = {} \/ i = n-1)
      BY <2>4, <1>1, PrelimMoves DEF IInv, Types
    <3>2. p # {} BY <3>1, <1>4
    <3>3. c <= 2 /\ k <= n-1 BY <1>2 DEF Channel
    <3> QED BY <3>1, <3>2, <3>3, <1>2 DEF Channel
  <2>5. \A c \in Channel : \A k \in Pixels : Sym(c, k)' = Sym(c, k)
    BY <1>1, SameCapture
  <2>6. Pixels' = Pixels BY <1>2
  <2>7. (\A c \in Channel : \A k \in Pixels :
           tmds_ch_p[c][k] # {} => tmds_ch_p[c][k] = ChannelPeriods(c, Sym(c, k)))'
    BY <2>1, <2>5, <2>6
  <2>8. ASSUME pass' = "prelim", stop' = FALSE
        PROVE  (\A c \in Channel : \A k \in Pixels : c < ch \/ (c = ch /\ k < i) => Detected(c, k))'
    BY <2>2, <2>3, <2>6, <2>8
  <2>9. ASSUME pass' \in {"resolve", "preambles", "islands", "video", "syncs"}
        PROVE  (\A c \in Channel : \A k \in Pixels : Detected(c, k))'
    BY <2>2, <2>4, <2>6, <2>9
  <2> QED BY <2>7, <2>8, <2>9 DEF ChannelsKnown
<1>8. pass' \in {"prelim", "resolve", "write"} /\ (pass' = "resolve" => i' = 0)
  BY <1>1, PrelimMoves DEF IInv, Types
<1>9. ControlKnown'
  BY <1>2, <1>8 DEF ControlKnown
<1>10. IslandsKnown'
  BY <1>1, <1>2, <1>8 DEF IInv, IslandsKnown
<1>11. NonVideoIsImpossible'
  BY DEF PrelimDetect, IInv, NonVideoIsImpossible, NON_VIDEO
<1> QED BY <1>1, <1>6, <1>7, <1>9, <1>10, <1>11, SameRuns, NoFile DEF IInv

------------------------------------------------------------------------------
(* The passes over control pixels.                                         *)

LEMMA ResolveStep == ASSUME IInv, ResolveControl PROVE IInv'
<1>1. /\ tmds' = tmds /\ ch' = ch /\ m_protocol' = m_protocol
      /\ tmds_ch_p' = tmds_ch_p /\ tmds_c' = tmds_c /\ tmds_sync' = tmds_sync
      /\ sync' = sync /\ file' = file /\ pass = "resolve"
  BY DEF ResolveControl
<1>2. /\ tmds \in Seq(Pixel) /\ n > 0 /\ n \in Nat /\ Pixels = 0 .. n-1
      /\ n' = n /\ Pixels' = Pixels /\ i \in Pixels /\ m_start \in -1 .. n-1
  BY <1>1, Basics, SameCapture DEF IInv, Types, Counters
<1>3. tmds_p \in [Pixels -> SUBSET Flag] BY DEF IInv, Types, Tables
<1>4. \/ /\ AnyChannel("CTRL", i) /\ tmds_p' = [tmds_p EXCEPT ![i] = {"CTRL"}]
         /\ m_start' = i \/ m_start' = m_start
         /\ Loop(m_start')
      \/ /\ ~AnyChannel("CTRL", i) /\ tmds_p' = tmds_p /\ m_start' = m_start
         /\ Loop(m_start)
      \/ /\ tmds_p' = tmds_p /\ m_start' = m_start
         /\ pass' = "write" /\ i' = 0 /\ p_count' = 0 /\ p_type' = ""
  BY Stops DEF ResolveControl
<1>5. /\ tmds_p' \in [Pixels -> SUBSET Flag]
      /\ \A k \in Pixels : k # i => tmds_p'[k] = tmds_p[k]
      /\ tmds_p'[i] \in {tmds_p[i], {"CTRL"}}
  <2>1. CASE tmds_p' = tmds_p
    BY <2>1, <1>3
  <2>2. CASE tmds_p' = [tmds_p EXCEPT ![i] = {"CTRL"}]
    <3>1. {"CTRL"} \in SUBSET Flag BY DEF Flag, ChannelFlag
    <3> QED BY <2>2, <3>1, <1>2, <1>3
  <2> QED BY <1>4, <2>1, <2>2
<1>6. m_start' \in -1 .. n-1
  <2>1. m_start' = i \/ m_start' = m_start BY <1>4
  <2> QED BY <2>1, <1>2
<1>7. \/ /\ i # n-1 /\ i' = i + 1 /\ pass' = "resolve"
         /\ p_count' = p_count /\ p_type' = p_type
      \/ i = n-1 /\ i' = m_start' /\ pass' = "preambles" /\ p_count' = 0 /\ p_type' = ""
      \/ pass' = "write" /\ i' = 0 /\ p_count' = 0 /\ p_type' = ""
  <2>1. CASE Loop(m_start') BY <2>1, <1>1, Moves, TableValues
  <2>2. CASE Loop(m_start) /\ m_start' = m_start BY <2>2, <1>1, Moves, TableValues
  <2> QED BY <1>4, <2>1, <2>2
<1>8. pass' \in {"resolve", "preambles"} /\ AnyChannel("CTRL", i) => tmds_p'[i] # {}
  <2>1. CASE tmds_p' = [tmds_p EXCEPT ![i] = {"CTRL"}]
    BY <2>1, <1>2, <1>3
  <2>2. CASE tmds_p' # [tmds_p EXCEPT ![i] = {"CTRL"}]
    BY <2>2, <1>4
  <2> QED BY <2>1, <2>2
<1>9. Types'
  <2>1. Tables' BY <1>1, <1>2, <1>5 DEF IInv, Types, Tables
  <2>2. Counters'
    <3>5. (i # n-1 /\ i' = i + 1) \/ (i' = m_start' /\ pass' = "preambles") \/ i' = 0
      BY <1>7
    <3>6. i' \in -1 .. n-1 /\ ((i # n-1 /\ i' = i + 1) \/ i' = 0 => i' # -1)
      <4>1. (i # n-1 /\ i' = i + 1) \/ i' = m_start' \/ i' = 0 BY <3>5
      <4> QED BY <4>1, <1>2, <1>6
    <3>1. i' \in -1 .. n-1 /\ (i' = -1 => pass' = "preambles")
      BY <3>5, <3>6
    <3>2. p_count' \in 0 .. n
      <4>1. p_count' = p_count \/ p_count' = 0 BY <1>7
      <4> QED BY <4>1, <1>2 DEF IInv, Types, Counters
    <3>3. pass' # "islands" BY <1>7
    <3>4. ch' \in Channel /\ sync' \in -1 .. 3 BY <1>1 DEF IInv, Types, Counters
    <3> QED BY <3>1, <3>2, <3>3, <3>4, <1>2, <1>6 DEF Counters
  <2>3. Names'
    <3>1. pass' \in {"resolve", "preambles", "write"} /\ p_type' \in PTypes
      BY <1>7 DEF IInv, Types, Names, PTypes
    <3>2. error' \in Messages /\ stop' \in BOOLEAN
      BY DEF ResolveControl, Break, IInv, Types, Names, Messages
    <3> QED BY <3>1, <3>2, <1>1 DEF IInv, Types, Names
  <2> QED BY <1>1, <1>2, <2>1, <2>2, <2>3 DEF Types
<1>10. ChannelsKnown'
  BY <1>1, <1>7, SameChannels DEF IInv
<1>11. ControlKnown'
  <2>1. ASSUME NEW k \in Pixels, AnyChannel("CTRL", k),
               pass' = "resolve" => k < i', pass' \in {"resolve", "preambles"}
        PROVE  tmds_p'[k] # {}
    <3>1. CASE k = i BY <3>1, <2>1, <1>8
    <3>2. CASE k # i
      <4>3. (i' = i + 1 /\ pass' = "resolve") \/ i = n-1
        BY <2>1, <1>7
      <4>4. k < i + 1 \/ i = n-1 BY <2>1, <4>3
      <4>1. k < i BY <4>4, <3>2, <1>2
      <4>2. tmds_p[k] # {} BY <4>1, <2>1, <1>1 DEF IInv, ControlKnown
      <4> QED BY <4>2, <3>2, <1>5
    <3> QED BY <3>1, <3>2
  <2>2. pass' \in {"resolve", "preambles", "write"} BY <1>7
  <2> QED BY <2>1, <2>2, <1>1, <1>2 DEF ControlKnown, AnyChannel
<1>12. \A k \in Pixels : tmds_p'[k] \cap DataFlags = {}
  <2>1. \A k \in Pixels : tmds_p[k] \cap DataFlags = {}
    BY <1>1 DEF IInv, IslandsKnown
  <2> QED BY <2>1, <1>2, <1>5 DEF DataFlags
<1>13. IslandsKnown'
  BY <1>1, <1>2, <1>7, <1>12 DEF IslandsKnown
<1>14. AllRunsWhole'
  <2>1. \A k \in Pixels : tmds_p[k] \cap DataFlags = {}
    BY <1>1 DEF IInv, IslandsKnown
  <2> QED BY <1>1, <1>2, <1>12, <2>1, SameDataRuns DEF IInv, DataFlags
<1>15. NonVideoIsImpossible'
  BY DEF ResolveControl, Break, IInv, NonVideoIsImpossible, NON_VIDEO
<1> QED BY <1>1, <1>9, <1>10, <1>11, <1>13, <1>14, <1>15, NoFile DEF IInv

LEMMA PreamblesStep == ASSUME IInv, DetectPreambles PROVE IInv'
<1> DEFINE k0 == At(i)
<1>1. /\ tmds' = tmds /\ ch' = ch /\ m_protocol' = m_protocol /\ m_start' = m_start
      /\ tmds_ch_p' = tmds_ch_p /\ tmds_c' = tmds_c /\ tmds_sync' = tmds_sync
      /\ sync' = sync /\ file' = file /\ pass = "preambles"
  BY DEF DetectPreambles
<1>2. /\ tmds \in Seq(Pixel) /\ n > 0 /\ n \in Nat /\ Pixels = 0 .. n-1
      /\ n' = n /\ Pixels' = Pixels /\ i \in -1 .. n-1 /\ m_start \in -1 .. n-1
  BY <1>1, Basics, SameCapture DEF IInv, Types, Counters
<1>3. k0 \in Pixels
  BY <1>2 DEF At
<1> HIDE DEF k0
<1>4. tmds_p \in [Pixels -> SUBSET Flag] BY DEF IInv, Types, Tables
<1>5. \/ tmds_p' = tmds_p /\ Loop(0)
      \/ \E pre \in {{}, {"VIDEO_PRE"}, {"DATA_PRE"}} :
           tmds_p' = [tmds_p EXCEPT ![k0] = @ \cup pre] /\ Loop(0)
      \/ /\ tmds_p' = tmds_p
         /\ pass' = "write" /\ i' = 0 /\ p_count' = 0 /\ p_type' = ""
  <2> DEFINE ctl == <<tmds_c[1][k0], tmds_c[2][k0]>>
  <2>1. CASE "CTRL" \in tmds_p[k0] /\ ctl \in DOMAIN PreambleOf
    <3>1. PreambleOf[ctl] \in {{}, {"VIDEO_PRE"}, {"DATA_PRE"}}
      BY <2>1 DEF PreambleOf
    <3>2. tmds_p' = [tmds_p EXCEPT ![k0] = @ \cup PreambleOf[ctl]] /\ Loop(0)
      BY <2>1 DEF DetectPreambles, k0
    <3> QED BY <3>1, <3>2
  <2>2. CASE ~("CTRL" \in tmds_p[k0] /\ ctl \in DOMAIN PreambleOf)
    BY <2>2, Stops DEF DetectPreambles, k0
  <2> QED BY <2>1, <2>2
<1>6. /\ tmds_p' \in [Pixels -> SUBSET Flag]
      /\ \A k \in Pixels : tmds_p[k] # {} => tmds_p'[k] # {}
      /\ \A k \in Pixels : tmds_p'[k] \cap DataFlags = {}
      /\ \A k \in Pixels : tmds_p[k] \cap DataFlags = {}
  <2>1. \A k \in Pixels : tmds_p[k] \cap DataFlags = {}
    BY <1>1 DEF IInv, IslandsKnown
  <2>2. CASE tmds_p' = tmds_p
    BY <2>1, <2>2, <1>4
  <2>3. ASSUME NEW pre \in {{}, {"VIDEO_PRE"}, {"DATA_PRE"}},
               tmds_p' = [tmds_p EXCEPT ![k0] = @ \cup pre]
        PROVE  <1>6!1 /\ <1>6!2 /\ <1>6!3
    <3>1. pre \in SUBSET Flag /\ pre \cap DataFlags = {}
      BY DEF Flag, DataFlags
    <3>2. /\ tmds_p' \in [Pixels -> SUBSET Flag] /\ tmds_p'[k0] = tmds_p[k0] \cup pre
          /\ \A k \in Pixels : k # k0 => tmds_p'[k] = tmds_p[k]
      BY <2>3, <3>1, <1>3, <1>4
    <3> QED BY <3>1, <3>2, <2>1, <1>3
  <2> QED BY <1>5, <2>1, <2>2, <2>3
<1>7. \/ /\ i # n-1 /\ i' = i + 1 /\ pass' = "preambles"
         /\ p_count' = p_count /\ p_type' = p_type
      \/ pass' \in {"islands", "write"} /\ i' = 0 /\ p_count' = 0 /\ p_type' = ""
  BY <1>1, <1>5, Moves, TableValues
<1>8. Types'
  <2>1. Tables' BY <1>1, <1>2, <1>6 DEF IInv, Types, Tables
  <2>2. Counters'
    <3>1. Counters /\ m_start' \in -1 .. n-1 /\ sync' \in -1 .. 3
      BY <1>1 DEF IInv, Types, Counters
    <3>2. \/ i # n-1 /\ i' = i + 1 /\ p_count' = p_count /\ pass' # "islands"
          \/ i' = 0 /\ p_count' = 0
      BY <1>7
    <3> QED BY <1>1, <1>2, <3>1, <3>2, CountersNext
  <2>3. Names'
    <3>1. pass' \in {"preambles", "islands", "write"} /\ p_type' \in PTypes
      BY <1>7 DEF IInv, Types, Names, PTypes
    <3>2. error' \in Messages /\ stop' \in BOOLEAN
      BY DEF DetectPreambles, Break, IInv, Types, Names, Messages
    <3> QED BY <3>1, <3>2, <1>1 DEF IInv, Types, Names
  <2> QED BY <1>1, <1>2, <2>1, <2>2, <2>3 DEF Types
<1>9. ChannelsKnown'
  BY <1>1, <1>7, SameChannels DEF IInv
<1>10. ControlKnown'
  BY <1>1, <1>2, <1>6, <1>7 DEF IInv, ControlKnown, AnyChannel
<1>11. IslandsKnown'
  <2>1. pass' # "islands" \/ (p_type' = "" /\ i' = 0) BY <1>7
  <2>2. \A k \in Pixels' : tmds_p'[k] \cap DataFlags = {} BY <1>2, <1>6
  <2>3. CASE pass' # "islands"
    BY <2>2, <2>3 DEF IslandsKnown
  <2>4. CASE p_type' = "" /\ i' = 0
    <3>1. i' = 0 BY <2>4
    <3>2. ~(i' > 0) BY <3>1
    <3>3. p_type' # "data_gb_leading" /\ p_type' # "data" BY <2>4
    <3> QED BY <2>2, <3>2, <3>3 DEF IslandsKnown
  <2> QED BY <2>1, <2>3, <2>4
<1>12. AllRunsWhole'
  BY <1>1, <1>2, <1>6, SameDataRuns DEF IInv, DataFlags
<1>13. NonVideoIsImpossible'
  BY DEF DetectPreambles, Break, IInv, NonVideoIsImpossible, NON_VIDEO
<1> QED BY <1>1, <1>8, <1>9, <1>10, <1>11, <1>12, <1>13, NoFile DEF IInv

------------------------------------------------------------------------------
(* The machine over p_type.                                                *)

\* What it may mark a pixel with, given what it knows of the pixels before.
MayMark(f, type, count) ==
  /\ f \in {{}, {"VIDEO_GB"}, {"DATA_GB_LEADING"}, {"DATA"}, {"DATA_GB_TRAILING"}}
  /\ type \in PTypes
  /\ count \in {0, 1, p_count, p_count + 1}
  /\ f \cap DataFlags # {} => "DATA" \in tmds_ch_p[0][i]
  /\ "DATA" \notin f => type # "data"
  /\ "DATA" \in f => /\ type = "data"
                     /\ \/ p_type = "data" /\ count = p_count + 1
                        \/ p_type = "data_gb_leading" /\ count = 1
  /\ "DATA_GB_TRAILING" \in f /\ p_type = "data" =>
       p_count % PACKET_LEN = 0 /\ ~(p_count \div PACKET_LEN > PACKET_MAX)
Goes == \E f \in SUBSET Flag, type \in PTypes, count \in {0, 1, p_count, p_count + 1} :
          MayMark(f, type, count) /\ Mark(f, type, count)
Gives == \E what \in Messages \ {NON_VIDEO} : Fail(what)
Dies == /\ pass' = "exception" /\ error' = "NameError: printf"
        /\ UNCHANGED <<tmds_p, i, p_count, p_type, stop>>

LEMMA Going ==
  ASSUME NEW f, NEW type, NEW count, MayMark(f, type, count), Mark(f, type, count)
  PROVE  Goes
<1>1. f \in SUBSET Flag BY DEF MayMark, Flag, ChannelFlag
<1>2. type \in PTypes /\ count \in {0, 1, p_count, p_count + 1} BY DEF MayMark
<1> QED BY <1>1, <1>2 DEF Goes

LEMMA Failing ==
  ASSUME NEW what,
         what \in {"bad preamble length", "expected guardband after preamble",
                   "bad video guardband length", "bad leading data guardband length",
                   "non-integer multiple of data packets",
                   "too many consecutive data packets",
                   "expected trailing data guardband after data",
                   "bad trailing data guardband length",
                   "expected control period after data island"},
         Fail(what)
  PROVE  Gives
BY DEF Gives, Messages, NON_VIDEO

\* No pixel is marked as the trailing guardband of a run that is not whole.
LEMMA IslandsDo ==
  ASSUME DetectIslands
  PROVE  Goes \/ Gives \/ Dies
<1>1. ASSUME NEW pre, NEW isGb, NEW gb, NEW next,
             InPreamble(pre, isGb, gb, next), p_type # "data",
             \/ gb = "VIDEO_GB" /\ next = "video_gb"
             \/ gb = "DATA_GB_LEADING" /\ next = "data_gb_leading"
                /\ (isGb => "DATA" \in tmds_ch_p[0][i]),
             p_type \in PTypes
      PROVE  Goes \/ Gives
  <2>1. CASE Mark({}, p_type, p_count + 1)
    <3>1. MayMark({}, p_type, p_count + 1) BY <1>1 DEF MayMark
    <3> QED BY <2>1, <3>1, Going
  <2>2. CASE isGb /\ Mark({gb}, next, 1)
    <3>1. MayMark({gb}, next, 1) BY <1>1, <2>2 DEF MayMark, DataFlags, PTypes
    <3> QED BY <2>2, <3>1, Going
  <2>3. CASE Fail("bad preamble length") \/ Fail("expected guardband after preamble")
    BY <2>3, Failing
  <2> QED BY <1>1, <2>1, <2>2, <2>3 DEF InPreamble, Same
<1>2. CASE p_type = "video_pre" /\ InPreamble("VIDEO_PRE", IsVideoGb(i), "VIDEO_GB", "video_gb")
  BY <1>1, <1>2 DEF PTypes
<1>3. CASE /\ p_type = "data_pre"
           /\ InPreamble("DATA_PRE", IsDataGb(i), "DATA_GB_LEADING", "data_gb_leading")
  BY <1>1, <1>3 DEF PTypes, IsDataGb
<1>4. CASE p_type = "video_gb" /\ InVideoGb
  <2>1. CASE Mark({"VIDEO_GB"}, p_type, p_count + 1)
    <3>1. MayMark({"VIDEO_GB"}, p_type, p_count + 1) BY <1>4 DEF MayMark, DataFlags, PTypes
    <3> QED BY <2>1, <3>1, Going
  <2>2. CASE Mark({}, "", 0)
    <3>1. MayMark({}, "", 0) BY DEF MayMark, PTypes
    <3> QED BY <2>2, <3>1, Going
  <2>3. CASE Fail("bad video guardband length")
    BY <2>3, Failing
  <2> QED BY <1>4, <2>1, <2>2, <2>3 DEF InVideoGb, Same
<1>5. CASE p_type = "data_gb_leading" /\ InDataGbLeading
  <2>1. CASE IsDataGb(i) /\ Mark({"DATA_GB_LEADING"}, p_type, p_count + 1)
    <3>1. MayMark({"DATA_GB_LEADING"}, p_type, p_count + 1)
      BY <1>5, <2>1 DEF MayMark, DataFlags, PTypes, IsDataGb
    <3> QED BY <2>1, <3>1, Going
  <2>2. CASE IsData(i) /\ Mark({"DATA"}, "data", 1)
    <3>1. "DATA" \in tmds_ch_p[0][i] BY <2>2 DEF IsData, AllChannels, Channel
    <3>2. MayMark({"DATA"}, "data", 1) BY <1>5, <3>1 DEF MayMark, PTypes
    <3> QED BY <2>2, <3>2, Going
  <2>3. CASE Fail("bad leading data guardband length")
    BY <2>3, Failing
  <2> QED BY <1>5, <2>1, <2>2, <2>3 DEF InDataGbLeading, Same, Dies
<1>6. CASE p_type = "data" /\ InData
  <2>1. CASE IsData(i) /\ Mark({"DATA"}, p_type, p_count + 1)
    <3>1. "DATA" \in tmds_ch_p[0][i] BY <2>1 DEF IsData, AllChannels, Channel
    <3>2. MayMark({"DATA"}, p_type, p_count + 1) BY <1>6, <3>1 DEF MayMark, PTypes
    <3> QED BY <2>1, <3>2, Going
  <2>2. CASE /\ p_count % PACKET_LEN = 0 /\ ~(p_count \div PACKET_LEN > PACKET_MAX)
             /\ IsDataGb(i) /\ Mark({"DATA_GB_TRAILING"}, "data_gb_trailing", 1)
    <3>1. "DATA" \in tmds_ch_p[0][i] BY <2>2 DEF IsDataGb
    <3>2. MayMark({"DATA_GB_TRAILING"}, "data_gb_trailing", 1)
      BY <1>6, <2>2, <3>1 DEF MayMark, PTypes
    <3> QED BY <2>2, <3>2, Going
  <2>3. CASE \/ Fail("non-integer multiple of data packets")
             \/ Fail("too many consecutive data packets")
             \/ Fail("expected trailing data guardband after data")
    BY <2>3, Failing
  <2> QED BY <1>6, <2>1, <2>2, <2>3 DEF InData, Same
<1>7. CASE p_type = "data_gb_trailing" /\ InDataGbTrailing
  <2>1. CASE IsDataGb(i) /\ Mark({"DATA_GB_TRAILING"}, p_type, p_count + 1)
    <3>1. MayMark({"DATA_GB_TRAILING"}, p_type, p_count + 1)
      BY <1>7, <2>1 DEF MayMark, DataFlags, PTypes, IsDataGb
    <3> QED BY <2>1, <3>1, Going
  <2>2. CASE Mark({}, "", 0)
    <3>1. MayMark({}, "", 0) BY DEF MayMark, PTypes
    <3> QED BY <2>2, <3>1, Going
  <2>3. CASE \/ Fail("bad trailing data guardband length")
             \/ Fail("expected control period after data island")
    BY <2>3, Failing
  <2> QED BY <1>7, <2>1, <2>2, <2>3 DEF InDataGbTrailing, Same
<1>8. CASE p_type = "" /\ Outside
  <2>1. CASE Mark({}, "video_pre", 1)
    <3>1. MayMark({}, "video_pre", 1) BY DEF MayMark, PTypes
    <3> QED BY <2>1, <3>1, Going
  <2>2. CASE Mark({}, "data_pre", 1)
    <3>1. MayMark({}, "data_pre", 1) BY DEF MayMark, PTypes
    <3> QED BY <2>2, <3>1, Going
  <2>3. CASE Mark({}, p_type, p_count)
    <3>1. MayMark({}, p_type, p_count) BY <1>8 DEF MayMark, PTypes
    <3> QED BY <2>3, <3>1, Going
  <2> QED BY <1>8, <2>1, <2>2, <2>3 DEF Outside
<1> QED BY <1>2, <1>3, <1>4, <1>5, <1>6, <1>7, <1>8 DEF DetectIslands

\* A count that is a multiple of the length of a packet is a number of packets.
LEMMA WholePackets ==
  ASSUME NEW count \in Nat, count > 0, count % PACKET_LEN = 0,
         ~(count \div PACKET_LEN > PACKET_MAX)
  PROVE  \E packets \in 1 .. PACKET_MAX : count = packets * PACKET_LEN
<1>1. PACKET_LEN \in Nat /\ PACKET_LEN > 0 /\ PACKET_MAX \in Nat
  BY LengthAssumption
<1> DEFINE q == count \div PACKET_LEN
<1>2. q \in Int /\ count = q * PACKET_LEN
  BY <1>1
<1>3. q > 0
  <2>1. CASE q <= 0
    <3>1. q * PACKET_LEN <= 0 BY <1>1, <1>2, <2>1
    <3> QED BY <3>1, <1>2
  <2> HIDE DEF q
  <2> QED BY <2>1, <1>2
<1>4. q \in 1 .. PACKET_MAX
  BY <1>1, <1>2, <1>3
<1> QED BY <1>2, <1>4

LEMMA IslandsStep == ASSUME IInv, DetectIslands PROVE IInv'
<1>1. /\ tmds' = tmds /\ ch' = ch /\ m_protocol' = m_protocol /\ m_start' = m_start
      /\ tmds_ch_p' = tmds_ch_p /\ tmds_c' = tmds_c /\ tmds_sync' = tmds_sync
      /\ sync' = sync /\ file' = file /\ pass = "islands"
  BY DEF DetectIslands
<1>2. /\ tmds \in Seq(Pixel) /\ n > 0 /\ n \in Nat /\ Pixels = 0 .. n-1
      /\ n' = n /\ Pixels' = Pixels /\ i \in Pixels
  BY <1>1, Basics, SameCapture DEF IInv, Types, Counters
<1>3. tmds_p \in [Pixels -> SUBSET Flag] BY DEF IInv, Types, Tables
<1>4. p_count \in Nat /\ p_count <= i /\ p_count <= n
  BY <1>1, <1>2 DEF IInv, Types, Counters
<1>5. CASE Gives \/ Dies
  <2>1. tmds_p' = tmds_p /\ pass' \in {"write", "exception"}
    BY <1>5, Stops DEF Gives, Fail, Dies
  <2>2. (i' = 0 /\ p_count' = 0) \/ (i' = i /\ p_count' = p_count)
    BY <1>5, Stops DEF Gives, Fail, Dies
  <2>3. p_type' \in PTypes /\ error' \in Messages \ {NON_VIDEO} /\ stop' \in BOOLEAN
    BY <1>5, Stops DEF Gives, Fail, Dies, IInv, Types, Names, PTypes, Messages, NON_VIDEO
  <2>4. Types'
    <3>1. Tables' BY <1>1, <1>2, <2>1 DEF IInv, Types, Tables
    <3>2. Counters'
      <4>1. i' \in -1 .. n-1 /\ i' # -1 /\ p_count' \in 0 .. n
        BY <1>2, <1>4, <2>2
      <4>2. pass' # "islands" BY <2>1
      <4> QED BY <1>1, <1>2, <4>1, <4>2 DEF IInv, Types, Counters
    <3>3. Names' BY <1>1, <2>1, <2>3 DEF IInv, Types, Names
    <3> QED BY <1>1, <1>2, <3>1, <3>2, <3>3 DEF Types
  <2>5. ChannelsKnown' BY <1>1, <2>1, SameChannels DEF IInv
  <2>6. ControlKnown' /\ IslandsKnown'
    BY <1>1, <1>2, <2>1 DEF IInv, ControlKnown, IslandsKnown
  <2>7. NonVideoIsImpossible' BY <2>3 DEF NonVideoIsImpossible
  <2> QED BY <1>1, <2>1, <2>4, <2>5, <2>6, <2>7, SameRuns, NoFile DEF IInv
<1>6. CASE Goes
  <2>1. PICK f \in SUBSET Flag, type \in PTypes, count \in {0, 1, p_count, p_count + 1} :
          MayMark(f, type, count) /\ Mark(f, type, count)
    BY <1>6 DEF Goes
  <2>2. /\ tmds_p' \in [Pixels -> SUBSET Flag]
        /\ tmds_p'[i] = tmds_p[i] \cup f
        /\ \A k \in Pixels : k # i => tmds_p'[k] = tmds_p[k]
    <3>1. tmds_p' = [tmds_p EXCEPT ![i] = @ \cup f] BY <2>1 DEF Mark
    <3> QED BY <3>1, <1>2, <1>3
  <2>3. error' = error /\ stop' = stop
    BY <2>1 DEF Mark, Advance
  <2>4. \/ i = n-1 /\ pass' = "video" /\ i' = 0 /\ p_count' = 0 /\ p_type' = ""
        \/ i # n-1 /\ pass' = "islands" /\ i' = i + 1 /\ p_count' = count /\ p_type' = type
    BY <1>1, <2>1, TableValues DEF Mark, Advance, NewPass
  <2>5. \A k \in Pixels : k >= i => tmds_p[k] \cap DataFlags = {}
    BY <1>1 DEF IInv, IslandsKnown
  <2>6. Types'
    <3>1. Tables' BY <1>1, <1>2, <2>2 DEF IInv, Types, Tables
    <3>2. Counters'
      <4>1. (i' = 0 /\ p_count' = 0) \/ (i # n-1 /\ i' = i + 1 /\ p_count' = count)
        BY <2>4
      <4>2. count \in Nat /\ count <= i + 1
        BY <1>2, <1>4
      <4>3. i' \in -1 .. n-1 /\ i' # -1 /\ p_count' \in 0 .. n /\ p_count' <= i'
        BY <4>1, <4>2, <1>2
      <4> QED BY <1>1, <1>2, <4>3 DEF IInv, Types, Counters
    <3>3. Names' BY <1>1, <2>3, <2>4 DEF IInv, Types, Names, PTypes
    <3> QED BY <1>1, <1>2, <3>1, <3>2, <3>3 DEF Types
  <2>7. ChannelsKnown'
    <3>1. pass' # "prelim" BY <2>4
    <3> QED BY <1>1, <3>1, SameChannels DEF IInv
  <2>8. ControlKnown'
    <3>1. \A k \in Pixels : tmds_p[k] # {} => tmds_p'[k] # {}
      BY <2>2
    <3>2. pass' # "resolve" BY <2>4
    <3> QED BY <1>1, <1>2, <3>1, <3>2 DEF IInv, ControlKnown, AnyChannel
  <2>9. "DATA" \in tmds_p'[i] <=> "DATA" \in f
    BY <1>2, <2>2, <2>5 DEF DataFlags
  <2>10. IslandsKnown'
    <3>1. \A k \in Pixels : tmds_p'[k] \cap DataFlags # {} => "DATA" \in tmds_ch_p[0][k]
      <4>1. f \cap DataFlags # {} => "DATA" \in tmds_ch_p[0][i]
        BY <2>1 DEF MayMark
      <4>2. tmds_p'[i] \cap DataFlags = f \cap DataFlags
        BY <1>2, <2>2, <2>5
      <4> QED BY <4>1, <4>2, <2>2 DEF IInv, IslandsKnown
    <3>2. CASE i = n-1 /\ pass' = "video"
      BY <1>1, <1>2, <3>1, <3>2 DEF IslandsKnown
    <3>3. CASE i # n-1 /\ pass' = "islands" /\ i' = i + 1 /\ p_count' = count /\ p_type' = type
      <4>1. \A k \in Pixels : k >= i + 1 => tmds_p'[k] \cap DataFlags = {}
        BY <1>2, <2>2, <2>5
      <4>2. type # "data" => "DATA" \notin tmds_p'[i]
        BY <2>1, <2>9 DEF MayMark
      <4>3. ASSUME type = "data"
            PROVE  /\ 0 < count /\ count < i + 1
                   /\ \A k \in i+1-count .. i : "DATA" \in tmds_p'[k]
                   /\ "DATA" \notin tmds_p'[i-count]
        <5>1. "DATA" \in f BY <4>3, <2>1 DEF MayMark
        <5>2. CASE p_type = "data" /\ count = p_count + 1
          <6>1. /\ 0 < p_count /\ p_count < i
                /\ \A k \in i-p_count .. i-1 : "DATA" \in tmds_p[k]
                /\ "DATA" \notin tmds_p[i-p_count-1]
            BY <5>2, <1>1 DEF IInv, IslandsKnown
          <6>2. i - p_count - 1 \in Pixels /\ i - p_count - 1 # i
            BY <6>1, <1>2, <1>4
          <6>3. ASSUME NEW k \in i-p_count .. i PROVE "DATA" \in tmds_p'[k]
            <7>1. CASE k = i BY <7>1, <5>1, <2>9
            <7>2. CASE k # i
              <8>1. k \in i-p_count .. i-1 /\ k \in Pixels
                BY <7>2, <6>1, <1>2, <1>4
              <8> QED BY <8>1, <7>2, <6>1, <2>2
            <7> QED BY <7>1, <7>2
          <6>4. i + 1 - count = i - p_count /\ i - count = i - p_count - 1
            BY <5>2, <1>2, <1>4
          <6>5. 0 < count /\ count < i + 1
            BY <5>2, <6>1, <1>2, <1>4
          <6> QED BY <6>1, <6>2, <6>3, <6>4, <6>5, <2>2
        <5>3. CASE p_type = "data_gb_leading" /\ count = 1
          <6>1. i > 0 /\ "DATA" \notin tmds_p[i-1]
            BY <5>3, <1>1 DEF IInv, IslandsKnown
          <6>2. i - 1 \in Pixels /\ i - 1 # i /\ 0 < count /\ count < i + 1
            BY <6>1, <5>3, <1>2
          <6>3. \A k \in i+1-count .. i : k = i
            BY <5>3, <1>2
          <6>4. i - count = i - 1 BY <5>3
          <6> QED BY <6>1, <6>2, <6>3, <6>4, <5>1, <2>2, <2>9
        <5> QED BY <5>1, <5>2, <5>3, <2>1 DEF MayMark
      <4>4. i' > 0 /\ i' - 1 = i /\ i' - p_count' = i + 1 - count
            /\ i' - p_count' - 1 = i - count
        <5>1. i' = i + 1 /\ p_count' = count /\ count \in Nat
          BY <3>3, <1>4
        <5> QED BY <5>1, <1>2
      <4>5. \A k \in Pixels' : k >= i' => tmds_p'[k] \cap DataFlags = {}
        BY <3>3, <4>1, <1>2
      <4>6. p_type' # "data" => "DATA" \notin tmds_p'[i'-1]
        BY <3>3, <4>2, <4>4
      <4>7. p_type' = "data" =>
              /\ 0 < p_count' /\ p_count' < i'
              /\ \A k \in i'-p_count' .. i'-1 : "DATA" \in tmds_p'[k]
              /\ "DATA" \notin tmds_p'[i'-p_count'-1]
        BY <3>3, <4>3, <4>4
      <4>8. \A k \in Pixels' : tmds_p'[k] \cap DataFlags # {} => "DATA" \in tmds_ch_p'[0][k]
        BY <1>1, <1>2, <3>1
      <4> QED BY <3>3, <4>4, <4>5, <4>6, <4>7, <4>8 DEF IslandsKnown
    <3> QED BY <2>4, <3>2, <3>3
  <2>11. AllRunsWhole'
    <3> SUFFICES ASSUME NEW a \in Pixels, NEW b \in a .. n-2,
                        DataRun(a, b)', "DATA_GB_TRAILING" \in tmds_p'[b+1]
                 PROVE  \E packets \in 1 .. PACKET_MAX : b - a + 1 = packets * PACKET_LEN
      BY <1>2 DEF AllRunsWhole
    <3>1. /\ a > 0 /\ a - 1 \in Pixels /\ "DATA" \notin tmds_p'[a-1]
          /\ \A k \in a .. b : "DATA" \in tmds_p'[k]
          /\ b \in Pixels /\ b + 1 \in Pixels /\ a <= b
      BY <1>2 DEF DataRun
    <3>2. b + 1 <= i
      <4>1. CASE b + 1 > i
        <5>1. b + 1 # i /\ b + 1 >= i BY <4>1, <3>1, <1>2
        <5>2. tmds_p'[b+1] \cap DataFlags = {} BY <5>1, <3>1, <2>2, <2>5
        <5> QED BY <5>2 DEF DataFlags
      <4> QED BY <4>1, <3>1, <1>2
    <3>3. \A k \in a .. b : k \in Pixels /\ k # i /\ tmds_p'[k] = tmds_p[k]
      BY <3>1, <3>2, <1>2, <2>2
    <3>4. tmds_p'[a-1] = tmds_p[a-1]
      BY <3>1, <3>2, <1>2, <2>2
    <3>5. CASE b + 1 # i
      <4>1. DataRun(a, b) /\ "DATA_GB_TRAILING" \in tmds_p[b+1]
        BY <3>1, <3>3, <3>4, <3>5, <2>2 DEF DataRun
      <4> QED BY <4>1 DEF IInv, AllRunsWhole
    <3>6. CASE b + 1 = i
      <4>1. i > 0 /\ b = i - 1 /\ "DATA" \in tmds_p[i-1]
        <5>1. b = i - 1 /\ i > 0 /\ b \in a .. b BY <3>1, <3>6, <1>2
        <5> QED BY <5>1, <3>1, <3>3
      <4>2. p_type = "data"
        BY <4>1, <1>1 DEF IInv, IslandsKnown
      <4>3. /\ 0 < p_count /\ p_count < i
            /\ \A k \in i-p_count .. i-1 : "DATA" \in tmds_p[k]
            /\ "DATA" \notin tmds_p[i-p_count-1]
        BY <4>2, <1>1 DEF IInv, IslandsKnown
      <4>4. a = i - p_count
        <5>1. CASE a > i - p_count
          <6>1. a - 1 \in i-p_count .. i-1 BY <5>1, <4>1, <3>1, <1>2, <1>4
          <6> QED BY <6>1, <4>3, <3>1, <3>4
        <5>2. CASE a < i - p_count
          <6>1. i - p_count - 1 \in a .. b BY <5>2, <4>1, <4>3, <3>1, <1>2, <1>4
          <6> QED BY <6>1, <4>3, <3>1, <3>3
        <5> QED BY <5>1, <5>2, <1>2, <1>4
      <4>5. "DATA_GB_TRAILING" \in f
        BY <3>6, <1>2, <2>2, <2>5 DEF DataFlags
      <4>6. p_count % PACKET_LEN = 0 /\ ~(p_count \div PACKET_LEN > PACKET_MAX)
        BY <4>2, <4>5, <2>1 DEF MayMark
      <4>7. b - a + 1 = p_count
        BY <4>1, <4>4, <1>2, <1>4
      <4> QED BY <4>3, <4>6, <4>7, <1>4, WholePackets
    <3> QED BY <3>5, <3>6
  <2>12. NonVideoIsImpossible' BY <2>3 DEF IInv, NonVideoIsImpossible
  <2> QED BY <1>1, <2>6, <2>7, <2>8, <2>10, <2>11, <2>12, NoFile DEF IInv
<1> QED BY <1>5, <1>6, IslandsDo

------------------------------------------------------------------------------
(* The theorems.                                                           *)

LEMMA NextIInv == IInv /\ [Next]_vars => IInv'
<1> SUFFICES ASSUME IInv, [Next]_vars PROVE IInv'
  OBVIOUS
<1>1. CASE UNCHANGED vars
  <2>1. /\ tmds' = tmds /\ pass' = pass /\ ch' = ch /\ i' = i
        /\ m_protocol' = m_protocol /\ m_start' = m_start /\ tmds_ch_p' = tmds_ch_p
        /\ tmds_c' = tmds_c /\ tmds_p' = tmds_p /\ tmds_sync' = tmds_sync
        /\ p_count' = p_count /\ p_type' = p_type /\ sync' = sync
        /\ error' = error /\ stop' = stop /\ file' = file
    BY <1>1 DEF vars, results
  <2>2. n' = n /\ Pixels' = Pixels
    BY <2>1, SameCapture
  <2>3. Types'
    BY <2>1, <2>2 DEF IInv, Types, Tables, Counters, Names
  <2>4. ChannelsKnown' /\ ControlKnown' /\ IslandsKnown'
    BY <2>1, <2>2, SameCapture
    DEF IInv, ChannelsKnown, Detected, ControlKnown, IslandsKnown, AnyChannel
  <2>5. DecodedData' = DecodedData
    BY <2>1, <2>2 DEF DecodedData, Protocol01
  <2>6. FileIsTheResult' /\ NonVideoIsImpossible'
    BY <2>1, <2>5 DEF IInv, FileIsTheResult, NonVideoIsImpossible
  <2> QED BY <2>1, <2>3, <2>4, <2>6, SameRuns DEF IInv
<1>2. CASE Next
  BY <1>2, PrelimStep, ResolveStep, PreamblesStep, IslandsStep, VideoStep,
     SyncsStep, WriteStep, ReadStep DEF Next
<1> QED BY <1>1, <1>2

LEMMA SpecIInv == Spec => []IInv
BY InitIInv, NextIInv, PTL DEF Spec

\* The variables keep their types whatever was captured: no pass leaves the
\* capture, and a file has its fourteen fields.
THEOREM TypeCorrect == Spec => []TypeOK
<1>1. IInv => TypeOK
  <2> SUFFICES ASSUME IInv PROVE TypeOK
    OBVIOUS
  <2>1. pass \in DOMAIN NextPass \cup {"write", "done", "read", "exception"}
    BY DEF IInv, Types, Names, NextPass
  <2>2. file = <<>> \/ Len(file) = 14
    BY DEF IInv, FileIsTheResult, DecodedData
  <2>3. i \in -1 .. n-1 /\ ch \in Channel /\ m_start \in -1 .. n-1
        /\ p_count \in 0 .. n /\ sync \in -1 .. 3
    BY DEF IInv, Types, Counters
  <2>4. /\ m_protocol \in {"DVI", "HDMI"} /\ error \in Messages /\ stop \in BOOLEAN
        /\ p_type \in {"", "video_pre", "video_gb", "data_pre", "data_gb_leading",
                       "data", "data_gb_trailing"}
    BY DEF IInv, Types, Names, PTypes
  <2> QED BY <2>1, <2>2, <2>3, <2>4 DEF TypeOK, IInv, Types, Tables
<1> QED BY <1>1, SpecIInv, PTL

\* The error that the source calls impossible is: the passes before have given
\* every pixel of the capture a period, or know it as video on all channels.
THEOREM NonVideoNeverFound == Spec => []NonVideoIsImpossible
<1>1. IInv => NonVideoIsImpossible BY DEF IInv
<1> QED BY <1>1, SpecIInv, PTL

\* For every capture and every length of a packet: a run of data pixels that
\* is followed by a trailing guardband is a whole number of packets.
THEOREM IslandsAreWholePackets == Spec => []IslandsAreWhole
<1>1. IInv => IslandsAreWhole BY DEF IInv, AllRunsWhole, IslandsAreWhole
<1> QED BY <1>1, SpecIInv, PTL

\* What a run writes with -w, a run with -r finds again, field by field.
THEOREM FileGivesBackTheResult == Spec => RereadIsTheSame
<1>1. IInv /\ [Next]_vars => [pass' = "read" => UNCHANGED <<tmds, results>>]_vars
  <2> SUFFICES ASSUME IInv, Next, pass' = "read" PROVE UNCHANGED <<tmds, results>>
    OBVIOUS
  <2>1. CASE ReadDecoded BY <2>1, ReadGivesBack
  <2>2. CASE WriteDecoded BY <2>2 DEF WriteDecoded
  <2>3. CASE PrelimDetect
    BY <2>3, PrelimMoves DEF IInv, Types, PrelimDetect
  <2>4. ASSUME NEW start, Loop(start),
               pass \in {"resolve", "preambles", "islands", "video", "syncs"}
        PROVE  pass' # "read"
    BY <2>4, Moves, TableValues
  <2>5. ASSUME NEW what, Break(what) PROVE pass' # "read"
    BY <2>5, Stops
  <2>6. CASE ResolveControl
    <3>1. Loop(m_start') \/ Loop(m_start) \/ \E what \in Messages : Break(what)
      BY <2>6 DEF ResolveControl, Messages
    <3> QED BY <2>4, <2>5, <2>6, <3>1 DEF ResolveControl
  <2>7. CASE DetectPreambles
    <3>1. Loop(0) \/ \E what \in Messages : Break(what)
      BY <2>7 DEF DetectPreambles, Messages
    <3> QED BY <2>4, <2>5, <2>7, <3>1 DEF DetectPreambles
  <2>8. CASE DetectIslands
    <3>1. Goes => pass' # "read"
      <4>1. pass = "islands" BY <2>8 DEF DetectIslands
      <4> QED BY <4>1, TableValues DEF Goes, Mark, Advance, NewPass
    <3> QED BY <2>5, <2>8, <3>1, IslandsDo DEF Gives, Fail, Dies
  <2>9. CASE DetectVideo
    BY <2>4, <2>5, <2>9 DEF DetectVideo, Fail
  <2>10. CASE ResolveSyncs
    BY <2>4, <2>10 DEF ResolveSyncs
  <2> QED BY <2>1, <2>2, <2>3, <2>6, <2>7, <2>8, <2>9, <2>10 DEF Next
<1> QED BY <1>1, SpecIInv, PTL DEF Spec, RereadIsTheSame

\* For every capture: the flags are of their types, no pixel is found that no
\* period explains, and islands are whole packets.
THEOREM PeriodsSound == Spec => []PeriodsAreSound
BY TypeCorrect, NonVideoNeverFound, IslandsAreWholePackets, PTL DEF PeriodsAreSound

------------------------------------------------------------------------------
(* What a source may send is decoded as it was sent.  From m_start on, which  *)
(* is a control pixel outside the preambles, each pass leaves of every pixel  *)
(* what can be told of it so far; in the machine over p_type, the period is   *)
(* that of the pixel before, and p_count the length of its run.               *)

Ctl == {"CTRL", "VIDEO_PRE", "DATA_PRE"}
Islandic == {"DATA_GB_LEADING", "DATA", "DATA_GB_TRAILING"}
Period == Ctl \cup Islandic \cup {"VIDEO_GB", "VIDEO"}
TypeOf == [CTRL |-> "", VIDEO |-> "", VIDEO_PRE |-> "video_pre", VIDEO_GB |-> "video_gb",
           DATA_PRE |-> "data_pre", DATA_GB_LEADING |-> "data_gb_leading",
           DATA |-> "data", DATA_GB_TRAILING |-> "data_gb_trailing"]

\* The flags of a pixel after "resolve", "preambles" and "islands".
First(k)  == IF Sent(k) \in Ctl THEN {"CTRL"} ELSE {}
Second(k) == IF k >= m_start /\ Sent(k) \in Ctl THEN FlagsOf(Sent(k)) ELSE First(k)
Third(k)  == IF Sent(k) = "VIDEO" THEN {} ELSE FlagsOf(Sent(k))

RunOf(f, a, b) == \A k \in a .. b : Sent(k) = f

ValuesKnown ==
  \A c \in Channel : \A k \in Pixels :
    (pass # "prelim" \/ c < ch \/ (c = ch /\ k < i)) /\ Sym(c, k) \in Ctrl =>
      tmds_c[c][k] = CIndex[Sym(c, k)]
StartKnown ==
  /\ pass = "prelim" => m_start = -1
  /\ pass = "resolve" => \/ m_start = -1 /\ \A k \in 0 .. i-1 : Sent(k) # "CTRL"
                         \/ m_start \in 0 .. i-1 /\ Sent(m_start) = "CTRL"
  /\ pass \notin {"prelim", "resolve"} => m_start \in Pixels /\ Sent(m_start) = "CTRL"
  /\ m_start # -1 => \A k \in Pixels : Sent(k) = "CTRL" => k >= m_start
  /\ pass = "preambles" => i >= m_start
RunKnown ==
  /\ pass \in {"prelim", "resolve"} => p_count = 0
  /\ pass = "islands" /\ i <= m_start => p_type = ""
  /\ pass = "islands" /\ i > m_start =>
       /\ p_type = TypeOf[Sent(i-1)]
       /\ p_type # "" => /\ 0 < p_count /\ i - p_count > m_start
                         /\ RunOf(Sent(i-1), i - p_count, i-1)
                         /\ Sent(i - p_count - 1) # Sent(i-1)
FlagsKnown ==
  /\ pass = "prelim" => \A k \in Pixels : tmds_p[k] = {}
  /\ pass = "resolve" => \A k \in Pixels : tmds_p[k] = IF k < i THEN First(k) ELSE {}
  /\ pass = "preambles" => \A k \in Pixels : tmds_p[k] = IF k < i THEN Second(k) ELSE First(k)
  /\ pass = "islands" => \A k \in Pixels : /\ k >= i => tmds_p[k] = Second(k)
                                           /\ k < i /\ k >= m_start => tmds_p[k] = Third(k)
  /\ pass = "video" => \A k \in FromStart : tmds_p[k] = IF k < i THEN FlagsOf(Sent(k)) ELSE Third(k)
  /\ pass \in {"syncs", "write", "done", "read"} => \A k \in FromStart : SortedAsSent(k)
SyncsKnown ==
  /\ pass = "syncs" => /\ i > m_start => sync = tmds[i].hv
                       /\ \A k \in FromStart : k < i => tmds_sync[k] = tmds[k+1].hv
  /\ pass \in {"write", "done", "read"} => \A k \in FromStart : tmds_sync[k] = tmds[k+1].hv
Undisturbed == error = "none" /\ stop = FALSE /\ pass # "exception"
LegalInv == Undisturbed /\ ValuesKnown /\ StartKnown /\ RunKnown /\ FlagsKnown /\ SyncsKnown

LEMMA SameSource ==
  ASSUME tmds' = tmds
  PROVE  /\ IsLegal' = IsLegal /\ n' = n /\ Pixels' = Pixels
         /\ \A k : Sent(k)' = Sent(k) /\ First(k)' = First(k) /\ Third(k)' = Third(k)
         /\ \A c, k : Sym(c, k)' = Sym(c, k)
<1>1. n' = n /\ Pixels' = Pixels /\ \A c, k : Sym(c, k)' = Sym(c, k)
  BY SameCapture
<1>2. \A k : Sent(k)' = Sent(k)
  BY DEF Sent
<1>3. \A k : First(k)' = First(k) /\ Third(k)' = Third(k)
  BY <1>2 DEF First, Third
<1>4. \A k : SentAs(k)' = SentAs(k)
  BY DEF SentAs
<1>5. Faults' = Faults
  BY <1>1, <1>4 DEF Faults
<1>6. LooksLikeGb' = LooksLikeGb
  BY <1>1 DEF LooksLikeGb
<1>7. FollowsTheStandard' = FollowsTheStandard
  <2>1. Sending' = Sending BY <1>1, <1>2 DEF Sending
  <2>2. Follows(Sending, n)' = Follows(Sending, n) BY <1>1, <2>1 DEF Follows, RunIn
  <2> QED BY <1>1, <1>2, <2>2 DEF FollowsTheStandard
<1> QED BY <1>1, <1>2, <1>3, <1>5, <1>6, <1>7 DEF IsLegal

LEMMA Undamaged == ASSUME IsLegal, NEW k \in Pixels PROVE SentAs(k)
BY DEF IsLegal, Faults

\* What the three characters of a pixel are that arrived as it was sent.
LEMMA SoundPixel ==
  ASSUME Types, NEW k \in Pixels, SentAs(k)
  PROVE  /\ tmds[k+1].hv \in 0 .. 3 /\ Sent(k) \in Period
         /\ Sent(k) \in Ctl => /\ Sym(0, k) \in Ctrl /\ CIndex[Sym(0, k)] = tmds[k+1].hv
                               /\ Sym(1, k) = IF Sent(k) = "CTRL" THEN "c0" ELSE "c1"
                               /\ Sym(2, k) = IF Sent(k) = "DATA_PRE" THEN "c1" ELSE "c0"
         /\ Sent(k) = "VIDEO_GB" => \A c \in Channel : Sym(c, k) = video_gb[c+1]
         /\ Sent(k) = "VIDEO" => \A c \in Channel : Sym(c, k) \notin Ctrl \cup {"x"}
         /\ Sent(k) \in Islandic => /\ Sym(0, k) \in Terc4
                                    /\ Terc4Low[Sym(0, k)] = tmds[k+1].hv
         /\ Sent(k) \in {"DATA_GB_LEADING", "DATA_GB_TRAILING"} => Sym(1, k) = "d" /\ Sym(2, k) = "d"
         /\ Sent(k) = "DATA" => Sym(1, k) \in Terc4 /\ Sym(2, k) \in Terc4
<1>1. tmds[k+1].hv \in 0 .. 3
  <2>1. tmds[k+1] \in Pixel
    <3>1. tmds \in Seq(Pixel) /\ k \in 0 .. n-1 /\ n = Len(tmds)
      BY Basics DEF Types, n
    <3> HIDE DEF Pixel
    <3> QED BY <3>1
  <2> QED BY <2>1 DEF Pixel
<1>2. SentAs(k)
  OBVIOUS
<1>3. Sent(k) \in Period
  BY <1>2 DEF SentAs, Sent, Period, Ctl, Islandic
<1>4. ASSUME Sent(k) \in Ctl
      PROVE  /\ Sym(0, k) = ControlSym[tmds[k+1].hv + 1]
             /\ Sym(1, k) = IF Sent(k) = "CTRL" THEN "c0" ELSE "c1"
             /\ Sym(2, k) = IF Sent(k) = "DATA_PRE" THEN "c1" ELSE "c0"
  BY <1>2, <1>4 DEF SentAs, Sent, Sym, Ctl
<1>5. \A h \in 0 .. 3 : ControlSym[h + 1] \in Ctrl /\ CIndex[ControlSym[h + 1]] = h
  <2>1. \A h \in 0 .. 3 : h = 0 \/ h = 1 \/ h = 2 \/ h = 3
    OBVIOUS
  <2> QED BY <2>1 DEF ControlSym, Ctrl, CIndex
<1>6. Sent(k) = "VIDEO_GB" => \A c \in Channel : Sym(c, k) = video_gb[c+1]
  BY <1>2 DEF SentAs, Sent, Sym
<1>7. Sent(k) = "VIDEO" => \A c \in Channel : Sym(c, k) \notin Ctrl \cup {"x"}
  BY <1>2 DEF SentAs, Sent, Sym
<1>8. Sent(k) \in Islandic => Sym(0, k) \in Terc4 /\ Terc4Low[Sym(0, k)] = tmds[k+1].hv
  BY <1>2 DEF SentAs, Sent, Sym, Islandic
<1>9. /\ Sent(k) \in {"DATA_GB_LEADING", "DATA_GB_TRAILING"} => Sym(1, k) = "d" /\ Sym(2, k) = "d"
      /\ Sent(k) = "DATA" => Sym(1, k) \in Terc4 /\ Sym(2, k) \in Terc4
  BY <1>2 DEF SentAs, Sent, Sym
<1> QED BY <1>1, <1>3, <1>4, <1>5, <1>6, <1>7, <1>8, <1>9

\* The periods of a pixel's characters tell as much of what was sent as the
\* passes ask: only video may look like another period, and it does so only
\* where its guardband is not.
LEMMA SoundPeriods ==
  ASSUME Types, NEW k \in Pixels, SentAs(k), \A c \in Channel : Detected(c, k)
  PROVE  /\ AnyChannel("CTRL", k) <=> Sent(k) \in Ctl
         /\ AllChannels("CTRL", k) <=> Sent(k) \in Ctl
         /\ Sent(k) = "VIDEO" => AllChannels("VIDEO", k)
         /\ Sent(k) = "VIDEO_GB" => IsVideoGb(k)
         /\ IsVideoGb(k) => Sym(0, k) = "g" /\ Sym(1, k) = "d" /\ Sym(2, k) = "g"
         /\ Sent(k) \in {"DATA_GB_LEADING", "DATA_GB_TRAILING"} => IsDataGb(k) /\ ~IsData(k)
         /\ Sent(k) = "DATA" => IsData(k) /\ ~IsDataGb(k)
         /\ Sent(k) \in Ctl => ~IsDataGb(k) /\ ~IsData(k) /\ ~IsVideoGb(k)
<1> DEFINE P(c) == ChannelPeriods(c, Sym(c, k))
<1>1. \A c \in Channel : tmds_ch_p[c][k] = P(c) /\ Sym(c, k) \in Symbol
  BY Basics DEF Detected
<1>2. 0 \in Channel /\ 1 \in Channel /\ 2 \in Channel /\ \A c \in Channel : c \in {0, 1, 2}
  BY DEF Channel
<1>3. \A c \in Channel : /\ "CTRL" \in P(c) <=> Sym(c, k) \in Ctrl
                         /\ "DATA" \in P(c) <=> Sym(c, k) \in Terc4
  BY <1>1, PeriodsOf
<1>4. \A c \in Channel : "VIDEO" \in P(c) <=> Sym(c, k) \notin Ctrl \cup {"x"}
  BY DEF ChannelPeriods
<1>5. \A c \in Channel : "VIDEO_GB" \in P(c) <=> Sym(c, k) = video_gb[c+1]
  BY DEF ChannelPeriods
<1>6. \A c \in {1, 2} : "DATA_GB_LEADING" \in P(c) <=> Sym(c, k) = "d"
  BY DEF ChannelPeriods
<1>7. video_gb[1] = "g" /\ video_gb[2] = "d" /\ video_gb[3] = "g"
  BY DEF video_gb
<1>8. "d" \notin Ctrl /\ "d" \notin Terc4 /\ "g" \notin Ctrl /\ "c0" \in Ctrl /\ "c1" \in Ctrl
      /\ Ctrl \cap Terc4 = {}
  BY DEF Ctrl, Terc4
<1> HIDE DEF P
<1>10. Sent(k) \in Period BY SoundPixel
<1>11. CASE Sent(k) \in Ctl
  <2>1. \A c \in Channel : Sym(c, k) \in Ctrl
    BY <1>11, <1>2, <1>8, SoundPixel
  <2>2. AllChannels("CTRL", k) /\ AnyChannel("CTRL", k)
    BY <2>1, <1>1, <1>2, <1>3 DEF AllChannels, AnyChannel
  <2>3. ~IsDataGb(k) /\ ~IsVideoGb(k) /\ ~IsData(k)
    <3>1. "DATA" \notin tmds_ch_p[0][k]
      BY <2>1, <1>1, <1>2, <1>3, <1>8
    <3>2. "VIDEO_GB" \notin tmds_ch_p[0][k]
      BY <2>1, <1>1, <1>2, <1>5, <1>7, <1>8
    <3> QED BY <3>1, <3>2, <1>2 DEF IsDataGb, IsData, IsVideoGb, AllChannels
  <2> QED BY <1>11, <2>2, <2>3 DEF Ctl
<1>12. CASE Sent(k) \notin Ctl
  <2>1. \A c \in Channel : Sym(c, k) \notin Ctrl
    <3>1. CASE Sent(k) = "VIDEO_GB"
      BY <3>1, <1>2, <1>7, <1>8, SoundPixel
    <3>2. CASE Sent(k) = "VIDEO"
      BY <3>2, SoundPixel
    <3>3. CASE Sent(k) \in Islandic
      BY <3>3, <1>2, <1>8, SoundPixel DEF Islandic
    <3> QED BY <3>1, <3>2, <3>3, <1>10, <1>12 DEF Period
  <2>2. ~AllChannels("CTRL", k) /\ ~AnyChannel("CTRL", k)
    BY <2>1, <1>1, <1>2, <1>3 DEF AllChannels, AnyChannel
  <2>3. Sent(k) = "VIDEO" => AllChannels("VIDEO", k)
    BY <1>1, <1>4, SoundPixel DEF AllChannels
  <2>4. Sent(k) = "VIDEO_GB" => IsVideoGb(k)
    BY <1>1, <1>5, SoundPixel DEF IsVideoGb, AllChannels
  <2>5. IsVideoGb(k) => Sym(0, k) = "g" /\ Sym(1, k) = "d" /\ Sym(2, k) = "g"
    BY <1>1, <1>2, <1>5, <1>7 DEF IsVideoGb, AllChannels
  <2>6. IsDataGb(k) <=> Sym(0, k) \in Terc4 /\ Sym(1, k) = "d" /\ Sym(2, k) = "d"
    BY <1>1, <1>2, <1>3, <1>6 DEF IsDataGb
  <2>7. IsData(k) <=> Sym(0, k) \in Terc4 /\ Sym(1, k) \in Terc4 /\ Sym(2, k) \in Terc4
    BY <1>1, <1>2, <1>3 DEF IsData, AllChannels
  <2>8. Sent(k) \in {"DATA_GB_LEADING", "DATA_GB_TRAILING"} => IsDataGb(k) /\ ~IsData(k)
    BY <2>6, <2>7, <1>8, SoundPixel DEF Islandic
  <2>9. Sent(k) = "DATA" => IsData(k) /\ ~IsDataGb(k)
    BY <2>6, <2>7, <1>8, SoundPixel DEF Islandic
  <2> QED BY <1>12, <2>2, <2>3, <2>4, <2>5, <2>8, <2>9
<1> QED BY <1>11, <1>12

\* What a source may send after what, of the pixels of the capture.
LEMMA Neighbours ==
  ASSUME Types, Follows(Sending, n), NEW k \in Pixels \ {0}
  PROVE  Sent(k) \in After[Sent(k-1)]
<1>1. k \in 1 .. n-1 /\ k \in Pixels /\ k - 1 \in Pixels
  BY Basics
<1>2. Sending[k] = Sent(k) /\ Sending[k-1] = Sent(k-1)
  BY <1>1 DEF Sending
<1> QED BY <1>1, <1>2 DEF Follows

\* Where the period changes, the run before is one of a source's lengths.
LEMMA RunEnds ==
  ASSUME Types, Follows(Sending, n), NEW k \in Pixels, NEW p \in Nat, 0 < p, p < k,
         RunOf(Sent(k-1), k-p, k-1), Sent(k-p-1) # Sent(k-1), Sent(k) # Sent(k-1)
  PROVE  MayLast(Sent(k-1), p)
<1>1. n \in Nat /\ k \in 0 .. n-1 /\ Pixels = 0 .. n-1
  BY Basics
<1> DEFINE a == k - p
           b == k - 1
<1>2. a \in 1 .. n-2 /\ b \in a .. n-2 /\ b + 1 = k /\ b - a + 1 = p /\ a-1 \in Pixels
      /\ a \in Pixels /\ \A j \in a .. b : j \in Pixels
  BY <1>1
<1>3. Sending[a] = Sent(k-1) /\ Sending[a-1] = Sent(k-p-1) /\ Sending[b+1] = Sent(k)
  BY <1>1, <1>2 DEF RunOf, Sending
<1>4. RunIn(Sending, Sending[a], a, b)
  BY <1>2, <1>3 DEF RunOf, RunIn, Sending
<1>5. MayLast(Sending[a], b-a+1)
  <2> HIDE DEF a, b
  <2> QED BY <1>2, <1>3, <1>4 DEF Follows
<1> QED BY <1>2, <1>3, <1>5

LEMMA SoundSymbol ==
  ASSUME Types, NEW k \in Pixels, SentAs(k), NEW c \in Channel
  PROVE  ChannelPeriods(c, Sym(c, k)) # {}
<1>1. Sym(c, k) # "x"
  <2>1. c \in {0, 1, 2} /\ 0 \in Channel /\ 1 \in Channel /\ 2 \in Channel BY DEF Channel
  <2>2. "x" \notin Ctrl /\ "x" \notin Terc4 BY DEF Ctrl, Terc4
  <2>3. \A d \in Channel : video_gb[d+1] # "x" BY DEF video_gb, Channel
  <2>4. CASE Sent(k) \in Ctl
    BY <2>1, <2>2, <2>4, SoundPixel
  <2>5. CASE Sent(k) = "VIDEO_GB"
    BY <2>3, <2>5, SoundPixel
  <2>6. CASE Sent(k) = "VIDEO"
    BY <2>6, SoundPixel
  <2>7. CASE Sent(k) \in Islandic
    BY <2>1, <2>2, <2>7, SoundPixel DEF Islandic
  <2>8. Sent(k) \in Period BY SoundPixel
  <2> QED BY <2>4, <2>5, <2>6, <2>7, <2>8 DEF Period
<1>2. CASE Sym(c, k) \in Ctrl BY <1>2 DEF ChannelPeriods
<1>3. CASE Sym(c, k) \notin Ctrl BY <1>1, <1>3 DEF ChannelPeriods
<1> QED BY <1>2, <1>3

LEMMA InitLegal == ASSUME Init PROVE LegalInv
<1>1. /\ pass = "prelim" /\ ch = 0 /\ i = 0 /\ m_start = -1 /\ p_count = 0
      /\ error = "none" /\ stop = FALSE /\ \A k \in Pixels : tmds_p[k] = {}
  BY DEF Init
<1>2. ValuesKnown
  <2>1. ASSUME NEW c \in Channel, NEW k \in Pixels PROVE ~(c < ch \/ (c = ch /\ k < i))
    BY <1>1 DEF Channel, Pixels
  <2> QED BY <1>1, <2>1 DEF ValuesKnown
<1> QED BY <1>1, <1>2 DEF LegalInv, Undisturbed, StartKnown, RunKnown, FlagsKnown, SyncsKnown

LEMMA PrelimLegal == ASSUME IInv, IsLegal, LegalInv, PrelimDetect PROVE LegalInv'
<1>1. /\ tmds' = tmds /\ m_start' = m_start /\ tmds_p' = tmds_p /\ pass = "prelim"
      /\ m_start = -1 /\ p_count = 0 /\ error = "none" /\ stop = FALSE
      /\ \A k \in Pixels : tmds_p[k] = {}
  BY DEF PrelimDetect, LegalInv, StartKnown, RunKnown, FlagsKnown, Undisturbed
<1>2. /\ n \in Nat /\ Pixels = 0 .. n-1 /\ n' = n /\ Pixels' = Pixels /\ i \in Pixels
      /\ ch \in Channel /\ Channel = 0 .. 2 /\ \A c, k : Sym(c, k)' = Sym(c, k)
  BY <1>1, Basics, SameSource DEF IInv, Types, Counters, Channel
<1>3. ChannelPeriods(ch, Sym(ch, i)) # {}
  BY <1>2, SoundSymbol, Undamaged DEF IInv
<1>4. /\ error' = error /\ stop' = stop
      /\ \/ i # n-1 /\ i' = i + 1 /\ ch' = ch /\ pass' = pass /\ p_count' = p_count
         \/ i = n-1 /\ NextChannel
  BY <1>3 DEF PrelimDetect
<1>5. \/ i # n-1 /\ i' = i + 1 /\ ch' = ch /\ pass' = "prelim" /\ p_count' = 0
      \/ i = n-1 /\ ch # 2 /\ i' = 0 /\ ch' = ch + 1 /\ pass' = "prelim" /\ p_count' = 0
      \/ i = n-1 /\ ch = 2 /\ i' = 0 /\ pass' = "resolve" /\ p_count' = 0
  <2>1. CASE i = n-1 /\ NextChannel /\ ch = 2
    <3>1. NewPass(stop', 0) BY <2>1 DEF NextChannel
    <3>2. stop' = FALSE BY <1>1, <1>4
    <3>3. pass' = NextPass[pass] /\ i' = 0 /\ p_count' = 0
      BY <3>1, <3>2, <1>1 DEF NewPass
    <3> QED BY <2>1, <3>3, <1>1, TableValues
  <2>2. CASE i = n-1 /\ NextChannel /\ ch # 2
    BY <2>2, <1>1 DEF NextChannel
  <2> QED BY <1>1, <1>4, <2>1, <2>2
<1>6. \A c \in Channel : \A k \in Pixels :
        /\ c # ch \/ k # i => tmds_c'[c][k] = tmds_c[c][k]
        /\ c = ch /\ k = i /\ Sym(c, k) \in Ctrl => tmds_c'[c][k] = CIndex[Sym(c, k)]
  <2>1. tmds_c \in [Channel -> [Pixels -> -1 .. 3]] BY DEF IInv, Types, Tables
  <2>2. CASE Sym(ch, i) \in Ctrl
    <3>1. tmds_c' = [tmds_c EXCEPT ![ch][i] = CIndex[Sym(ch, i)]]
      BY <2>2 DEF PrelimDetect
    <3> QED BY <2>1, <3>1, <1>2
  <2>3. CASE Sym(ch, i) \notin Ctrl
    <3>1. tmds_c' = tmds_c BY <2>3 DEF PrelimDetect
    <3> QED BY <2>3, <3>1
  <2> QED BY <2>2, <2>3
<1>7. ValuesKnown'
  <2> SUFFICES ASSUME NEW c \in Channel, NEW k \in Pixels, Sym(c, k) \in Ctrl,
                      (pass # "prelim" \/ c < ch \/ (c = ch /\ k < i))'
               PROVE  tmds_c'[c][k] = CIndex[Sym(c, k)]
    BY <1>2 DEF ValuesKnown
  <2>1. CASE c = ch /\ k = i BY <2>1, <1>6
  <2>2. CASE c < ch \/ (c = ch /\ k < i)
    <3>1. tmds_c[c][k] = CIndex[Sym(c, k)] BY <2>2 DEF LegalInv, ValuesKnown
    <3>2. c # ch \/ k # i BY <2>2, <1>2
    <3> QED BY <3>1, <3>2, <1>6
  <2>3. c < ch \/ (c = ch /\ k < i) \/ (c = ch /\ k = i)
    BY <1>2, <1>5
  <2> QED BY <2>1, <2>2, <2>3
<1>8. Undisturbed' BY <1>1, <1>4, <1>5 DEF Undisturbed
<1>9. StartKnown'
  <2>1. \A k \in 0 .. i'-1 : pass' # "resolve" BY <1>5
  <2> QED BY <1>1, <1>5, <2>1 DEF StartKnown
<1>10. FlagsKnown'
  <2>1. pass' = "resolve" => i' = 0 BY <1>5
  <2>2. \A k \in Pixels : pass' = "resolve" => ~(k < i') BY <2>1, <1>2
  <2>3. \A k \in Pixels' : tmds_p'[k] = {} BY <1>1, <1>2
  <2>4. pass' \in {"prelim", "resolve"} BY <1>5
  <2> QED BY <1>2, <2>2, <2>3, <2>4 DEF FlagsKnown
<1>11. RunKnown' /\ SyncsKnown'
  BY <1>5 DEF RunKnown, SyncsKnown
<1> QED BY <1>7, <1>8, <1>9, <1>10, <1>11 DEF LegalInv

\* The values of a control pixel of the capture, as "resolve" and "preambles"
\* read them.
LEMMA LegalValues ==
  ASSUME IInv, IsLegal, LegalInv, pass # "prelim", NEW k \in Pixels, Sent(k) \in Ctl
  PROVE  /\ tmds_c[0][k] = tmds[k+1].hv
         /\ tmds_c[1][k] = IF Sent(k) = "CTRL" THEN 0 ELSE 1
         /\ tmds_c[2][k] = IF Sent(k) = "DATA_PRE" THEN 1 ELSE 0
<1>1. 0 \in Channel /\ 1 \in Channel /\ 2 \in Channel BY DEF Channel
<1>2. "c0" \in Ctrl /\ "c1" \in Ctrl /\ CIndex["c0"] = 0 /\ CIndex["c1"] = 1
  BY DEF Ctrl, CIndex
<1>3. /\ Sym(0, k) \in Ctrl /\ CIndex[Sym(0, k)] = tmds[k+1].hv
      /\ Sym(1, k) = IF Sent(k) = "CTRL" THEN "c0" ELSE "c1"
      /\ Sym(2, k) = IF Sent(k) = "DATA_PRE" THEN "c1" ELSE "c0"
  BY SoundPixel, Undamaged DEF IInv
<1>4. \A c \in Channel : Sym(c, k) \in Ctrl => tmds_c[c][k] = CIndex[Sym(c, k)]
  BY DEF LegalInv, ValuesKnown
<1> QED BY <1>1, <1>2, <1>3, <1>4

LEMMA LegalMarks ==
  /\ "CTRL" \in Ctl /\ \A f \in Ctl : "CTRL" \in FlagsOf(f)
  /\ \A f \in Period : f = "VIDEO_PRE" <=> "VIDEO_PRE" \in FlagsOf(f)
  /\ \A f \in Period : f = "DATA_PRE" <=> "DATA_PRE" \in FlagsOf(f)
  /\ FlagsOf("CTRL") = {"CTRL"} /\ FlagsOf("VIDEO_PRE") = {"CTRL", "VIDEO_PRE"}
  /\ FlagsOf("DATA_PRE") = {"CTRL", "DATA_PRE"}
  /\ \A f \in Period \ Ctl : FlagsOf(f) = {f}
BY DEF Ctl, Period, Islandic, FlagsOf

LEMMA ResolveLegal == ASSUME IInv, IsLegal, LegalInv, ResolveControl PROVE LegalInv'
<1>1. /\ tmds' = tmds /\ tmds_c' = tmds_c /\ pass = "resolve"
      /\ p_count = 0 /\ error = "none" /\ stop = FALSE
      /\ \A k \in Pixels : tmds_p[k] = IF k < i THEN First(k) ELSE {}
  BY DEF ResolveControl, LegalInv, RunKnown, FlagsKnown, Undisturbed
<1>2. /\ n \in Nat /\ Pixels = 0 .. n-1 /\ n' = n /\ Pixels' = Pixels /\ i \in Pixels
      /\ (\A c, k : Sym(c, k)' = Sym(c, k)) /\ \A k : Sent(k)' = Sent(k) /\ First(k)' = First(k)
  BY <1>1, Basics, SameSource DEF IInv, Types, Counters
<1>3. Sent(i) \in Period /\ \A c \in Channel : Detected(c, i)
  BY <1>1, <1>2, SoundPixel, Undamaged DEF IInv, ChannelsKnown
<1>4. /\ AnyChannel("CTRL", i) <=> Sent(i) \in Ctl
      /\ AllChannels("CTRL", i) <=> Sent(i) \in Ctl
  BY <1>2, <1>3, SoundPeriods, Undamaged DEF IInv
<1>5. /\ error' = error /\ stop' = stop /\ Loop(m_start')
      /\ \/ /\ Sent(i) \in Ctl /\ tmds_p' = [tmds_p EXCEPT ![i] = {"CTRL"}]
            /\ m_start' = IF m_start = -1 /\ tmds_c[1][i] = 0 /\ tmds_c[2][i] = 0
                          THEN i ELSE m_start
         \/ /\ Sent(i) \notin Ctl /\ tmds_p' = tmds_p /\ m_start' = m_start
  <2>1. ~(p_count > 0 /\ p_count < CTRL_PERIOD_LEN_MIN) BY <1>1
  <2>2. CASE Sent(i) \in Ctl
    BY <1>4, <2>2 DEF ResolveControl
  <2>3. CASE Sent(i) \notin Ctl
    <3>1. /\ tmds_p' = tmds_p /\ m_start' = m_start
          /\ error' = error /\ stop' = stop /\ Loop(m_start)
      BY <1>4, <2>1, <2>3 DEF ResolveControl
    <3> QED BY <2>3, <3>1 DEF Loop, NewPass
  <2> QED BY <2>2, <2>3
<1>6. m_start' = IF m_start = -1 /\ Sent(i) = "CTRL" THEN i ELSE m_start
  <2>1. CASE Sent(i) \in Ctl
    <3>1. /\ tmds_c[1][i] = IF Sent(i) = "CTRL" THEN 0 ELSE 1
          /\ tmds_c[2][i] = IF Sent(i) = "DATA_PRE" THEN 1 ELSE 0
      BY <1>1, <1>2, <2>1, LegalValues
    <3> QED BY <2>1, <3>1, <1>5 DEF Ctl
  <2>2. CASE Sent(i) \notin Ctl
    BY <2>2, <1>5 DEF Ctl
  <2> QED BY <2>1, <2>2
<1>7. \/ m_start' = -1 /\ \A k \in 0 .. i : Sent(k) # "CTRL"
      \/ m_start' \in 0 .. i /\ Sent(m_start') = "CTRL"
  <2>1. \/ m_start = -1 /\ \A k \in 0 .. i-1 : Sent(k) # "CTRL"
        \/ m_start \in 0 .. i-1 /\ Sent(m_start) = "CTRL"
    BY <1>1 DEF LegalInv, StartKnown
  <2>2. CASE m_start = -1 /\ \A k \in 0 .. i-1 : Sent(k) # "CTRL"
    <3>1. \A k \in 0 .. i : k = i \/ k \in 0 .. i-1 BY <1>2
    <3>2. i \in 0 .. i BY <1>2
    <3> QED BY <2>2, <3>1, <3>2, <1>6
  <2>3. CASE m_start \in 0 .. i-1 /\ Sent(m_start) = "CTRL"
    <3>1. m_start # -1 /\ m_start \in 0 .. i BY <2>3, <1>2
    <3> QED BY <2>3, <3>1, <1>6
  <2> QED BY <2>1, <2>2, <2>3
<1>14. m_start' # -1 => \A k \in Pixels : Sent(k) = "CTRL" => k >= m_start'
  <2>1. CASE m_start # -1
    BY <2>1, <1>6 DEF LegalInv, StartKnown
  <2>2. CASE m_start = -1 /\ m_start' = i
    <3>1. \A k \in 0 .. i-1 : Sent(k) # "CTRL"
      BY <1>1, <1>2, <2>2 DEF LegalInv, StartKnown
    <3>2. \A k \in Pixels : k \in 0 .. i-1 \/ k >= i BY <1>2
    <3> QED BY <3>1, <3>2, <2>2
  <2> QED BY <2>1, <2>2, <1>6
<1>8. \A k \in Pixels : tmds_p'[k] = IF k < i + 1 THEN First(k) ELSE {}
  <2>1. tmds_p \in [Pixels -> SUBSET Flag] BY DEF IInv, Types, Tables
  <2>2. tmds_p'[i] = First(i) /\ \A k \in Pixels : k # i => tmds_p'[k] = tmds_p[k]
    <3>1. CASE Sent(i) \in Ctl
      BY <3>1, <2>1, <1>2, <1>5 DEF First
    <3>2. CASE Sent(i) \notin Ctl
      <4>1. ~(i < i) BY <1>2
      <4>2. tmds_p[i] = {} /\ First(i) = {} BY <3>2, <4>1, <1>1, <1>2 DEF First
      <4> QED BY <3>2, <4>2, <1>5
    <3> QED BY <3>1, <3>2
  <2>3. \A k \in Pixels : k = i \/ (k # i /\ (k < i + 1 <=> k < i)) BY <1>2
  <2> QED BY <2>2, <2>3, <1>1, <1>2
<1>9. \/ i # n-1 /\ i' = i + 1 /\ pass' = "resolve" /\ p_count' = 0
      \/ i = n-1 /\ i' = m_start' /\ pass' = "preambles"
  BY <1>1, <1>5, Moves, TableValues
<1>10. ValuesKnown'
  <2>1. pass' # "prelim" /\ pass # "prelim" BY <1>1, <1>9
  <2> QED BY <2>1, <1>1, <1>2 DEF LegalInv, ValuesKnown
<1>11. Undisturbed' BY <1>1, <1>5, <1>9 DEF Undisturbed
<1>12. CASE i # n-1 /\ i' = i + 1 /\ pass' = "resolve" /\ p_count' = 0
  <2>1. i' - 1 = i BY <1>2, <1>12
  <2>2. StartKnown' BY <2>1, <1>2, <1>7, <1>12, <1>14 DEF StartKnown
  <2>3. FlagsKnown' BY <1>2, <1>8, <1>12 DEF FlagsKnown
  <2>4. RunKnown' /\ SyncsKnown' BY <1>12 DEF RunKnown, SyncsKnown
  <2> QED BY <2>2, <2>3, <2>4, <1>10, <1>11 DEF LegalInv
<1>13. CASE i = n-1 /\ i' = m_start' /\ pass' = "preambles"
  <2>1. m_start' \in Pixels /\ Sent(m_start') = "CTRL"
    <3>1. \E k \in Pixels : Sent(k) = "CTRL" BY DEF IsLegal
    <3> QED BY <3>1, <1>2, <1>7, <1>13
  <2>5. i' >= m_start' BY <2>1, <1>2, <1>13
  <2>2. StartKnown' BY <2>1, <2>5, <1>2, <1>13, <1>14 DEF StartKnown
  <2>3. FlagsKnown'
    <3> SUFFICES ASSUME NEW k \in Pixels
                 PROVE  tmds_p'[k] = IF k < i' THEN Second(k)' ELSE First(k)'
      BY <1>2, <1>13 DEF FlagsKnown
    <3>1. tmds_p'[k] = First(k) BY <1>2, <1>8, <1>13
    <3>2. k < i' => Second(k)' = First(k)' BY <2>1, <1>2, <1>13 DEF Second
    <3> QED BY <3>1, <3>2, <1>2
  <2>4. RunKnown' /\ SyncsKnown' BY <1>13 DEF RunKnown, SyncsKnown
  <2> QED BY <2>2, <2>3, <2>4, <1>10, <1>11 DEF LegalInv
<1> QED BY <1>9, <1>12, <1>13

LEMMA PreamblesLegal == ASSUME IInv, IsLegal, LegalInv, DetectPreambles PROVE LegalInv'
<1>1. /\ tmds' = tmds /\ tmds_c' = tmds_c /\ m_start' = m_start /\ pass = "preambles"
      /\ error = "none" /\ stop = FALSE
      /\ m_start \in Pixels /\ Sent(m_start) = "CTRL" /\ i >= m_start
      /\ \A k \in Pixels : tmds_p[k] = IF k < i THEN Second(k) ELSE First(k)
  BY DEF DetectPreambles, LegalInv, StartKnown, FlagsKnown, Undisturbed
<1>2. /\ n \in Nat /\ Pixels = 0 .. n-1 /\ n' = n /\ Pixels' = Pixels /\ i \in -1 .. n-1
      /\ \A c, k : Sym(c, k)' = Sym(c, k)
      /\ \A k : Sent(k)' = Sent(k) /\ First(k)' = First(k)
  BY <1>1, Basics, SameSource DEF IInv, Types, Counters
<1>3. i \in Pixels /\ At(i) = i
  <2>1. i \in Pixels BY <1>1, <1>2
  <2> QED BY <2>1, <1>2 DEF At
<1>4. \A k : Second(k)' = Second(k) BY <1>1, <1>2 DEF Second, FlagsOf
<1>5. Sent(i) \in Period BY <1>3, SoundPixel, Undamaged DEF IInv
<1>6. tmds_p[i] = First(i)
  <2>1. ~(i < i) BY <1>3, <1>2
  <2> QED BY <2>1, <1>1, <1>3
<1>7. tmds_p \in [Pixels -> SUBSET Flag] BY DEF IInv, Types, Tables
<1>8. /\ error' = error /\ stop' = stop /\ Loop(0)
      /\ tmds_p'[i] = Second(i) /\ \A k \in Pixels : k # i => tmds_p'[k] = tmds_p[k]
  <2>1. CASE Sent(i) \notin Ctl
    <3>1. tmds_p[i] = {} /\ Second(i) = {} BY <2>1, <1>6 DEF First, Second
    <3>2. tmds_p' = tmds_p /\ error' = error /\ stop' = stop /\ Loop(0)
      BY <3>1, <1>3 DEF DetectPreambles
    <3> QED BY <3>1, <3>2
  <2>2. CASE Sent(i) \in Ctl
    <3> DEFINE ctl == <<tmds_c[1][i], tmds_c[2][i]>>
    <3>1. /\ tmds_c[1][i] = IF Sent(i) = "CTRL" THEN 0 ELSE 1
          /\ tmds_c[2][i] = IF Sent(i) = "DATA_PRE" THEN 1 ELSE 0
      BY <1>1, <1>3, <2>2, LegalValues
    <3>2. tmds_p[i] = {"CTRL"} /\ Second(i) = FlagsOf(Sent(i))
      BY <2>2, <1>1, <1>6 DEF First, Second
    <3>3. ctl = IF Sent(i) = "CTRL" THEN <<0, 0>>
                ELSE IF Sent(i) = "VIDEO_PRE" THEN <<1, 0>> ELSE <<1, 1>>
      BY <3>1, <2>2 DEF Ctl
    <3>4. ctl \in DOMAIN PreambleOf /\ {"CTRL"} \cup PreambleOf[ctl] = FlagsOf(Sent(i))
      <4>1. <<1, 0>> # <<0, 0>> /\ <<1, 1>> # <<0, 0>> /\ <<1, 1>> # <<1, 0>>
        OBVIOUS
      <4>2. /\ DOMAIN PreambleOf = {<<0, 0>>, <<1, 0>>, <<1, 1>>}
            /\ PreambleOf[<<0, 0>>] = {} /\ PreambleOf[<<1, 0>>] = {"VIDEO_PRE"}
            /\ PreambleOf[<<1, 1>>] = {"DATA_PRE"}
        BY <4>1 DEF PreambleOf
      <4>3. CASE Sent(i) = "CTRL" BY <4>2, <4>3, <3>3, LegalMarks
      <4>4. CASE Sent(i) = "VIDEO_PRE" BY <4>2, <4>4, <3>3, LegalMarks
      <4>5. CASE Sent(i) = "DATA_PRE" BY <4>2, <4>5, <3>3, LegalMarks
      <4> QED BY <2>2, <4>3, <4>4, <4>5 DEF Ctl
    <3>5. /\ tmds_p' = [tmds_p EXCEPT ![i] = @ \cup PreambleOf[ctl]]
          /\ error' = error /\ stop' = stop /\ Loop(0)
      BY <3>2, <3>4, <1>3 DEF DetectPreambles
    <3> HIDE DEF ctl
    <3>6. tmds_p'[i] = tmds_p[i] \cup PreambleOf[ctl]
          /\ \A k \in Pixels : k # i => tmds_p'[k] = tmds_p[k]
      BY <3>5, <1>3, <1>7
    <3> QED BY <3>2, <3>4, <3>5, <3>6
  <2> QED BY <2>1, <2>2
<1>9. \A k \in Pixels : tmds_p'[k] = IF k < i + 1 THEN Second(k) ELSE First(k)
  <2>1. \A k \in Pixels : k = i \/ (k # i /\ (k < i + 1 <=> k < i)) BY <1>2, <1>3
  <2>2. i < i + 1 BY <1>2
  <2> QED BY <2>1, <2>2, <1>1, <1>8
<1>10. \/ i # n-1 /\ i' = i + 1 /\ pass' = "preambles"
       \/ i = n-1 /\ i' = 0 /\ pass' = "islands" /\ p_type' = ""
  BY <1>1, <1>8, Moves, TableValues
<1>11. ValuesKnown'
  <2>1. pass' # "prelim" /\ pass # "prelim" BY <1>1, <1>10
  <2> QED BY <2>1, <1>1, <1>2 DEF LegalInv, ValuesKnown
<1>12. Undisturbed' BY <1>1, <1>8, <1>10 DEF Undisturbed
<1>13. StartKnown'
  <2>1. pass' = "preambles" => i' >= m_start BY <1>1, <1>2, <1>10
  <2>2. m_start # -1 => \A k \in Pixels : Sent(k) = "CTRL" => k >= m_start
    BY DEF LegalInv, StartKnown
  <2> QED BY <2>1, <2>2, <1>1, <1>2, <1>10 DEF StartKnown
<1>14. FlagsKnown'
  <2>1. CASE i # n-1 /\ i' = i + 1 /\ pass' = "preambles"
    BY <2>1, <1>2, <1>4, <1>9 DEF FlagsKnown
  <2>2. CASE i = n-1 /\ i' = 0 /\ pass' = "islands"
    <3>1. \A k \in Pixels : k < i + 1 /\ ~(k < i') BY <2>2, <1>2
    <3>2. \A k \in Pixels : tmds_p'[k] = Second(k)' BY <3>1, <1>4, <1>9
    <3> QED BY <2>2, <3>1, <3>2, <1>2 DEF FlagsKnown
  <2> QED BY <1>10, <2>1, <2>2
<1>15. RunKnown' /\ SyncsKnown'
  <2>0. m_start' \in 0 .. n-1 BY <1>1, <1>2
  <2>1. CASE pass' = "islands"
    <3>1. i' = 0 BY <2>1, <1>10
    <3>2. i' <= m_start' /\ ~(i' > m_start') BY <2>0, <3>1
    <3> QED BY <2>1, <3>2, <1>10 DEF RunKnown, SyncsKnown
  <2>2. CASE pass' # "islands"
    BY <2>2, <1>10 DEF RunKnown, SyncsKnown
  <2> QED BY <2>1, <2>2
<1> QED BY <1>11, <1>12, <1>13, <1>14, <1>15 DEF LegalInv

\* What may follow, and what the machine over p_type calls it.
LEMMA SourceTables ==
  /\ \A f \in Period : TypeOf[f] = "" <=> f \in {"CTRL", "VIDEO"}
  /\ TypeOf["CTRL"] = "" /\ TypeOf["VIDEO"] = "" /\ TypeOf["VIDEO_PRE"] = "video_pre"
  /\ TypeOf["VIDEO_GB"] = "video_gb" /\ TypeOf["DATA_PRE"] = "data_pre"
  /\ TypeOf["DATA_GB_LEADING"] = "data_gb_leading" /\ TypeOf["DATA"] = "data"
  /\ TypeOf["DATA_GB_TRAILING"] = "data_gb_trailing"
  /\ After["VIDEO_PRE"] = {"VIDEO_PRE", "VIDEO_GB"} /\ After["VIDEO_GB"] = {"VIDEO_GB", "VIDEO"}
  /\ After["VIDEO"] = {"VIDEO", "CTRL"} /\ After["DATA_PRE"] = {"DATA_PRE", "DATA_GB_LEADING"}
  /\ After["DATA_GB_LEADING"] = {"DATA_GB_LEADING", "DATA"}
  /\ After["DATA"] = {"DATA", "DATA_GB_TRAILING"}
  /\ After["DATA_GB_TRAILING"] = {"DATA_GB_TRAILING", "CTRL"}
  /\ After["CTRL"] = {"CTRL", "VIDEO_PRE", "DATA_PRE", "VIDEO"}
BY DEF TypeOf, After, Period, Ctl, Islandic

\* Every period is followed by a period, and only some lead to control or to video.
LEMMA PeriodsFollow ==
  ASSUME NEW was \in Period, NEW f \in After[was]
  PROVE  /\ f \in Period
         /\ f = "CTRL" => was \in {"CTRL", "VIDEO", "DATA_GB_TRAILING"}
         /\ f = "VIDEO" => was \in {"CTRL", "VIDEO_GB", "VIDEO"}
<1> USE DEF Period, Ctl, Islandic
<1>1. CASE was = "CTRL"
  <2>1. f \in {"CTRL", "VIDEO_PRE", "DATA_PRE", "VIDEO"} BY <1>1, SourceTables
  <2> QED BY <2>1, <1>1
<1>2. CASE was = "VIDEO"
  <2>1. f \in {"VIDEO", "CTRL"} BY <1>2, SourceTables
  <2> QED BY <2>1, <1>2
<1>3. CASE was = "VIDEO_PRE"
  <2>1. f \in {"VIDEO_PRE", "VIDEO_GB"} BY <1>3, SourceTables
  <2> QED BY <2>1, <1>3
<1>4. CASE was = "VIDEO_GB"
  <2>1. f \in {"VIDEO_GB", "VIDEO"} BY <1>4, SourceTables
  <2> QED BY <2>1, <1>4
<1>5. CASE was = "DATA_PRE"
  <2>1. f \in {"DATA_PRE", "DATA_GB_LEADING"} BY <1>5, SourceTables
  <2> QED BY <2>1, <1>5
<1>6. CASE was = "DATA_GB_LEADING"
  <2>1. f \in {"DATA_GB_LEADING", "DATA"} BY <1>6, SourceTables
  <2> QED BY <2>1, <1>6
<1>7. CASE was = "DATA"
  <2>1. f \in {"DATA", "DATA_GB_TRAILING"} BY <1>7, SourceTables
  <2> QED BY <2>1, <1>7
<1>8. CASE was = "DATA_GB_TRAILING"
  <2>1. f \in {"DATA_GB_TRAILING", "CTRL"} BY <1>8, SourceTables
  <2> QED BY <2>1, <1>8
<1> QED BY <1>1, <1>2, <1>3, <1>4, <1>5, <1>6, <1>7, <1>8

\* The machine marks a pixel of a legal capture with what it still lacks, goes
\* on to the type of its period, and counts it.
Rightly(f, type, count) ==
  /\ Mark(f, type, count)
  /\ i < m_start => type = ""
  /\ i >= m_start => /\ tmds_p[i] \cup f = Third(i) /\ type = TypeOf[Sent(i)]
                     /\ type # "" => count = IF Sent(i) = Sent(i-1) THEN p_count + 1 ELSE 1
MarkRightly == \E f \in SUBSET Flag, type \in PTypes, count \in Nat : Rightly(f, type, count)

LEMMA Right ==
  ASSUME NEW f, NEW type, NEW count, Rightly(f, type, count),
         f \in SUBSET Flag, type \in PTypes, count \in Nat
  PROVE  MarkRightly
BY DEF MarkRightly

LEMMA IslandsMark == ASSUME IInv, IsLegal, LegalInv, DetectIslands PROVE MarkRightly
<1>1. /\ pass = "islands" /\ n \in Nat /\ Pixels = 0 .. n-1 /\ i \in Pixels /\ p_count \in Nat
      /\ m_start \in Pixels /\ Sent(m_start) = "CTRL" /\ tmds_p[i] = Second(i)
  <2>1. pass = "islands" BY DEF DetectIslands
  <2>2. /\ n \in Nat /\ Pixels = 0 .. n-1 /\ i \in Pixels /\ p_count \in Nat
    BY <2>1, Basics DEF IInv, Types, Counters
  <2>3. i >= i BY <2>2
  <2> QED BY <2>1, <2>2, <2>3 DEF LegalInv, StartKnown, FlagsKnown
<1>0. PICK more \in Nat : more = p_count + 1 BY <1>1
<1>2. Sent(i) \in Period BY <1>1, SoundPixel, Undamaged DEF IInv
<1>3. \A c \in Channel : Detected(c, i) BY <1>1 DEF IInv, ChannelsKnown
<1>4. /\ Sent(i) = "VIDEO_GB" => IsVideoGb(i)
      /\ IsVideoGb(i) => Sym(0, i) = "g" /\ Sym(1, i) = "d" /\ Sym(2, i) = "g"
      /\ Sent(i) \in {"DATA_GB_LEADING", "DATA_GB_TRAILING"} => IsDataGb(i) /\ ~IsData(i)
      /\ Sent(i) = "DATA" => IsData(i) /\ ~IsDataGb(i)
      /\ Sent(i) \in Ctl => ~IsDataGb(i)
  BY <1>1, <1>3, SoundPeriods, Undamaged DEF IInv
<1>5. CASE p_type = "" /\ "VIDEO_PRE" \notin tmds_p[i] /\ "DATA_PRE" \notin tmds_p[i]
           /\ (i >= m_start => Sent(i) \in {"CTRL", "VIDEO"})
  <2>1. Mark({}, "", p_count)
    BY <1>5 DEF DetectIslands, Outside
  <2>2. i >= m_start => tmds_p[i] \cup {} = Third(i) /\ TypeOf[Sent(i)] = ""
    <3>1. "CTRL" \in Ctl /\ "VIDEO" \notin Ctl BY DEF Ctl
    <3>2. CASE i >= m_start /\ Sent(i) = "CTRL"
      <4>1. Second(i) = FlagsOf("CTRL") BY <3>1, <3>2 DEF Second
      <4>2. Third(i) = FlagsOf("CTRL") BY <3>2 DEF Third
      <4>3. tmds_p[i] \cup {} = Third(i) BY <4>1, <4>2, <1>1
      <4> QED BY <4>3, <3>2, SourceTables
    <3>3. CASE i >= m_start /\ Sent(i) = "VIDEO"
      BY <3>1, <3>3, <1>1, SourceTables DEF Second, First, Third
    <3> QED BY <3>2, <3>3, <1>5
  <2>3. Rightly({}, "", p_count) BY <2>1, <2>2 DEF Rightly
  <2>4. {} \in SUBSET Flag /\ "" \in PTypes /\ p_count \in Nat BY <1>1 DEF PTypes
  <2> QED BY <2>3, <2>4, Right
<1>6. CASE i <= m_start
  <2>1. p_type = "" BY <1>1, <1>6 DEF LegalInv, RunKnown
  <2>2. CASE i < m_start
    <3>1. ~(i >= m_start) BY <1>1, <2>2
    <3>2. tmds_p[i] \in {{}, {"CTRL"}} BY <1>1, <3>1 DEF Second, First
    <3> QED BY <2>1, <3>1, <3>2, <1>5
  <2>3. CASE i = m_start
    <3>1. tmds_p[i] \in {{}, {"CTRL"}}
      BY <1>1, <2>3, LegalMarks DEF Second, First
    <3> QED BY <2>1, <2>3, <3>1, <1>1, <1>5
  <2> QED BY <1>1, <1>6, <2>2, <2>3
<1>7. CASE i > m_start
  <2> DEFINE was == Sent(i-1)
             is == Sent(i)
  <2>1. /\ i \in Pixels \ {0} /\ i - 1 \in Pixels /\ i >= m_start /\ i \in 1 .. n-1
        /\ ~(i < m_start)
    BY <1>1, <1>7
  <2>0. i - p_count > m_start => p_count < i
    <3>1. i \in Nat /\ p_count \in Nat /\ m_start \in Nat BY <1>1
    <3>2. ASSUME i - p_count > m_start PROVE i > m_start + p_count BY <3>1, <3>2
    <3> QED BY <3>1, <3>2
  <2>2. was \in Period BY <2>1, SoundPixel, Undamaged DEF IInv
  <2>3. is \in After[was] BY <2>1, Neighbours DEF IInv, IsLegal, FollowsTheStandard
  <2>4. p_type = TypeOf[was] BY <1>1, <1>7 DEF LegalInv, RunKnown
  <2>5. p_type # "" /\ is # was => MayLast(was, p_count)
    <3> SUFFICES ASSUME p_type # "", is # was PROVE MayLast(was, p_count)
      OBVIOUS
    <3>1. /\ 0 < p_count /\ i - p_count > m_start /\ RunOf(was, i - p_count, i-1)
          /\ Sent(i - p_count - 1) # was
      BY <1>1, <1>7 DEF LegalInv, RunKnown
    <3>2. p_count < i BY <3>1, <2>0
    <3> QED BY <3>1, <3>2, <1>1, RunEnds DEF IInv, IsLegal, FollowsTheStandard
  <2>6. tmds_p[i] = IF is \in Ctl THEN FlagsOf(is) ELSE {}
    BY <1>1, <2>1 DEF Second, First
  <2>7. Third(i) = IF is = "VIDEO" THEN {} ELSE FlagsOf(is)
    BY DEF Third
  <2>8. /\ "VIDEO_PRE" \in tmds_p[i] <=> is = "VIDEO_PRE"
        /\ "DATA_PRE" \in tmds_p[i] <=> is = "DATA_PRE"
        /\ "CTRL" \in tmds_p[i] <=> is \in Ctl
    BY <1>2, <2>6, LegalMarks DEF Ctl
  <2>9. ASSUME NEW f \in SUBSET Flag, NEW type \in PTypes, NEW count \in Nat,
               Mark(f, type, count), tmds_p[i] \cup f = Third(i), type = TypeOf[is],
               type # "" => count = IF is = was THEN more ELSE 1
        PROVE  MarkRightly
    <3>1. Rightly(f, type, count) BY <2>1, <2>9, <1>0 DEF Rightly
    <3> QED BY <3>1, Right
  <2>11. ASSUME NEW f \in SUBSET Flag, NEW type \in PTypes,
                Mark(f, type, more), tmds_p[i] \cup f = Third(i), type = TypeOf[is], is = was
         PROVE  MarkRightly
    <3>1. Rightly(f, type, more) BY <2>1, <2>11, <1>0 DEF Rightly
    <3> QED BY <3>1, <1>0, Right
  <2>10. /\ {} \in SUBSET Flag /\ 0 \in Nat /\ 1 \in Nat /\ more \in Nat /\ more = p_count + 1
         /\ \A f \in Period : TypeOf[f] \in PTypes
    BY <1>0 DEF Period, Ctl, Islandic, TypeOf, PTypes
  <2>12. CASE was \in {"CTRL", "VIDEO"}
    <3>1. p_type = "" BY <2>4, <2>12, SourceTables
    <3>2. is \in {"CTRL", "VIDEO", "VIDEO_PRE", "DATA_PRE"} BY <2>3, <2>12, SourceTables
    <3>3. CASE is \in {"CTRL", "VIDEO"} BY <3>1, <3>3, <2>8, <1>5
    <3>4. CASE is = "VIDEO_PRE"
      <4>1. Mark({}, "video_pre", 1) BY <3>1, <3>4, <2>8 DEF DetectIslands, Outside
      <4>2. tmds_p[i] \cup {} = Third(i) BY <2>6, <2>7, <3>4 DEF Ctl
      <4> QED BY <4>1, <4>2, <2>9, <2>12, <3>4, <2>10, SourceTables DEF PTypes
    <3>5. CASE is = "DATA_PRE"
      <4>1. Mark({}, "data_pre", 1) BY <3>1, <3>5, <2>8 DEF DetectIslands, Outside
      <4>2. tmds_p[i] \cup {} = Third(i) BY <2>6, <2>7, <3>5 DEF Ctl
      <4> QED BY <4>1, <4>2, <2>9, <2>12, <3>5, <2>10, SourceTables DEF PTypes
    <3> QED BY <3>2, <3>3, <3>4, <3>5
  <2>13. CASE was = "VIDEO_PRE"
    <3>1. p_type = "video_pre" /\ InPreamble("VIDEO_PRE", IsVideoGb(i), "VIDEO_GB", "video_gb")
      BY <2>4, <2>13, SourceTables DEF DetectIslands
    <3>2. CASE is = "VIDEO_PRE"
      <4>1. Mark({}, "video_pre", more) BY <3>1, <3>2, <2>8, <1>0 DEF InPreamble, Same
      <4>2. tmds_p[i] \cup {} = Third(i) BY <2>6, <2>7, <3>2 DEF Ctl
      <4> QED BY <4>1, <4>2, <2>11, <2>13, <3>2, <2>10, SourceTables DEF PTypes
    <3>3. CASE is = "VIDEO_GB"
      <4>1. p_count = PRE_LEN /\ IsVideoGb(i) BY <3>1, <3>3, <2>5, <2>13, <1>4 DEF MayLast
      <4>2. Mark({"VIDEO_GB"}, "video_gb", 1) BY <3>1, <3>3, <4>1, <2>8 DEF InPreamble
      <4>3. tmds_p[i] \cup {"VIDEO_GB"} = Third(i) BY <2>6, <2>7, <3>3 DEF Ctl, FlagsOf
      <4>4. {"VIDEO_GB"} \in SUBSET Flag /\ "video_gb" \in PTypes
        BY DEF Flag, ChannelFlag, PTypes
      <4> QED BY <4>2, <4>3, <4>4, <2>9, <2>13, <3>3, <2>10, SourceTables
    <3> QED BY <2>3, <2>13, <3>2, <3>3, SourceTables
  <2>14. CASE was = "DATA_PRE"
    <3>1. /\ p_type = "data_pre"
          /\ InPreamble("DATA_PRE", IsDataGb(i), "DATA_GB_LEADING", "data_gb_leading")
      BY <2>4, <2>14, SourceTables DEF DetectIslands
    <3>2. CASE is = "DATA_PRE"
      <4>1. Mark({}, "data_pre", more) BY <3>1, <3>2, <2>8, <1>0 DEF InPreamble, Same
      <4>2. tmds_p[i] \cup {} = Third(i) BY <2>6, <2>7, <3>2 DEF Ctl
      <4> QED BY <4>1, <4>2, <2>11, <2>14, <3>2, <2>10, SourceTables DEF PTypes
    <3>3. CASE is = "DATA_GB_LEADING"
      <4>1. p_count = PRE_LEN /\ IsDataGb(i) BY <3>1, <3>3, <2>5, <2>14, <1>4 DEF MayLast
      <4>2. Mark({"DATA_GB_LEADING"}, "data_gb_leading", 1)
        BY <3>1, <3>3, <4>1, <2>8 DEF InPreamble
      <4>3. tmds_p[i] \cup {"DATA_GB_LEADING"} = Third(i) BY <2>6, <2>7, <3>3 DEF Ctl, FlagsOf
      <4>4. {"DATA_GB_LEADING"} \in SUBSET Flag /\ "data_gb_leading" \in PTypes
        BY DEF Flag, ChannelFlag, PTypes
      <4> QED BY <4>2, <4>3, <4>4, <2>9, <2>14, <3>3, <2>10, SourceTables
    <3> QED BY <2>3, <2>14, <3>2, <3>3, SourceTables
  <2>15. CASE was = "VIDEO_GB"
    <3>1. p_type = "video_gb" /\ InVideoGb
      BY <2>4, <2>15, SourceTables DEF DetectIslands
    <3>2. CASE is = "VIDEO_GB"
      <4>1. Mark({"VIDEO_GB"}, "video_gb", more)
        BY <3>1, <3>2, <1>4, <1>0 DEF InVideoGb, Same
      <4>2. tmds_p[i] \cup {"VIDEO_GB"} = Third(i) BY <2>6, <2>7, <3>2 DEF Ctl, FlagsOf
      <4>3. {"VIDEO_GB"} \in SUBSET Flag /\ "video_gb" \in PTypes
        BY DEF Flag, ChannelFlag, PTypes
      <4> QED BY <4>1, <4>2, <4>3, <2>11, <2>15, <3>2, <2>10, SourceTables
    <3>3. CASE is = "VIDEO"
      <4>1. p_count = GB_LEN BY <3>1, <3>3, <2>5, <2>15 DEF MayLast
      <4>2. ~IsVideoGb(i)
        <5>1. tmds[i+1].sent = "VIDEO" /\ tmds[i].sent = "VIDEO_GB"
          <6>1. i - 1 + 1 = i BY <1>1
          <6> QED BY <6>1, <3>3, <2>15 DEF Sent
        <5>2. ~(Sym(0, i) = "g" /\ Sym(1, i) = "d" /\ Sym(2, i) = "g")
          BY <5>1, <2>1 DEF IsLegal, LooksLikeGb
        <5> QED BY <5>2, <1>4
      <4>3. Mark({}, "", 0) BY <3>1, <4>1, <4>2 DEF InVideoGb
      <4>4. tmds_p[i] \cup {} = Third(i) BY <2>6, <2>7, <3>3 DEF Ctl
      <4>5. TypeOf["VIDEO"] = "" /\ "" \in PTypes BY SourceTables DEF PTypes
      <4> QED BY <4>3, <4>4, <4>5, <2>9, <3>3, <2>10
    <3> QED BY <2>3, <2>15, <3>2, <3>3, SourceTables
  <2>16. CASE was = "DATA_GB_LEADING"
    <3>1. p_type = "data_gb_leading" /\ InDataGbLeading
      BY <2>4, <2>16, SourceTables DEF DetectIslands
    <3>2. CASE is = "DATA_GB_LEADING"
      <4>1. Mark({"DATA_GB_LEADING"}, "data_gb_leading", more)
        BY <3>1, <3>2, <1>4, <1>0 DEF InDataGbLeading, Same
      <4>2. tmds_p[i] \cup {"DATA_GB_LEADING"} = Third(i) BY <2>6, <2>7, <3>2 DEF Ctl, FlagsOf
      <4>3. {"DATA_GB_LEADING"} \in SUBSET Flag /\ "data_gb_leading" \in PTypes
        BY DEF Flag, ChannelFlag, PTypes
      <4> QED BY <4>1, <4>2, <4>3, <2>11, <2>16, <3>2, <2>10, SourceTables
    <3>3. CASE is = "DATA"
      <4>1. p_count = GB_LEN /\ IsData(i) /\ ~IsDataGb(i)
        BY <3>1, <3>3, <2>5, <2>16, <1>4 DEF MayLast
      <4>2. Mark({"DATA"}, "data", 1) BY <3>1, <4>1 DEF InDataGbLeading
      <4>3. tmds_p[i] \cup {"DATA"} = Third(i) BY <2>6, <2>7, <3>3 DEF Ctl, FlagsOf
      <4>4. {"DATA"} \in SUBSET Flag /\ "data" \in PTypes
        BY DEF Flag, ChannelFlag, PTypes
      <4> QED BY <4>2, <4>3, <4>4, <2>9, <2>16, <3>3, <2>10, SourceTables
    <3> QED BY <2>3, <2>16, <3>2, <3>3, SourceTables
  <2>17. CASE was = "DATA"
    <3>1. p_type = "data" /\ InData
      BY <2>4, <2>17, SourceTables DEF DetectIslands
    <3>2. CASE is = "DATA"
      <4>1. Mark({"DATA"}, "data", more) BY <3>1, <3>2, <1>4, <1>0 DEF InData, Same
      <4>2. tmds_p[i] \cup {"DATA"} = Third(i) BY <2>6, <2>7, <3>2 DEF Ctl, FlagsOf
      <4>3. {"DATA"} \in SUBSET Flag /\ "data" \in PTypes
        BY DEF Flag, ChannelFlag, PTypes
      <4> QED BY <4>1, <4>2, <4>3, <2>11, <2>17, <3>2, <2>10, SourceTables
    <3>3. CASE is = "DATA_GB_TRAILING"
      <4>1. p_count % PACKET_LEN = 0 /\ p_count \div PACKET_LEN <= PACKET_MAX
        BY <3>1, <3>3, <2>5, <2>17 DEF MayLast
      <4>2. ~(p_count \div PACKET_LEN > PACKET_MAX)
        <5>1. p_count \div PACKET_LEN \in Int /\ PACKET_MAX \in Int
          BY <1>1, LengthAssumption
        <5> QED BY <4>1, <5>1
      <4>3. Mark({"DATA_GB_TRAILING"}, "data_gb_trailing", 1)
        BY <3>1, <3>3, <4>1, <4>2, <1>4 DEF InData
      <4>4. tmds_p[i] \cup {"DATA_GB_TRAILING"} = Third(i) BY <2>6, <2>7, <3>3 DEF Ctl, FlagsOf
      <4>5. {"DATA_GB_TRAILING"} \in SUBSET Flag /\ "data_gb_trailing" \in PTypes
        BY DEF Flag, ChannelFlag, PTypes
      <4> QED BY <4>3, <4>4, <4>5, <2>9, <2>17, <3>3, <2>10, SourceTables
    <3> QED BY <2>3, <2>17, <3>2, <3>3, SourceTables
  <2>18. CASE was = "DATA_GB_TRAILING"
    <3>1. p_type = "data_gb_trailing" /\ InDataGbTrailing
      BY <2>4, <2>18, SourceTables DEF DetectIslands
    <3>2. CASE is = "DATA_GB_TRAILING"
      <4>1. Mark({"DATA_GB_TRAILING"}, "data_gb_trailing", more)
        BY <3>1, <3>2, <1>4, <1>0 DEF InDataGbTrailing, Same
      <4>2. tmds_p[i] \cup {"DATA_GB_TRAILING"} = Third(i) BY <2>6, <2>7, <3>2 DEF Ctl, FlagsOf
      <4>3. {"DATA_GB_TRAILING"} \in SUBSET Flag /\ "data_gb_trailing" \in PTypes
        BY DEF Flag, ChannelFlag, PTypes
      <4> QED BY <4>1, <4>2, <4>3, <2>11, <2>18, <3>2, <2>10, SourceTables
    <3>3. CASE is = "CTRL"
      <4>1. p_count = GB_LEN /\ ~IsDataGb(i) /\ "CTRL" \in tmds_p[i]
        BY <3>1, <3>3, <2>5, <2>8, <2>18, <1>4 DEF MayLast, Ctl
      <4>2. Mark({}, "", 0) BY <3>1, <4>1 DEF InDataGbTrailing
      <4>3. tmds_p[i] \cup {} = Third(i) BY <2>6, <2>7, <3>3 DEF Ctl
      <4> QED BY <4>2, <4>3, <2>9, <3>3, <2>10, SourceTables DEF PTypes
    <3> QED BY <2>3, <2>18, <3>2, <3>3, SourceTables
  <2> QED BY <2>2, <2>12, <2>13, <2>14, <2>15, <2>16, <2>17, <2>18 DEF Period, Ctl, Islandic
<1> QED BY <1>1, <1>6, <1>7

\* Values, start and flags stay known while the tables they are about stay.
LEMMA LegalStays ==
  ASSUME LegalInv, tmds' = tmds, tmds_c' = tmds_c, m_start' = m_start,
         pass \notin {"prelim", "resolve"},
         pass' \notin {"prelim", "resolve", "preambles", "islands"}
  PROVE  ValuesKnown' /\ StartKnown' /\ RunKnown'
<1>1. Pixels' = Pixels /\ (\A c, k : Sym(c, k)' = Sym(c, k)) /\ \A k : Sent(k)' = Sent(k)
  BY SameSource
<1>2. ValuesKnown'
  <2>1. pass # "prelim" /\ pass' # "prelim" OBVIOUS
  <2> QED BY <1>1, <2>1 DEF LegalInv, ValuesKnown
<1>3. StartKnown'
  BY <1>1 DEF LegalInv, StartKnown
<1>4. RunKnown'
  BY DEF RunKnown
<1> QED BY <1>2, <1>3, <1>4

LEMMA IslandsLegal == ASSUME IInv, IsLegal, LegalInv, DetectIslands PROVE LegalInv'
<1>1. /\ tmds' = tmds /\ tmds_c' = tmds_c /\ m_start' = m_start /\ pass = "islands"
      /\ error = "none" /\ stop = FALSE
      /\ m_start \in Pixels /\ Sent(m_start) = "CTRL"
      /\ \A k \in Pixels : /\ k >= i => tmds_p[k] = Second(k)
                           /\ k < i /\ k >= m_start => tmds_p[k] = Third(k)
  BY DEF DetectIslands, LegalInv, StartKnown, FlagsKnown, Undisturbed
<1>2. /\ n \in Nat /\ Pixels = 0 .. n-1 /\ n' = n /\ Pixels' = Pixels /\ i \in Pixels
      /\ (\A c, k : Sym(c, k)' = Sym(c, k))
      /\ \A k : Sent(k)' = Sent(k) /\ First(k)' = First(k) /\ Third(k)' = Third(k)
  BY <1>1, Basics, SameSource DEF IInv, Types, Counters
<1>3. \A k : Second(k)' = Second(k) BY <1>1, <1>2 DEF Second, FlagsOf
<1>4. PICK f \in SUBSET Flag, type \in PTypes, count \in Nat : Rightly(f, type, count)
  BY IslandsMark DEF MarkRightly
<1>5. tmds_p \in [Pixels -> SUBSET Flag] BY DEF IInv, Types, Tables
<1>6. /\ tmds_p'[i] = tmds_p[i] \cup f /\ \A k \in Pixels : k # i => tmds_p'[k] = tmds_p[k]
      /\ error' = error /\ stop' = stop
      /\ \/ i = n-1 /\ pass' = "video" /\ i' = 0
         \/ i # n-1 /\ pass' = "islands" /\ i' = i + 1 /\ p_count' = count /\ p_type' = type
  <2>1. Mark(f, type, count) BY <1>4 DEF Rightly
  <2>2. tmds_p' = [tmds_p EXCEPT ![i] = @ \cup f] BY <2>1 DEF Mark
  <2>3. tmds_p'[i] = tmds_p[i] \cup f /\ \A k \in Pixels : k # i => tmds_p'[k] = tmds_p[k]
    BY <2>2, <1>2, <1>5
  <2>4. /\ error' = error /\ stop' = stop
        /\ \/ i = n-1 /\ pass' = "video" /\ i' = 0
           \/ i # n-1 /\ pass' = "islands" /\ i' = i + 1 /\ p_count' = count /\ p_type' = type
    BY <2>1, <1>1, TableValues DEF Mark, Advance, NewPass
  <2> QED BY <2>3, <2>4
<1>7. /\ \A k \in Pixels : k >= i + 1 => tmds_p'[k] = Second(k)
      /\ \A k \in Pixels : k < i + 1 /\ k >= m_start => tmds_p'[k] = Third(k)
  <2>1. ASSUME NEW k \in Pixels, k >= i + 1 PROVE tmds_p'[k] = Second(k)
    <3>1. k # i /\ k >= i BY <2>1, <1>2
    <3> QED BY <3>1, <1>1, <1>6
  <2>2. ASSUME NEW k \in Pixels, k < i + 1, k >= m_start PROVE tmds_p'[k] = Third(k)
    <3>1. CASE k = i BY <2>2, <3>1, <1>4, <1>6 DEF Rightly
    <3>2. CASE k # i
      <4>1. k < i BY <2>2, <3>2, <1>2
      <4> QED BY <2>2, <3>2, <4>1, <1>1, <1>6
    <3> QED BY <3>1, <3>2
  <2> QED BY <2>1, <2>2
<1>8. Undisturbed' BY <1>1, <1>6 DEF Undisturbed
<1>9. SyncsKnown' BY <1>6 DEF SyncsKnown
<1>10. CASE i = n-1 /\ pass' = "video" /\ i' = 0
  <2>1. ValuesKnown' /\ StartKnown' /\ RunKnown'
    BY <1>1, <1>10, LegalStays
  <2>2. FlagsKnown'
    <3> SUFFICES ASSUME NEW k \in Pixels, k >= m_start
                 PROVE  tmds_p'[k] = IF k < i' THEN FlagsOf(Sent(k))' ELSE Third(k)'
      BY <1>1, <1>2, <1>10 DEF FlagsKnown, FromStart
    <3>1. k < i + 1 /\ ~(k < i') BY <1>2, <1>10
    <3> QED BY <3>1, <1>2, <1>7
  <2> QED BY <2>1, <2>2, <1>8, <1>9 DEF LegalInv
<1>11. CASE /\ i # n-1 /\ pass' = "islands" /\ i' = i + 1
            /\ p_count' = count /\ p_type' = type
  <2>1. ValuesKnown'
    <3>1. pass # "prelim" /\ pass' # "prelim" BY <1>1, <1>11
    <3> QED BY <3>1, <1>1, <1>2 DEF LegalInv, ValuesKnown
  <2>11. m_start # -1 => \A k \in Pixels : Sent(k) = "CTRL" => k >= m_start
    BY DEF LegalInv, StartKnown
  <2>2. StartKnown' BY <2>11, <1>1, <1>2, <1>11 DEF StartKnown
  <2>3. FlagsKnown' BY <1>1, <1>2, <1>3, <1>7, <1>11 DEF FlagsKnown
  <2>4. i' - 1 = i /\ (i' <= m_start => i < m_start) /\ (i' > m_start => i >= m_start)
    BY <1>1, <1>2, <1>11
  <2>5. i < m_start => type = "" BY <1>4 DEF Rightly
  <2>6. ASSUME i >= m_start
        PROVE  /\ type = TypeOf[Sent(i)]
               /\ type # "" => count = IF Sent(i) = Sent(i-1) THEN p_count + 1 ELSE 1
    BY <1>4, <2>6 DEF Rightly
  <2>9. i >= m_start /\ i # m_start => i > m_start BY <1>1, <1>2
  <2>10. /\ count = p_count + 1 =>
              /\ i + 1 - count = i - p_count /\ i - count = i - p_count - 1
              /\ 0 < p_count => 0 < count
         /\ count = 1 => i + 1 - count = i /\ i - count = i - 1 /\ 0 < count
         /\ \A k \in i .. i : k = i
    <3>1. p_count \in Nat /\ i \in Nat
      BY <1>1, <1>2 DEF IInv, Types, Counters
    <3> QED BY <3>1
  <2>7. ASSUME i >= m_start, type # ""
        PROVE  /\ 0 < count /\ i + 1 - count > m_start
               /\ RunOf(Sent(i), i + 1 - count, i) /\ Sent(i - count) # Sent(i)
    <3>1. Sent(i) # "CTRL" BY <2>6, <2>7, SourceTables
    <3>2. i # m_start /\ i > m_start
      <4>1. i # m_start BY <3>1, <1>1
      <4> QED BY <4>1, <2>7, <2>9
    <3>3. p_type = TypeOf[Sent(i-1)] BY <3>2, <1>1 DEF LegalInv, RunKnown
    <3>4. CASE Sent(i) = Sent(i-1)
      <4>1. p_type # "" /\ count = p_count + 1 BY <3>3, <3>4, <2>6, <2>7
      <4>2. /\ 0 < p_count /\ i - p_count > m_start
            /\ \A k \in i - p_count .. i-1 : Sent(k) = Sent(i-1)
            /\ Sent(i - p_count - 1) # Sent(i-1)
        BY <3>2, <4>1, <1>1 DEF LegalInv, RunKnown, RunOf
      <4>3. p_count \in Nat /\ i \in Nat
        BY <1>1, <1>2 DEF IInv, Types, Counters
      <4>4. i + 1 - count = i - p_count /\ i - count = i - p_count - 1 /\ 0 < count
        BY <4>1, <4>2, <2>10
      <4>5. \A k \in i - p_count .. i : k = i \/ k \in i - p_count .. i-1
        BY <4>3
      <4>6. RunOf(Sent(i), i + 1 - count, i)
        BY <4>2, <4>4, <4>5, <3>4 DEF RunOf
      <4> QED BY <4>2, <4>4, <4>6, <3>4
    <3>5. CASE Sent(i) # Sent(i-1)
      <4>1. count = 1 BY <3>5, <2>6, <2>7
      <4>2. i + 1 - count = i /\ i - count = i - 1 /\ 0 < count
        BY <4>1, <2>10
      <4>3. RunOf(Sent(i), i, i) BY <2>10 DEF RunOf
      <4> QED BY <4>2, <4>3, <3>2, <3>5
    <3> QED BY <3>4, <3>5
  <2>8. RunKnown'
    <3>1. i' <= m_start => p_type' = "" BY <2>4, <2>5, <1>11
    <3>2. ASSUME i' > m_start
          PROVE  /\ p_type' = TypeOf[Sent(i'-1)]
                 /\ p_type' # "" => /\ 0 < p_count' /\ i' - p_count' > m_start
                                    /\ RunOf(Sent(i'-1), i' - p_count', i'-1)
                                    /\ Sent(i' - p_count' - 1) # Sent(i'-1)
      <4>1. i >= m_start BY <2>4, <3>2
      <4>2. i' - p_count' = i + 1 - count /\ i' - p_count' - 1 = i - count
        <5>1. i \in Int /\ count \in Int BY <1>2, <1>4
        <5> QED BY <5>1, <1>11
      <4> QED BY <4>1, <4>2, <2>4, <2>6, <2>7, <1>11
    <3>3. \A f0, a, b : RunOf(f0, a, b)' = RunOf(f0, a, b) BY <1>2 DEF RunOf
    <3> QED BY <3>1, <3>2, <3>3, <1>1, <1>2, <1>11 DEF RunKnown
  <2> QED BY <2>1, <2>2, <2>3, <2>8, <1>8, <1>9 DEF LegalInv
<1> QED BY <1>6, <1>10, <1>11

LEMMA VideoLegal == ASSUME IInv, IsLegal, LegalInv, DetectVideo PROVE LegalInv'
<1>1. /\ tmds' = tmds /\ tmds_c' = tmds_c /\ m_start' = m_start /\ pass = "video"
      /\ error = "none" /\ stop = FALSE /\ m_start \in Pixels
      /\ \A k \in FromStart : tmds_p[k] = IF k < i THEN FlagsOf(Sent(k)) ELSE Third(k)
  BY DEF DetectVideo, LegalInv, StartKnown, FlagsKnown, Undisturbed
<1>2. /\ n \in Nat /\ Pixels = 0 .. n-1 /\ n' = n /\ Pixels' = Pixels /\ i \in Pixels
      /\ \A k : Sent(k)' = Sent(k) /\ Third(k)' = Third(k)
  BY <1>1, Basics, SameSource DEF IInv, Types, Counters
<1>3. tmds_p \in [Pixels -> SUBSET Flag] BY DEF IInv, Types, Tables
<1>4. /\ error' = error /\ stop' = stop /\ Loop(0)
      /\ \/ tmds_p[i] # {} /\ tmds_p' = tmds_p
         \/ tmds_p[i] = {} /\ tmds_p' = [tmds_p EXCEPT ![i] = {"VIDEO"}]
  <2>1. tmds_p[i] = {} => AllChannels("VIDEO", i)
    BY <1>1, <1>2, UnsortedIsVideo
  <2> QED BY <2>1 DEF DetectVideo
<1>5. /\ tmds_p'[i] = IF tmds_p[i] = {} THEN {"VIDEO"} ELSE tmds_p[i]
      /\ \A k \in Pixels : k # i => tmds_p'[k] = tmds_p[k]
  BY <1>2, <1>3, <1>4
<1>6. i \in FromStart => tmds_p'[i] = FlagsOf(Sent(i))
  <2> SUFFICES ASSUME i \in FromStart PROVE tmds_p'[i] = FlagsOf(Sent(i))
    OBVIOUS
  <2>1. tmds_p[i] = Third(i)
    <3>1. ~(i < i) BY <1>2
    <3> QED BY <3>1, <1>1
  <2>2. FlagsOf("VIDEO") = {"VIDEO"} /\ FlagsOf(Sent(i)) # {} BY DEF FlagsOf
  <2> QED BY <2>1, <2>2, <1>5 DEF Third
<1>7. \A k \in FromStart : tmds_p'[k] = IF k < i + 1 THEN FlagsOf(Sent(k)) ELSE Third(k)
  <2> SUFFICES ASSUME NEW k \in FromStart
               PROVE  tmds_p'[k] = IF k < i + 1 THEN FlagsOf(Sent(k)) ELSE Third(k)
    OBVIOUS
  <2>1. k \in Pixels BY DEF FromStart
  <2>2. CASE k = i
    <3>1. i < i + 1 BY <1>2
    <3> QED BY <3>1, <2>2, <1>6
  <2>3. CASE k # i
    <3>1. k < i + 1 <=> k < i BY <2>1, <2>3, <1>2
    <3> QED BY <3>1, <2>1, <2>3, <1>1, <1>5
  <2> QED BY <2>2, <2>3
<1>8. \/ i # n-1 /\ i' = i + 1 /\ pass' = "video"
      \/ i = n-1 /\ i' = 0 /\ pass' = "syncs"
  BY <1>1, <1>4, Moves, TableValues
<1>9. ValuesKnown' /\ StartKnown' /\ RunKnown'
  BY <1>1, <1>8, LegalStays
<1>10. Undisturbed' BY <1>1, <1>4, <1>8 DEF Undisturbed
<1>11. FromStart' = FromStart BY <1>1, <1>2 DEF FromStart
<1>12. FlagsKnown'
  <2>1. CASE i # n-1 /\ i' = i + 1 /\ pass' = "video"
    <3>1. \A k : FlagsOf(Sent(k))' = FlagsOf(Sent(k)) BY <1>2 DEF FlagsOf
    <3> QED BY <2>1, <3>1, <1>2, <1>7, <1>11 DEF FlagsKnown
  <2>2. CASE i = n-1 /\ i' = 0 /\ pass' = "syncs"
    <3>1. \A k \in FromStart : k < i + 1 BY <2>2, <1>2 DEF FromStart
    <3>2. \A k \in FromStart : SortedAsSent(k)'
      BY <3>1, <1>1, <1>7 DEF SortedAsSent, Sent, FlagsOf
    <3> QED BY <2>2, <3>2, <1>11 DEF FlagsKnown
  <2> QED BY <1>8, <2>1, <2>2
<1>13. SyncsKnown'
  <2>1. CASE pass' = "syncs"
    <3>1. i' = 0 BY <2>1, <1>8
    <3>2. ~(i' > m_start') /\ \A k \in FromStart : ~(k < i')
      BY <3>1, <1>1, <1>2 DEF FromStart
    <3> QED BY <2>1, <3>2, <1>11 DEF SyncsKnown
  <2>2. CASE pass' = "video"
    BY <2>2 DEF SyncsKnown
  <2> QED BY <2>1, <2>2, <1>8
<1> QED BY <1>9, <1>10, <1>12, <1>13 DEF LegalInv

\* Syncs are read from control pixels and islands, and kept over video.
LEMMA SyncRight ==
  ASSUME IInv, IsLegal, LegalInv, pass = "syncs", i \in FromStart
  PROVE  SyncAt(i) = tmds[i+1].hv
<1>1. /\ n \in Nat /\ Pixels = 0 .. n-1 /\ i \in Pixels /\ i >= m_start
      /\ m_start \in Pixels /\ Sent(m_start) = "CTRL" /\ tmds_p[i] = FlagsOf(Sent(i))
  BY Basics DEF IInv, Types, FromStart, LegalInv, StartKnown, FlagsKnown, SortedAsSent, Sent
<1>2. Sent(i) \in Period BY <1>1, SoundPixel, Undamaged DEF IInv
<1>3. CASE Sent(i) \in Ctl
  BY <1>1, <1>3, LegalValues, LegalMarks DEF SyncAt
<1>4. CASE Sent(i) \in Islandic
  <2>1. "CTRL" \notin tmds_p[i] /\ tmds_p[i] = {Sent(i)}
    BY <1>1, <1>4 DEF FlagsOf, Islandic
  <2>2. Terc4Low[Sym(0, i)] = tmds[i+1].hv
    BY <1>1, <1>4, SoundPixel, Undamaged DEF IInv
  <2>3. tmds_p[i] \cap {"DATA", "DATA_GB_LEADING", "DATA_GB_TRAILING"} # {}
    BY <2>1, <1>4 DEF Islandic
  <2> QED BY <2>1, <2>2, <2>3 DEF SyncAt
<1>5. CASE Sent(i) \in {"VIDEO_GB", "VIDEO"}
  <2>1. tmds_p[i] = {Sent(i)} BY <1>1, <1>5 DEF FlagsOf
  <2>2. SyncAt(i) = sync BY <2>1, <1>5 DEF SyncAt
  <2>3. i # m_start BY <1>1, <1>5
  <2>4. i > m_start /\ i \in Pixels \ {0} BY <2>3, <1>1
  <2>5. sync = tmds[i].hv BY <2>4 DEF LegalInv, SyncsKnown
  <2>6. tmds[i+1].hv = tmds[i].hv BY <2>4, <1>5 DEF IsLegal, FollowsTheStandard
  <2> QED BY <2>2, <2>5, <2>6
<1> QED BY <1>2, <1>3, <1>4, <1>5 DEF Period

LEMMA SyncsLegal == ASSUME IInv, IsLegal, LegalInv, ResolveSyncs PROVE LegalInv'
<1>1. /\ tmds' = tmds /\ tmds_c' = tmds_c /\ m_start' = m_start /\ tmds_p' = tmds_p
      /\ error' = error /\ stop' = stop /\ pass = "syncs"
      /\ sync' = SyncAt(i) /\ tmds_sync' = [tmds_sync EXCEPT ![i] = sync'] /\ Loop(0)
      /\ error = "none" /\ stop = FALSE /\ m_start \in Pixels
      /\ (\A k \in FromStart : SortedAsSent(k))
      /\ \A k \in FromStart : k < i => tmds_sync[k] = tmds[k+1].hv
  BY DEF ResolveSyncs, LegalInv, StartKnown, FlagsKnown, SyncsKnown, Undisturbed
<1>2. /\ n \in Nat /\ Pixels = 0 .. n-1 /\ n' = n /\ Pixels' = Pixels /\ i \in Pixels
      /\ tmds_sync \in [Pixels -> -1 .. 3]
  <2>1. Types BY DEF IInv
  <2>2. i \in -1 .. n-1 /\ i # -1 /\ tmds_sync \in [Pixels -> -1 .. 3]
    BY <2>1, <1>1 DEF Types, Counters, Tables
  <2>3. n \in Nat /\ Pixels = 0 .. n-1 BY <2>1, Basics
  <2> QED BY <2>2, <2>3, <1>1, SameSource
<1>3. i \in FromStart => sync' = tmds[i+1].hv BY <1>1, SyncRight
<1>4. tmds_sync'[i] = sync' /\ \A k \in Pixels : k # i => tmds_sync'[k] = tmds_sync[k]
  BY <1>1, <1>2
<1>5. \A k \in FromStart : k < i + 1 => tmds_sync'[k] = tmds[k+1].hv
  <2> SUFFICES ASSUME NEW k \in FromStart, k < i + 1 PROVE tmds_sync'[k] = tmds[k+1].hv
    OBVIOUS
  <2>1. k \in Pixels BY DEF FromStart
  <2>2. k = i \/ (k # i /\ k < i) BY <2>1, <1>2
  <2> QED BY <2>1, <2>2, <1>1, <1>3, <1>4
<1>6. \/ i # n-1 /\ i' = i + 1 /\ pass' = "syncs"
      \/ i = n-1 /\ i' = 0 /\ pass' = "write"
  BY <1>1, Moves, TableValues
<1>7. ValuesKnown' /\ StartKnown' /\ RunKnown'
  BY <1>1, <1>6, LegalStays
<1>8. Undisturbed' BY <1>1, <1>6 DEF Undisturbed
<1>9. FromStart' = FromStart BY <1>1, <1>2 DEF FromStart
<1>10. FlagsKnown'
  <2>1. \A k \in FromStart : SortedAsSent(k)' BY <1>1 DEF SortedAsSent, FlagsOf
  <2> QED BY <2>1, <1>6, <1>9 DEF FlagsKnown
<1>11. SyncsKnown'
  <2>1. CASE i # n-1 /\ i' = i + 1 /\ pass' = "syncs"
    <3>1. i' > m_start => i \in FromStart BY <2>1, <1>1, <1>2 DEF FromStart
    <3>2. i' > m_start' => sync' = tmds'[i'].hv BY <2>1, <3>1, <1>1, <1>3
    <3> QED BY <2>1, <3>2, <1>1, <1>5, <1>9 DEF SyncsKnown
  <2>2. CASE i = n-1 /\ i' = 0 /\ pass' = "write"
    <3>1. \A k \in FromStart : k < i + 1 BY <2>2, <1>2 DEF FromStart
    <3> QED BY <2>2, <3>1, <1>1, <1>5, <1>9 DEF SyncsKnown
  <2> QED BY <1>6, <2>1, <2>2
<1> QED BY <1>7, <1>8, <1>10, <1>11 DEF LegalInv

\* The file is written and read again with the result as it is.
LEMMA FileLegal == ASSUME IInv, IsLegal, LegalInv, WriteDecoded \/ ReadDecoded PROVE LegalInv'
<1>1. /\ tmds' = tmds /\ tmds_c' = tmds_c /\ m_start' = m_start /\ tmds_p' = tmds_p
      /\ tmds_sync' = tmds_sync
  <2>1. CASE WriteDecoded BY <2>1 DEF WriteDecoded, results
  <2>2. CASE ReadDecoded BY <2>2, ReadGivesBack DEF results
  <2> QED BY <2>1, <2>2
<1>2. pass \in {"write", "done"} BY DEF WriteDecoded, ReadDecoded
<1>3. m_start # -1
  <2>1. m_start \in Pixels BY <1>2 DEF LegalInv, StartKnown
  <2> QED BY <2>1, Basics DEF IInv
<1>4. pass' \in {"done", "read"} /\ error' = "none" /\ stop' = FALSE
  <2>1. CASE WriteDecoded BY <2>1, <1>3 DEF WriteDecoded, LegalInv, Undisturbed
  <2>2. CASE ReadDecoded BY <2>2 DEF ReadDecoded
  <2> QED BY <2>1, <2>2
<1>5. ValuesKnown' /\ StartKnown' /\ RunKnown' BY <1>1, <1>2, <1>4, LegalStays
<1>6. Undisturbed' BY <1>4 DEF Undisturbed
<1>7. FromStart' = FromStart BY <1>1, SameSource DEF FromStart
<1>8. FlagsKnown'
  <2>1. \A k \in FromStart : SortedAsSent(k) BY <1>2 DEF LegalInv, FlagsKnown
  <2>2. \A k \in FromStart : SortedAsSent(k)' BY <2>1, <1>1 DEF SortedAsSent, FlagsOf
  <2> QED BY <2>2, <1>4, <1>7 DEF FlagsKnown
<1>9. SyncsKnown'
  <2>1. \A k \in FromStart : tmds_sync[k] = tmds[k+1].hv BY <1>2 DEF LegalInv, SyncsKnown
  <2> QED BY <2>1, <1>1, <1>4, <1>7 DEF SyncsKnown
<1> QED BY <1>5, <1>6, <1>8, <1>9 DEF LegalInv

LEMMA SourceStays == ASSUME IInv, [Next]_vars PROVE tmds' = tmds
BY ReadGivesBack
DEF Next, vars, PrelimDetect, ResolveControl, DetectPreambles, DetectIslands,
    DetectVideo, ResolveSyncs, WriteDecoded

LEMMA NextLegal == IInv /\ (IsLegal => LegalInv) /\ [Next]_vars => (IsLegal => LegalInv)'
<1> SUFFICES ASSUME IInv, IsLegal => LegalInv, [Next]_vars, IsLegal' PROVE LegalInv'
  OBVIOUS
<1>1. IsLegal /\ LegalInv BY SourceStays, SameSource
<1>2. CASE UNCHANGED vars
  <2>1. /\ tmds' = tmds /\ pass' = pass /\ ch' = ch /\ i' = i /\ m_start' = m_start
        /\ tmds_c' = tmds_c /\ tmds_p' = tmds_p /\ tmds_sync' = tmds_sync
        /\ p_count' = p_count /\ p_type' = p_type /\ sync' = sync
        /\ error' = error /\ stop' = stop
    BY <1>2 DEF vars, results
  <2>2. /\ Pixels' = Pixels /\ (\A c, k : Sym(c, k)' = Sym(c, k)) /\ \A k : Sent(k)' = Sent(k)
        /\ \A k : First(k)' = First(k) /\ Third(k)' = Third(k)
    BY <2>1, SameSource
  <2>3. FromStart' = FromStart /\ \A k : Second(k)' = Second(k) /\ FlagsOf(Sent(k))' = FlagsOf(Sent(k))
    BY <2>1, <2>2 DEF FromStart, Second, FlagsOf
  <2>4. \A k : SortedAsSent(k)' = SortedAsSent(k) BY <2>1 DEF SortedAsSent, FlagsOf
  <2>5. \A f, a, b : RunOf(f, a, b)' = RunOf(f, a, b) BY <2>2 DEF RunOf
  <2>6. ValuesKnown' /\ StartKnown' BY <1>1, <2>1, <2>2 DEF LegalInv, ValuesKnown, StartKnown
  <2>7. RunKnown' BY <1>1, <2>1, <2>2, <2>5 DEF LegalInv, RunKnown
  <2>8. FlagsKnown' BY <1>1, <2>1, <2>2, <2>3, <2>4 DEF LegalInv, FlagsKnown
  <2>9. SyncsKnown' /\ Undisturbed' BY <1>1, <2>1, <2>3 DEF LegalInv, SyncsKnown, Undisturbed
  <2> QED BY <2>6, <2>7, <2>8, <2>9 DEF LegalInv
<1>3. CASE Next
  BY <1>1, <1>3, PrelimLegal, ResolveLegal, PreamblesLegal, IslandsLegal, VideoLegal,
     SyncsLegal, FileLegal DEF Next
<1> QED BY <1>2, <1>3

\* Every capture of what a source may send, of any length, begun and ended
\* anywhere, with packets, preambles and guardbands of any lengths: it is decoded
\* without an error, every pixel from the first control pixel outside a preamble
\* on is sorted into the period it was sent in, and its sync levels are the
\* source's.
THEOREM LegalCapturesAreDecoded == Spec => [](LegalCaptureDecodes /\ SyncsAreTheSources)
<1>1. Init => (IsLegal => LegalInv) BY InitLegal
<1>2. (IsLegal => LegalInv) => LegalCaptureDecodes /\ SyncsAreTheSources
  <2> SUFFICES ASSUME pass = "done", IsLegal, LegalInv
               PROVE  LegalCaptureDecodes /\ SyncsAreTheSources
    BY DEF LegalCaptureDecodes, SyncsAreTheSources
  <2>1. m_start \in Pixels BY DEF LegalInv, StartKnown
  <2>2. m_start # -1
    <3>1. \A k \in Pixels : k # -1 BY DEF Pixels
    <3> QED BY <2>1, <3>1
  <2>3. \A k \in Pixels : Sent(k) = "CTRL" => k \in FromStart
    BY <2>2 DEF LegalInv, StartKnown, FromStart
  <2>4. error = "none" /\ \A k \in FromStart : SortedAsSent(k)
    BY DEF LegalInv, Undisturbed, FlagsKnown
  <2>5. \A k \in FromStart : tmds_sync[k] = tmds[k+1].hv
    BY DEF LegalInv, SyncsKnown
  <2> QED BY <2>2, <2>3, <2>4, <2>5 DEF LegalCaptureDecodes, SyncsAreTheSources
<1> QED BY <1>1, <1>2, SpecIInv, NextLegal, PTL DEF Spec

\* For every capture: what the decode says of its periods is sound, and of a
\* capture of what a source may send it is right.
THEOREM CapturesAreDecoded == Spec => []CaptureIsDecoded
BY PeriodsSound, LegalCapturesAreDecoded, PTL DEF CaptureIsDecoded

------------------------------------------------------------------------------
(* One fault.  Of every capture, each pass knows as much of the pixels that    *)
(* arrived sound as it knows of those of a legal one, as long as it has found  *)
(* no error.  The machine over p_type meets the fault, the pixel e, in step    *)
(* with the source, and knows the length of the run; then either it stays in   *)
(* step, or it is astray, and the pixel after e brings it back or is an error. *)

Begun == m_start # -1 /\ SentAs(m_start)
SoundValues ==
  \A c \in Channel : \A k \in Pixels :
    SentAs(k) /\ Sym(c, k) \in Ctrl /\ (pass # "prelim" \/ c < ch \/ (c = ch /\ k < i)) =>
      tmds_c[c][k] = CIndex[Sym(c, k)]
SoundStart ==
  /\ pass = "prelim" => m_start = -1
  /\ pass = "resolve" => m_start < i
  /\ pass = "preambles" => i >= m_start
  /\ Begun => Sent(m_start) = "CTRL"
SoundFlags ==
  /\ pass = "prelim" => \A k \in Pixels : tmds_p[k] = {}
  /\ pass = "resolve" => \A k \in Pixels : /\ tmds_p[k] \subseteq {"CTRL"}
                                           /\ k >= i => tmds_p[k] = {}
                                           /\ k < i /\ SentAs(k) => tmds_p[k] = First(k)
  /\ pass = "preambles" => \A k \in Pixels :
       /\ k < m_start \/ k >= i => tmds_p[k] \subseteq {"CTRL"}
       /\ SentAs(k) => tmds_p[k] = IF k < i THEN Second(k) ELSE First(k)
  /\ pass = "islands" => \A k \in Pixels :
       /\ k < m_start /\ k >= i => tmds_p[k] \subseteq {"CTRL"}
       /\ SentAs(k) /\ k >= i => tmds_p[k] = Second(k)
       /\ SentAs(k) /\ k < i /\ k >= m_start => tmds_p[k] = Third(k)
  /\ pass = "video" => \A k \in FromStart :
       SentAs(k) => tmds_p[k] = IF k < i THEN FlagsOf(Sent(k)) ELSE Third(k)
  /\ pass \in {"syncs", "write", "done"} => \A k \in FromStart : SentAs(k) => SortedAsSent(k)

\* The machine is in a period, or has counted it, as the source did not: pixel k
\* goes on as its preamble, begins the preamble it is not in, or does not fit.
Astray(type, count, k) ==
  \/ type \in {"video_pre", "data_pre"} /\ count # PRE_LEN
  \/ type = "" /\ Sent(k) \in {"VIDEO_PRE", "DATA_PRE"}
  \/ type = "data_gb_leading" /\ count # GB_LEN /\ Sent(k) = "DATA"
  \/ type = "data" /\ count % PACKET_LEN # 0 /\ Sent(k) \in {"DATA_GB_TRAILING", "CTRL"}
  \/ type = "data_gb_trailing" /\ count # GB_LEN /\ Sent(k) \in Ctl \cup {"DATA"}
RunBehind(count, k) ==
  /\ 0 < count /\ k - count > m_start
  /\ RunOf(Sent(k-1), k - count, k-1) /\ Sent(k - count - 1) # Sent(k-1)
Counted(type, count, k, e) == k <= e /\ type # "" => RunBehind(count, k)
InStep(type, count, k, e) == type = TypeOf[Sent(k-1)] /\ Counted(type, count, k, e)
SoundRun(e) ==
  pass = "islands" =>
    /\ i <= m_start => p_type = ""
    /\ i > m_start => InStep(p_type, p_count, i, e) \/ (i = e + 1 /\ Astray(p_type, p_count, i))

FaultInv(e) ==
  error = "none" /\ pass # "read" =>
    /\ stop = FALSE /\ SoundValues /\ SoundStart
    /\ pass \in {"prelim", "resolve"} \/ Begun => SoundFlags /\ SoundRun(e)

LEMMA InitFault == ASSUME Init, NEW e PROVE FaultInv(e)
<1>1. /\ pass = "prelim" /\ ch = 0 /\ i = 0 /\ m_start = -1 /\ p_count = 0
      /\ stop = FALSE /\ \A k \in Pixels : tmds_p[k] = {}
  BY DEF Init
<1>2. SoundValues
  <2>1. ASSUME NEW c \in Channel, NEW k \in Pixels PROVE ~(c < ch \/ (c = ch /\ k < i))
    BY <1>1 DEF Channel, Pixels
  <2> QED BY <1>1, <2>1 DEF SoundValues
<1> QED BY <1>1, <1>2 DEF FaultInv, Begun, SoundStart, SoundRun, SoundFlags

LEMMA SameSound ==
  ASSUME tmds' = tmds
  PROVE  \A k : SentAs(k)' = SentAs(k) /\ FlagsOf(Sent(k))' = FlagsOf(Sent(k))
BY DEF SentAs, FlagsOf, Sent

LEMMA PrelimFault ==
  ASSUME IInv, NEW e, FaultInv(e), PrelimDetect, error' = "none"
  PROVE  FaultInv(e)'
<1>1. /\ tmds' = tmds /\ m_start' = m_start /\ tmds_p' = tmds_p /\ pass = "prelim" /\ error = "none"
  BY DEF PrelimDetect
<1>2. m_start = -1 /\ stop = FALSE /\ (\A k \in Pixels : tmds_p[k] = {}) /\ SoundValues
  BY <1>1 DEF FaultInv, SoundStart, SoundFlags
<1>3. /\ n \in Nat /\ Pixels = 0 .. n-1 /\ n' = n /\ Pixels' = Pixels /\ i \in Pixels
      /\ ch \in Channel /\ Channel = 0 .. 2
      /\ (\A c, k : Sym(c, k)' = Sym(c, k)) /\ \A k : SentAs(k)' = SentAs(k)
  BY <1>1, Basics, SameSource, SameSound DEF IInv, Types, Counters, Channel
<1>4. /\ stop' = stop
      /\ \/ i # n-1 /\ i' = i + 1 /\ ch' = ch /\ pass' = pass
         \/ i = n-1 /\ NextChannel
  BY DEF PrelimDetect
<1>5. \/ i # n-1 /\ i' = i + 1 /\ ch' = ch /\ pass' = "prelim"
      \/ i = n-1 /\ ch # 2 /\ i' = 0 /\ ch' = ch + 1 /\ pass' = "prelim"
      \/ i = n-1 /\ ch = 2 /\ i' = 0 /\ pass' = "resolve"
  <2>1. CASE i = n-1 /\ NextChannel /\ ch = 2
    <3>1. NewPass(stop', 0) BY <2>1 DEF NextChannel
    <3>2. stop' = FALSE BY <1>2, <1>4
    <3>3. pass' = NextPass[pass] /\ i' = 0 BY <3>1, <3>2, <1>1 DEF NewPass
    <3> QED BY <2>1, <3>3, <1>1, TableValues
  <2>2. CASE i = n-1 /\ NextChannel /\ ch # 2
    BY <2>2, <1>1 DEF NextChannel
  <2> QED BY <1>1, <1>4, <2>1, <2>2
<1>6. \A c \in Channel : \A k \in Pixels :
        /\ c # ch \/ k # i => tmds_c'[c][k] = tmds_c[c][k]
        /\ c = ch /\ k = i /\ Sym(c, k) \in Ctrl => tmds_c'[c][k] = CIndex[Sym(c, k)]
  <2>1. tmds_c \in [Channel -> [Pixels -> -1 .. 3]] BY DEF IInv, Types, Tables
  <2>2. CASE Sym(ch, i) \in Ctrl
    <3>1. tmds_c' = [tmds_c EXCEPT ![ch][i] = CIndex[Sym(ch, i)]]
      BY <2>2 DEF PrelimDetect
    <3> QED BY <2>1, <3>1, <1>3
  <2>3. CASE Sym(ch, i) \notin Ctrl
    <3>1. tmds_c' = tmds_c BY <2>3 DEF PrelimDetect
    <3> QED BY <2>3, <3>1
  <2> QED BY <2>2, <2>3
<1>7. SoundValues'
  <2> SUFFICES ASSUME NEW c \in Channel, NEW k \in Pixels, Sym(c, k) \in Ctrl, SentAs(k),
                      (pass # "prelim" \/ c < ch \/ (c = ch /\ k < i))'
               PROVE  tmds_c'[c][k] = CIndex[Sym(c, k)]
    BY <1>3 DEF SoundValues
  <2>1. CASE c = ch /\ k = i BY <2>1, <1>6
  <2>2. CASE c < ch \/ (c = ch /\ k < i)
    <3>1. tmds_c[c][k] = CIndex[Sym(c, k)] BY <2>2, <1>2 DEF SoundValues
    <3>2. c # ch \/ k # i BY <2>2, <1>3
    <3> QED BY <3>1, <3>2, <1>6
  <2>3. c < ch \/ (c = ch /\ k < i) \/ (c = ch /\ k = i)
    BY <1>3, <1>5
  <2> QED BY <2>1, <2>2, <2>3
<1>8. stop' = FALSE BY <1>2, <1>4
<1>9. SoundStart'
  <2>1. pass' = "resolve" => m_start' < i' BY <1>1, <1>2, <1>5
  <2>2. ~Begun' BY <1>1, <1>2 DEF Begun
  <2> QED BY <1>1, <1>2, <1>5, <2>1, <2>2 DEF SoundStart
<1>10. SoundFlags'
  <2>1. pass' = "resolve" => i' = 0 BY <1>5
  <2>2. \A k \in Pixels : pass' = "resolve" => ~(k < i') BY <2>1, <1>3
  <2>3. \A k \in Pixels' : tmds_p'[k] = {} BY <1>1, <1>2, <1>3
  <2>4. pass' \in {"prelim", "resolve"} BY <1>5
  <2> QED BY <1>3, <2>2, <2>3, <2>4 DEF SoundFlags
<1>11. SoundRun(e)' BY <1>5 DEF SoundRun
<1> QED BY <1>7, <1>8, <1>9, <1>10, <1>11 DEF FaultInv

\* The values of a control pixel that arrived sound, once the channels are read.
LEMMA SoundControl ==
  ASSUME IInv, SoundValues, pass # "prelim", NEW k \in Pixels, SentAs(k), Sent(k) \in Ctl
  PROVE  /\ tmds_c[1][k] = IF Sent(k) = "CTRL" THEN 0 ELSE 1
         /\ tmds_c[2][k] = IF Sent(k) = "DATA_PRE" THEN 1 ELSE 0
<1>1. 1 \in Channel /\ 2 \in Channel BY DEF Channel
<1>2. "c0" \in Ctrl /\ "c1" \in Ctrl /\ CIndex["c0"] = 0 /\ CIndex["c1"] = 1
  BY DEF Ctrl, CIndex
<1>3. /\ Sym(1, k) = IF Sent(k) = "CTRL" THEN "c0" ELSE "c1"
      /\ Sym(2, k) = IF Sent(k) = "DATA_PRE" THEN "c1" ELSE "c0"
  BY SoundPixel DEF IInv
<1>4. \A c \in Channel : Sym(c, k) \in Ctrl => tmds_c[c][k] = CIndex[Sym(c, k)]
  BY DEF SoundValues
<1> QED BY <1>1, <1>2, <1>3, <1>4

LEMMA ResolveFault ==
  ASSUME IInv, NEW e, FaultInv(e), ResolveControl, error' = "none"
  PROVE  FaultInv(e)'
<1>1. /\ tmds' = tmds /\ tmds_c' = tmds_c /\ pass = "resolve"
  BY DEF ResolveControl
<1>2. /\ error' = error /\ stop' = stop /\ Loop(m_start')
      /\ \/ /\ AllChannels("CTRL", i) /\ tmds_p' = [tmds_p EXCEPT ![i] = {"CTRL"}]
            /\ m_start' = IF m_start = -1 /\ tmds_c[1][i] = 0 /\ tmds_c[2][i] = 0
                          THEN i ELSE m_start
         \/ ~AnyChannel("CTRL", i) /\ tmds_p' = tmds_p /\ m_start' = m_start
  <2>1. ASSUME NEW what, Break(what) PROVE error' = what BY <2>1, Stops
  <2>2. ~Break("control period channel misalignment") /\ ~Break("control period too short")
    BY <2>1
  <2>3. ASSUME ~AnyChannel("CTRL", i)
        PROVE  /\ tmds_p' = tmds_p /\ m_start' = m_start
               /\ error' = error /\ stop' = stop /\ Loop(m_start)
    BY <2>2, <2>3 DEF ResolveControl
  <2>4. ASSUME m_start' = m_start, Loop(m_start) PROVE Loop(m_start')
    BY <2>4
  <2> QED BY <2>2, <2>3, <2>4 DEF ResolveControl
<1>3. /\ stop = FALSE /\ SoundValues /\ m_start < i /\ (Begun => Sent(m_start) = "CTRL")
      /\ \A k \in Pixels : /\ tmds_p[k] \subseteq {"CTRL"}
                           /\ k >= i => tmds_p[k] = {}
                           /\ k < i /\ SentAs(k) => tmds_p[k] = First(k)
  BY <1>1, <1>2 DEF FaultInv, SoundStart, SoundFlags
<1>4. /\ n \in Nat /\ Pixels = 0 .. n-1 /\ n' = n /\ Pixels' = Pixels /\ i \in Pixels
      /\ m_start \in -1 .. n-1 /\ tmds_p \in [Pixels -> SUBSET Flag]
      /\ \A c, k : Sym(c, k)' = Sym(c, k)
  BY <1>1, Basics, SameSource DEF IInv, Types, Counters, Tables
<1>5. \A k : Sent(k)' = Sent(k) /\ First(k)' = First(k) /\ SentAs(k)' = SentAs(k)
  BY <1>1, SameSource, SameSound
<1>6. ASSUME SentAs(i)
      PROVE  /\ AnyChannel("CTRL", i) <=> Sent(i) \in Ctl
             /\ AllChannels("CTRL", i) <=> Sent(i) \in Ctl
  <2>1. \A c \in Channel : Detected(c, i) BY <1>1, <1>4 DEF IInv, ChannelsKnown
  <2> QED BY <1>4, <1>6, <2>1, SoundPeriods DEF IInv
<1>7. /\ tmds_p'[i] \subseteq {"CTRL"} /\ (SentAs(i) => tmds_p'[i] = First(i))
      /\ \A k \in Pixels : k # i => tmds_p'[k] = tmds_p[k]
  <2>1. i >= i BY <1>4
  <2>2. tmds_p[i] = {} BY <2>1, <1>3, <1>4
  <2>3. CASE AllChannels("CTRL", i) /\ tmds_p' = [tmds_p EXCEPT ![i] = {"CTRL"}]
    <3>1. tmds_p'[i] = {"CTRL"} /\ \A k \in Pixels : k # i => tmds_p'[k] = tmds_p[k]
      BY <2>3, <1>4
    <3> QED BY <2>3, <3>1, <1>6 DEF First
  <2>4. CASE ~AnyChannel("CTRL", i) /\ tmds_p' = tmds_p
    BY <2>2, <2>4, <1>6 DEF First
  <2> QED BY <2>3, <2>4, <1>2
<1>8. m_start' \in {m_start, i}
      /\ (m_start' # m_start /\ SentAs(i) => Sent(i) = "CTRL")
  <2>1. ASSUME AllChannels("CTRL", i), tmds_c[1][i] = 0, tmds_c[2][i] = 0, SentAs(i)
        PROVE  Sent(i) = "CTRL"
    <3>1. tmds_c[1][i] = IF Sent(i) = "CTRL" THEN 0 ELSE 1
      BY <1>1, <1>3, <1>4, <1>6, <2>1, SoundControl
    <3> QED BY <2>1, <3>1
  <2> QED BY <2>1, <1>2
<1>9. \A k \in Pixels : /\ tmds_p'[k] \subseteq {"CTRL"}
                        /\ k >= i + 1 => tmds_p'[k] = {}
                        /\ k < i + 1 /\ SentAs(k) => tmds_p'[k] = First(k)
  <2>1. \A k \in Pixels : k = i \/ (k # i /\ (k < i + 1 <=> k < i) /\ (k >= i + 1 <=> k >= i))
    BY <1>4
  <2>2. ~(i >= i + 1) BY <1>4
  <2> QED BY <2>1, <2>2, <1>3, <1>7
<1>10. \/ i # n-1 /\ i' = i + 1 /\ pass' = "resolve"
       \/ i = n-1 /\ i' = m_start' /\ pass' = "preambles"
  BY <1>1, <1>2, Moves, TableValues
<1>11. SoundValues'
  <2>1. pass' # "prelim" /\ pass # "prelim" BY <1>1, <1>10
  <2> QED BY <2>1, <1>1, <1>3, <1>4, <1>5 DEF SoundValues
<1>12. stop' = FALSE /\ m_start' \in -1 .. i BY <1>2, <1>3, <1>4, <1>8
<1>13. SoundStart'
  <2>1. Begun' => Sent(m_start') = "CTRL"
    <3>1. CASE m_start' = m_start BY <3>1, <1>3, <1>5 DEF Begun
    <3>2. CASE m_start' # m_start /\ m_start' = i BY <3>2, <1>5, <1>8 DEF Begun
    <3> QED BY <3>1, <3>2, <1>8
  <2>2. m_start' < i + 1 /\ m_start' >= m_start' BY <1>4, <1>12
  <2>3. (Sent(m_start))' = Sent(m_start') BY <1>1 DEF Sent
  <2> QED BY <2>1, <2>2, <2>3, <1>10 DEF SoundStart
<1>14. SoundFlags'
  <2>1. CASE i # n-1 /\ i' = i + 1 /\ pass' = "resolve"
    BY <2>1, <1>4, <1>5, <1>9 DEF SoundFlags
  <2>2. CASE i = n-1 /\ i' = m_start' /\ pass' = "preambles"
    <3> SUFFICES ASSUME NEW k \in Pixels
                 PROVE  /\ tmds_p'[k] \subseteq {"CTRL"}
                        /\ SentAs(k) => tmds_p'[k] = IF k < i' THEN Second(k)' ELSE First(k)'
      BY <2>2, <1>4, <1>5 DEF SoundFlags
    <3>1. k < i + 1 BY <2>2, <1>4
    <3>2. k < i' => ~(k >= m_start') BY <2>2, <1>4, <1>12
    <3>3. k < i' => Second(k)' = First(k)' BY <3>2 DEF Second
    <3> QED BY <3>1, <3>3, <1>5, <1>9
  <2> QED BY <1>10, <2>1, <2>2
<1>15. SoundRun(e)' BY <1>10 DEF SoundRun
<1> QED BY <1>11, <1>12, <1>13, <1>14, <1>15 DEF FaultInv

LEMMA PreamblesFault ==
  ASSUME IInv, NEW e, FaultInv(e), DetectPreambles, error' = "none", Begun
  PROVE  FaultInv(e)'
<1>1. /\ tmds' = tmds /\ tmds_c' = tmds_c /\ m_start' = m_start /\ pass = "preambles"
  BY DEF DetectPreambles
<1> DEFINE ctl == <<tmds_c[1][At(i)], tmds_c[2][At(i)]>>
<1>2. /\ error' = error /\ stop' = stop /\ Loop(0)
      /\ \/ "CTRL" \notin tmds_p[At(i)] /\ tmds_p' = tmds_p
         \/ /\ "CTRL" \in tmds_p[At(i)] /\ ctl \in DOMAIN PreambleOf
            /\ tmds_p' = [tmds_p EXCEPT ![At(i)] = @ \cup PreambleOf[ctl]]
  <2>1. ~Break("illegal control period CTL value") BY DEF Break
  <2> QED BY <2>1 DEF DetectPreambles
<1>3. /\ stop = FALSE /\ SoundValues /\ i >= m_start /\ Sent(m_start) = "CTRL"
      /\ \A k \in Pixels : /\ k < m_start \/ k >= i => tmds_p[k] \subseteq {"CTRL"}
                           /\ SentAs(k) => tmds_p[k] = IF k < i THEN Second(k) ELSE First(k)
  BY <1>1, <1>2 DEF FaultInv, SoundStart, SoundFlags
<1>4. /\ n \in Nat /\ Pixels = 0 .. n-1 /\ n' = n /\ Pixels' = Pixels
      /\ m_start \in Pixels /\ tmds_p \in [Pixels -> SUBSET Flag] /\ i \in Pixels /\ At(i) = i
      /\ \A c, k : Sym(c, k)' = Sym(c, k)
  <2>1. n \in Nat /\ Pixels = 0 .. n-1 /\ n' = n /\ Pixels' = Pixels /\ \A c, k : Sym(c, k)' = Sym(c, k)
    BY <1>1, Basics, SameSource DEF IInv
  <2>2. m_start \in -1 .. n-1 /\ i \in -1 .. n-1 /\ tmds_p \in [Pixels -> SUBSET Flag]
    BY DEF IInv, Types, Counters, Tables
  <2>3. m_start # -1 BY DEF Begun
  <2>4. m_start \in Pixels /\ i \in Pixels BY <1>3, <2>1, <2>2, <2>3
  <2> QED BY <2>1, <2>2, <2>4 DEF At
<1>5. \A k : Sent(k)' = Sent(k) /\ First(k)' = First(k) /\ SentAs(k)' = SentAs(k) /\ Second(k)' = Second(k)
  <2>1. \A k : Sent(k)' = Sent(k) /\ First(k)' = First(k) /\ SentAs(k)' = SentAs(k)
    BY <1>1, SameSource, SameSound
  <2> QED BY <1>1, <2>1 DEF Second, FlagsOf
<1>6. SentAs(i) => tmds_p[i] = First(i)
  <2>1. ~(i < i) BY <1>4
  <2> QED BY <2>1, <1>3, <1>4
<1>7. (SentAs(i) => tmds_p'[i] = Second(i)) /\ \A k \in Pixels : k # i => tmds_p'[k] = tmds_p[k]
  <2>1. CASE "CTRL" \notin tmds_p[i] /\ tmds_p' = tmds_p
    <3>1. SentAs(i) => Sent(i) \notin Ctl BY <2>1, <1>6 DEF First
    <3> QED BY <2>1, <3>1, <1>6 DEF Second
  <2>2. CASE /\ "CTRL" \in tmds_p[i] /\ ctl \in DOMAIN PreambleOf
             /\ tmds_p' = [tmds_p EXCEPT ![i] = @ \cup PreambleOf[ctl]]
    <3>1. /\ tmds_p'[i] = tmds_p[i] \cup PreambleOf[ctl]
          /\ \A k \in Pixels : k # i => tmds_p'[k] = tmds_p[k]
      <4> HIDE DEF ctl
      <4> QED BY <2>2, <1>4
    <3>2. ASSUME SentAs(i) PROVE {"CTRL"} \cup PreambleOf[ctl] = FlagsOf(Sent(i)) /\ Sent(i) \in Ctl
      <4>1. Sent(i) \in Ctl BY <2>2, <3>2, <1>6 DEF First
      <4>2. /\ tmds_c[1][i] = IF Sent(i) = "CTRL" THEN 0 ELSE 1
            /\ tmds_c[2][i] = IF Sent(i) = "DATA_PRE" THEN 1 ELSE 0
        BY <1>1, <1>3, <1>4, <3>2, <4>1, SoundControl
      <4>3. ctl = IF Sent(i) = "CTRL" THEN <<0, 0>>
                  ELSE IF Sent(i) = "VIDEO_PRE" THEN <<1, 0>> ELSE <<1, 1>>
        BY <4>1, <4>2, <1>4 DEF Ctl
      <4> HIDE DEF ctl
      <4>4. <<1, 0>> # <<0, 0>> /\ <<1, 1>> # <<0, 0>> /\ <<1, 1>> # <<1, 0>>
        OBVIOUS
      <4>5. /\ PreambleOf[<<0, 0>>] = {} /\ PreambleOf[<<1, 0>>] = {"VIDEO_PRE"}
            /\ PreambleOf[<<1, 1>>] = {"DATA_PRE"}
        BY <4>4 DEF PreambleOf
      <4>6. CASE Sent(i) = "CTRL" BY <4>1, <4>3, <4>5, <4>6, LegalMarks
      <4>7. CASE Sent(i) = "VIDEO_PRE" BY <4>1, <4>3, <4>5, <4>7, LegalMarks
      <4>8. CASE Sent(i) = "DATA_PRE" BY <4>1, <4>3, <4>5, <4>8, LegalMarks
      <4> QED BY <4>1, <4>6, <4>7, <4>8 DEF Ctl
    <3>3. SentAs(i) => tmds_p[i] = {"CTRL"} BY <3>2, <1>6 DEF First
    <3>4. SentAs(i) => Second(i) = FlagsOf(Sent(i)) BY <3>2, <1>3 DEF Second
    <3> HIDE DEF ctl
    <3> QED BY <3>1, <3>2, <3>3, <3>4
  <2> QED BY <2>1, <2>2, <1>2, <1>4
<1>8. \A k \in Pixels : /\ k < m_start \/ k >= i + 1 => tmds_p'[k] \subseteq {"CTRL"}
                        /\ SentAs(k) => tmds_p'[k] = IF k < i + 1 THEN Second(k) ELSE First(k)
  <2>1. \A k \in Pixels :
          \/ k = i
          \/ k # i /\ (k < i + 1 <=> k < i) /\ (k >= i + 1 <=> k >= i)
    BY <1>4
  <2>2. i < i + 1 /\ ~(i >= i + 1) /\ ~(i < m_start) BY <1>3, <1>4
  <2> QED BY <2>1, <2>2, <1>3, <1>7
<1>9. \/ i # n-1 /\ i' = i + 1 /\ pass' = "preambles"
      \/ i = n-1 /\ i' = 0 /\ pass' = "islands" /\ p_type' = ""
  BY <1>1, <1>2, Moves, TableValues
<1>10. SoundValues'
  <2>1. pass' # "prelim" /\ pass # "prelim" BY <1>1, <1>9
  <2> QED BY <2>1, <1>1, <1>3, <1>4, <1>5 DEF SoundValues
<1>11. stop' = FALSE BY <1>2, <1>3
<1>12. SoundStart'
  <2>1. pass' = "preambles" => i' >= m_start BY <1>3, <1>4, <1>9
  <2> QED BY <2>1, <1>1, <1>3, <1>5, <1>9 DEF SoundStart
<1>13. SoundFlags'
  <2>1. CASE i # n-1 /\ i' = i + 1 /\ pass' = "preambles"
    BY <2>1, <1>1, <1>4, <1>5, <1>8 DEF SoundFlags
  <2>2. CASE i = n-1 /\ i' = 0 /\ pass' = "islands"
    <3>1. \A k \in Pixels : k < i + 1 /\ ~(k < i') BY <2>2, <1>4
    <3> QED BY <2>2, <3>1, <1>1, <1>4, <1>5, <1>8 DEF SoundFlags
  <2> QED BY <1>9, <2>1, <2>2
<1>14. SoundRun(e)'
  <2>1. CASE pass' = "islands"
    <3>1. i' = 0 /\ p_type' = "" BY <2>1, <1>9
    <3>2. m_start' \in 0 .. n-1 BY <1>1, <1>4
    <3>3. i' = 0 BY <2>1, <1>9
    <3>4. ~(i' > m_start')
      <4>1. i' \in 0 .. 0 BY <3>3
      <4> QED BY <3>2, <4>1, <1>4
    <3> QED BY <2>1, <3>1, <3>4 DEF SoundRun
  <2>2. CASE pass' # "islands" BY <2>2 DEF SoundRun
  <2> QED BY <2>1, <2>2
<1> QED BY <1>10, <1>11, <1>12, <1>13, <1>14 DEF FaultInv

\* What the machine does with a pixel in which it finds no error: the flags it
\* marks it with, and the type and count it goes on with.
Clear(f, type, count) ==
  \/ /\ p_type = "" /\ f = {}
     /\ \/ "VIDEO_PRE" \in tmds_p[i] /\ type = "video_pre" /\ count = 1
        \/ "VIDEO_PRE" \notin tmds_p[i] /\ "DATA_PRE" \in tmds_p[i] /\ type = "data_pre" /\ count = 1
        \/ "VIDEO_PRE" \notin tmds_p[i] /\ "DATA_PRE" \notin tmds_p[i] /\ type = ""
  \/ /\ p_type = "video_pre"
     /\ \/ "VIDEO_PRE" \in tmds_p[i] /\ f = {} /\ type = p_type /\ count = p_count + 1
        \/ /\ "VIDEO_PRE" \notin tmds_p[i] /\ p_count = PRE_LEN /\ IsVideoGb(i)
           /\ f = {"VIDEO_GB"} /\ type = "video_gb" /\ count = 1
  \/ /\ p_type = "data_pre"
     /\ \/ "DATA_PRE" \in tmds_p[i] /\ f = {} /\ type = p_type /\ count = p_count + 1
        \/ /\ "DATA_PRE" \notin tmds_p[i] /\ p_count = PRE_LEN /\ IsDataGb(i)
           /\ f = {"DATA_GB_LEADING"} /\ type = "data_gb_leading" /\ count = 1
  \/ /\ p_type = "video_gb"
     /\ \/ IsVideoGb(i) /\ f = {"VIDEO_GB"} /\ type = p_type /\ count = p_count + 1
        \/ ~IsVideoGb(i) /\ p_count = GB_LEN /\ f = {} /\ type = ""
  \/ /\ p_type = "data_gb_leading"
     /\ \/ IsDataGb(i) /\ f = {"DATA_GB_LEADING"} /\ type = p_type /\ count = p_count + 1
        \/ ~IsDataGb(i) /\ p_count = GB_LEN /\ IsData(i) /\ f = {"DATA"} /\ type = "data" /\ count = 1
  \/ /\ p_type = "data"
     /\ \/ IsData(i) /\ f = {"DATA"} /\ type = p_type /\ count = p_count + 1
        \/ /\ ~IsData(i) /\ p_count % PACKET_LEN = 0 /\ IsDataGb(i)
           /\ f = {"DATA_GB_TRAILING"} /\ type = "data_gb_trailing" /\ count = 1
  \/ /\ p_type = "data_gb_trailing"
     /\ \/ IsDataGb(i) /\ f = {"DATA_GB_TRAILING"} /\ type = p_type /\ count = p_count + 1
        \/ /\ ~IsDataGb(i) /\ p_count = GB_LEN /\ "CTRL" \in tmds_p[i] /\ f = {} /\ type = ""
ClearMark == \E f \in SUBSET Flag, type \in PTypes, count \in Nat :
               Clear(f, type, count) /\ Mark(f, type, count)

LEMMA IslandsClear ==
  ASSUME IInv, DetectIslands, error' = "none"
  PROVE  ClearMark
<1>1. /\ {} \in SUBSET Flag /\ {"VIDEO_GB"} \in SUBSET Flag /\ {"DATA_GB_LEADING"} \in SUBSET Flag
      /\ {"DATA"} \in SUBSET Flag /\ {"DATA_GB_TRAILING"} \in SUBSET Flag
  BY DEF Flag, ChannelFlag
<1>2. 0 \in Nat /\ 1 \in Nat /\ p_count \in Nat /\ p_count + 1 \in Nat
  BY Basics DEF IInv, Types, Counters
<1>3. ASSUME NEW what, Fail(what), what # "none" PROVE FALSE
  BY <1>3 DEF Fail, Break
<1>4. ASSUME NEW f \in SUBSET Flag, NEW type \in PTypes, NEW count \in Nat,
             Clear(f, type, count), Mark(f, type, count)
      PROVE  ClearMark
  BY <1>4 DEF ClearMark
<1>5. CASE p_type = "" /\ Outside
  <2>1. CASE "VIDEO_PRE" \in tmds_p[i]
    <3>1. Mark({}, "video_pre", 1) BY <1>5, <2>1 DEF Outside
    <3>2. Clear({}, "video_pre", 1) BY <1>5, <2>1 DEF Clear
    <3> QED BY <3>1, <3>2, <1>1, <1>2, <1>4 DEF PTypes
  <2>2. CASE "VIDEO_PRE" \notin tmds_p[i] /\ "DATA_PRE" \in tmds_p[i]
    <3>1. Mark({}, "data_pre", 1) BY <1>5, <2>2 DEF Outside
    <3>2. Clear({}, "data_pre", 1) BY <1>5, <2>2 DEF Clear
    <3> QED BY <3>1, <3>2, <1>1, <1>2, <1>4 DEF PTypes
  <2>3. CASE "VIDEO_PRE" \notin tmds_p[i] /\ "DATA_PRE" \notin tmds_p[i]
    <3>1. Mark({}, "", p_count) BY <1>5, <2>3 DEF Outside
    <3>2. Clear({}, "", p_count) BY <1>5, <2>3 DEF Clear
    <3> QED BY <3>1, <3>2, <1>1, <1>2, <1>4 DEF PTypes
  <2> QED BY <2>1, <2>2, <2>3
<1>6. CASE p_type = "video_pre" /\ InPreamble("VIDEO_PRE", IsVideoGb(i), "VIDEO_GB", "video_gb")
  <2>1. CASE "VIDEO_PRE" \in tmds_p[i]
    <3>1. Mark({}, "video_pre", p_count + 1) BY <1>6, <2>1 DEF InPreamble, Same
    <3>2. Clear({}, "video_pre", p_count + 1) BY <1>6, <2>1 DEF Clear
    <3> QED BY <3>1, <3>2, <1>1, <1>2, <1>4 DEF PTypes
  <2>2. CASE "VIDEO_PRE" \notin tmds_p[i]
    <3>1. p_count = PRE_LEN /\ IsVideoGb(i) /\ Mark({"VIDEO_GB"}, "video_gb", 1)
      BY <1>3, <1>6, <2>2 DEF InPreamble
    <3>2. Clear({"VIDEO_GB"}, "video_gb", 1) BY <1>6, <2>2, <3>1 DEF Clear
    <3> QED BY <3>1, <3>2, <1>1, <1>2, <1>4 DEF PTypes
  <2> QED BY <2>1, <2>2
<1>7. CASE /\ p_type = "data_pre"
           /\ InPreamble("DATA_PRE", IsDataGb(i), "DATA_GB_LEADING", "data_gb_leading")
  <2>1. CASE "DATA_PRE" \in tmds_p[i]
    <3>1. Mark({}, "data_pre", p_count + 1) BY <1>7, <2>1 DEF InPreamble, Same
    <3>2. Clear({}, "data_pre", p_count + 1) BY <1>7, <2>1 DEF Clear
    <3> QED BY <3>1, <3>2, <1>1, <1>2, <1>4 DEF PTypes
  <2>2. CASE "DATA_PRE" \notin tmds_p[i]
    <3>1. p_count = PRE_LEN /\ IsDataGb(i) /\ Mark({"DATA_GB_LEADING"}, "data_gb_leading", 1)
      BY <1>3, <1>7, <2>2 DEF InPreamble
    <3>2. Clear({"DATA_GB_LEADING"}, "data_gb_leading", 1) BY <1>7, <2>2, <3>1 DEF Clear
    <3> QED BY <3>1, <3>2, <1>1, <1>2, <1>4 DEF PTypes
  <2> QED BY <2>1, <2>2
<1>8. CASE p_type = "video_gb" /\ InVideoGb
  <2>1. CASE IsVideoGb(i)
    <3>1. Mark({"VIDEO_GB"}, "video_gb", p_count + 1) BY <1>8, <2>1 DEF InVideoGb, Same
    <3>2. Clear({"VIDEO_GB"}, "video_gb", p_count + 1) BY <1>8, <2>1 DEF Clear
    <3> QED BY <3>1, <3>2, <1>1, <1>2, <1>4 DEF PTypes
  <2>2. CASE ~IsVideoGb(i)
    <3>1. p_count = GB_LEN /\ Mark({}, "", 0) BY <1>3, <1>8, <2>2 DEF InVideoGb
    <3>2. Clear({}, "", 0) BY <1>8, <2>2, <3>1 DEF Clear
    <3> QED BY <3>1, <3>2, <1>1, <1>2, <1>4 DEF PTypes
  <2> QED BY <2>1, <2>2
<1>9. CASE p_type = "data_gb_leading" /\ InDataGbLeading
  <2>1. CASE IsDataGb(i)
    <3>1. Mark({"DATA_GB_LEADING"}, "data_gb_leading", p_count + 1)
      BY <1>9, <2>1 DEF InDataGbLeading, Same
    <3>2. Clear({"DATA_GB_LEADING"}, "data_gb_leading", p_count + 1) BY <1>9, <2>1 DEF Clear
    <3> QED BY <3>1, <3>2, <1>1, <1>2, <1>4 DEF PTypes
  <2>2. CASE ~IsDataGb(i)
    <3>1. p_count = GB_LEN /\ IsData(i) /\ Mark({"DATA"}, "data", 1)
      BY <1>3, <1>9, <2>2 DEF InDataGbLeading
    <3>2. Clear({"DATA"}, "data", 1) BY <1>9, <2>2, <3>1 DEF Clear
    <3> QED BY <3>1, <3>2, <1>1, <1>2, <1>4 DEF PTypes
  <2> QED BY <2>1, <2>2
<1>10. CASE p_type = "data" /\ InData
  <2>1. CASE IsData(i)
    <3>1. Mark({"DATA"}, "data", p_count + 1) BY <1>10, <2>1 DEF InData, Same
    <3>2. Clear({"DATA"}, "data", p_count + 1) BY <1>10, <2>1 DEF Clear
    <3> QED BY <3>1, <3>2, <1>1, <1>2, <1>4 DEF PTypes
  <2>2. CASE ~IsData(i)
    <3>1. /\ p_count % PACKET_LEN = 0 /\ IsDataGb(i)
          /\ Mark({"DATA_GB_TRAILING"}, "data_gb_trailing", 1)
      BY <1>3, <1>10, <2>2 DEF InData
    <3>2. Clear({"DATA_GB_TRAILING"}, "data_gb_trailing", 1) BY <1>10, <2>2, <3>1 DEF Clear
    <3> QED BY <3>1, <3>2, <1>1, <1>2, <1>4 DEF PTypes
  <2> QED BY <2>1, <2>2
<1>11. CASE p_type = "data_gb_trailing" /\ InDataGbTrailing
  <2>1. CASE IsDataGb(i)
    <3>1. Mark({"DATA_GB_TRAILING"}, "data_gb_trailing", p_count + 1)
      BY <1>11, <2>1 DEF InDataGbTrailing, Same
    <3>2. Clear({"DATA_GB_TRAILING"}, "data_gb_trailing", p_count + 1) BY <1>11, <2>1 DEF Clear
    <3> QED BY <3>1, <3>2, <1>1, <1>2, <1>4 DEF PTypes
  <2>2. CASE ~IsDataGb(i)
    <3>1. p_count = GB_LEN /\ "CTRL" \in tmds_p[i] /\ Mark({}, "", 0)
      BY <1>3, <1>11, <2>2 DEF InDataGbTrailing
    <3>2. Clear({}, "", 0) BY <1>11, <2>2, <3>1 DEF Clear
    <3> QED BY <3>1, <3>2, <1>1, <1>2, <1>4 DEF PTypes
  <2> QED BY <2>1, <2>2
<1> QED BY <1>5, <1>6, <1>7, <1>8, <1>9, <1>10, <1>11 DEF DetectIslands

\* What the machine can see of a pixel that arrived sound, after the passes before.
Looks(k) ==
  /\ Sent(k) \in Period
  /\ tmds_p[k] = IF Sent(k) \in Ctl THEN FlagsOf(Sent(k)) ELSE {}
  /\ "VIDEO_PRE" \in tmds_p[k] <=> Sent(k) = "VIDEO_PRE"
  /\ "DATA_PRE" \in tmds_p[k] <=> Sent(k) = "DATA_PRE"
  /\ "CTRL" \in tmds_p[k] <=> Sent(k) \in Ctl
  /\ Sent(k) = "VIDEO_GB" => IsVideoGb(k)
  /\ Sent(k) \in {"DATA_GB_LEADING", "DATA_GB_TRAILING"} => IsDataGb(k) /\ ~IsData(k)
  /\ Sent(k) = "DATA" => IsData(k) /\ ~IsDataGb(k)
  /\ Sent(k) \in Ctl => ~IsDataGb(k) /\ ~IsData(k) /\ ~IsVideoGb(k)

LEMMA SoundLooks ==
  ASSUME IInv, pass = "islands", NEW k \in Pixels, SentAs(k), k >= m_start, tmds_p[k] = Second(k)
  PROVE  Looks(k)
<1>1. Sent(k) \in Period BY SoundPixel DEF IInv
<1>2. \A c \in Channel : Detected(c, k) BY DEF IInv, ChannelsKnown
<1>3. /\ Sent(k) = "VIDEO_GB" => IsVideoGb(k)
      /\ Sent(k) \in {"DATA_GB_LEADING", "DATA_GB_TRAILING"} => IsDataGb(k) /\ ~IsData(k)
      /\ Sent(k) = "DATA" => IsData(k) /\ ~IsDataGb(k)
      /\ Sent(k) \in Ctl => ~IsDataGb(k) /\ ~IsData(k) /\ ~IsVideoGb(k)
  BY <1>2, SoundPeriods DEF IInv
<1>4. tmds_p[k] = IF Sent(k) \in Ctl THEN FlagsOf(Sent(k)) ELSE {}
  BY DEF Second, First
<1>5. /\ "VIDEO_PRE" \in tmds_p[k] <=> Sent(k) = "VIDEO_PRE"
      /\ "DATA_PRE" \in tmds_p[k] <=> Sent(k) = "DATA_PRE"
      /\ "CTRL" \in tmds_p[k] <=> Sent(k) \in Ctl
  BY <1>1, <1>4, LegalMarks DEF Ctl
<1> QED BY <1>1, <1>3, <1>4, <1>5 DEF Looks

\* The guardband of video and what follows it are told apart, unless the video
\* looks like it.
LEMMA VideoBegins ==
  ASSUME IInv, pass = "islands", ~LooksLikeGb, NEW k \in Pixels \ {0},
         Sent(k-1) = "VIDEO_GB", Sent(k) = "VIDEO"
  PROVE  ~IsVideoGb(k)
<1>1. k \in 1 .. n-1 /\ k \in Pixels /\ k - 1 + 1 = k BY Basics DEF IInv
<1>2. tmds[k+1].sent = "VIDEO" /\ tmds[k].sent = "VIDEO_GB" BY <1>1 DEF Sent
<1>3. ~(Sym(0, k) = "g" /\ Sym(1, k) = "d" /\ Sym(2, k) = "g")
  BY <1>1, <1>2 DEF LooksLikeGb
<1>4. \A c \in Channel : tmds_ch_p[c][k] = ChannelPeriods(c, Sym(c, k))
  BY <1>1 DEF IInv, ChannelsKnown, Detected
<1>5. \A c \in Channel : "VIDEO_GB" \in ChannelPeriods(c, Sym(c, k)) <=> Sym(c, k) = video_gb[c+1]
  BY DEF ChannelPeriods
<1>6. video_gb[1] = "g" /\ video_gb[2] = "d" /\ video_gb[3] = "g"
  BY DEF video_gb
<1>7. 0 \in Channel /\ 1 \in Channel /\ 2 \in Channel BY DEF Channel
<1> QED BY <1>3, <1>4, <1>5, <1>6, <1>7 DEF IsVideoGb, AllChannels

\* In step with the source, the machine stays in step with what may come next:
\* the counts decide only whether it finds an error.
LEMMA StaysInStep ==
  ASSUME IInv, pass = "islands", ~LooksLikeGb, i \in Pixels \ {0}, Looks(i), Sent(i-1) \in Period,
         Sent(i) \in After[Sent(i-1)], p_type = TypeOf[Sent(i-1)],
         NEW f, NEW type, NEW count, Clear(f, type, count)
  PROVE  /\ type = TypeOf[Sent(i)] /\ tmds_p[i] \cup f = Third(i)
         /\ type # "" => count = IF Sent(i) = Sent(i-1) THEN p_count + 1 ELSE 1
<1> DEFINE was == Sent(i-1)
           is == Sent(i)
<1>1. /\ "VIDEO_PRE" \in tmds_p[i] <=> is = "VIDEO_PRE"
      /\ "DATA_PRE" \in tmds_p[i] <=> is = "DATA_PRE"
      /\ is = "VIDEO_GB" => IsVideoGb(i)
      /\ is \in {"DATA_GB_LEADING", "DATA_GB_TRAILING"} => IsDataGb(i) /\ ~IsData(i)
      /\ is = "DATA" => IsData(i) /\ ~IsDataGb(i)
      /\ is = "CTRL" => ~IsDataGb(i)
  BY DEF Looks, Ctl
<1>2. tmds_p[i] = IF is \in Ctl THEN FlagsOf(is) ELSE {}
  BY DEF Looks
<1>3. Third(i) = IF is = "VIDEO" THEN {} ELSE FlagsOf(is) BY DEF Third
<1>4. /\ FlagsOf("VIDEO_GB") = {"VIDEO_GB"} /\ FlagsOf("DATA_GB_LEADING") = {"DATA_GB_LEADING"}
      /\ FlagsOf("DATA") = {"DATA"} /\ FlagsOf("DATA_GB_TRAILING") = {"DATA_GB_TRAILING"}
  BY DEF FlagsOf
<1>5. /\ is \in Ctl \cup {"VIDEO"} => tmds_p[i] \cup {} = Third(i)
      /\ is \in {"VIDEO_GB", "DATA_GB_LEADING", "DATA", "DATA_GB_TRAILING"} =>
           tmds_p[i] \cup {is} = Third(i)
  BY <1>2, <1>3, <1>4 DEF Ctl
<1>6. CASE was \in {"CTRL", "VIDEO"}
  <2>1. p_type = "" BY <1>6, SourceTables
  <2>2. is \in {"CTRL", "VIDEO", "VIDEO_PRE", "DATA_PRE"} BY <1>6, SourceTables
  <2>3. f = {} /\ type = TypeOf[is] /\ (type # "" => count = 1)
    BY <2>1, <2>2, <1>1, SourceTables DEF Clear
  <2>4. tmds_p[i] \cup {} = Third(i) BY <2>2, <1>5 DEF Ctl
  <2>5. type # "" => is # was BY <1>6, <2>3, SourceTables
  <2> QED BY <2>3, <2>4, <2>5
<1>7. CASE was = "VIDEO_PRE"
  <2>1. p_type = "video_pre" /\ is \in {"VIDEO_PRE", "VIDEO_GB"} BY <1>7, SourceTables
  <2>2. CASE is = "VIDEO_PRE"
    <3>1. f = {} /\ type = "video_pre" /\ count = p_count + 1 BY <2>1, <2>2, <1>1 DEF Clear
    <3>2. tmds_p[i] \cup {} = Third(i) BY <2>2, <1>5 DEF Ctl
    <3> QED BY <3>1, <3>2, <2>2, <1>7, SourceTables
  <2>3. CASE is = "VIDEO_GB"
    <3>1. f = {"VIDEO_GB"} /\ type = "video_gb" /\ count = 1 BY <2>1, <2>3, <1>1 DEF Clear
    <3> QED BY <3>1, <2>3, <1>5, <1>7, SourceTables
  <2> QED BY <2>1, <2>2, <2>3
<1>8. CASE was = "DATA_PRE"
  <2>1. p_type = "data_pre" /\ is \in {"DATA_PRE", "DATA_GB_LEADING"} BY <1>8, SourceTables
  <2>2. CASE is = "DATA_PRE"
    <3>1. f = {} /\ type = "data_pre" /\ count = p_count + 1 BY <2>1, <2>2, <1>1 DEF Clear
    <3>2. tmds_p[i] \cup {} = Third(i) BY <2>2, <1>5 DEF Ctl
    <3> QED BY <3>1, <3>2, <2>2, <1>8, SourceTables
  <2>3. CASE is = "DATA_GB_LEADING"
    <3>1. f = {"DATA_GB_LEADING"} /\ type = "data_gb_leading" /\ count = 1
      BY <2>1, <2>3, <1>1 DEF Clear
    <3> QED BY <3>1, <2>3, <1>5, <1>8, SourceTables
  <2> QED BY <2>1, <2>2, <2>3
<1>9. CASE was = "VIDEO_GB"
  <2>1. p_type = "video_gb" /\ is \in {"VIDEO_GB", "VIDEO"} BY <1>9, SourceTables
  <2>2. CASE is = "VIDEO_GB"
    <3>1. f = {"VIDEO_GB"} /\ type = "video_gb" /\ count = p_count + 1
      BY <2>1, <2>2, <1>1 DEF Clear
    <3> QED BY <3>1, <2>2, <1>5, <1>9, SourceTables
  <2>3. CASE is = "VIDEO"
    <3>1. ~IsVideoGb(i) BY <2>3, <1>9, VideoBegins
    <3>2. f = {} /\ type = "" BY <2>1, <3>1 DEF Clear
    <3>3. tmds_p[i] \cup {} = Third(i) BY <2>3, <1>5
    <3> QED BY <3>2, <3>3, <2>3, SourceTables
  <2> QED BY <2>1, <2>2, <2>3
<1>10. CASE was = "DATA_GB_LEADING"
  <2>1. p_type = "data_gb_leading" /\ is \in {"DATA_GB_LEADING", "DATA"} BY <1>10, SourceTables
  <2>2. CASE is = "DATA_GB_LEADING"
    <3>1. f = {"DATA_GB_LEADING"} /\ type = "data_gb_leading" /\ count = p_count + 1
      BY <2>1, <2>2, <1>1 DEF Clear
    <3> QED BY <3>1, <2>2, <1>5, <1>10, SourceTables
  <2>3. CASE is = "DATA"
    <3>1. f = {"DATA"} /\ type = "data" /\ count = 1 BY <2>1, <2>3, <1>1 DEF Clear
    <3> QED BY <3>1, <2>3, <1>5, <1>10, SourceTables
  <2> QED BY <2>1, <2>2, <2>3
<1>11. CASE was = "DATA"
  <2>1. p_type = "data" /\ is \in {"DATA", "DATA_GB_TRAILING"} BY <1>11, SourceTables
  <2>2. CASE is = "DATA"
    <3>1. f = {"DATA"} /\ type = "data" /\ count = p_count + 1 BY <2>1, <2>2, <1>1 DEF Clear
    <3> QED BY <3>1, <2>2, <1>5, <1>11, SourceTables
  <2>3. CASE is = "DATA_GB_TRAILING"
    <3>1. f = {"DATA_GB_TRAILING"} /\ type = "data_gb_trailing" /\ count = 1
      BY <2>1, <2>3, <1>1 DEF Clear
    <3> QED BY <3>1, <2>3, <1>5, <1>11, SourceTables
  <2> QED BY <2>1, <2>2, <2>3
<1>12. CASE was = "DATA_GB_TRAILING"
  <2>1. p_type = "data_gb_trailing" /\ is \in {"DATA_GB_TRAILING", "CTRL"} BY <1>12, SourceTables
  <2>2. CASE is = "DATA_GB_TRAILING"
    <3>1. f = {"DATA_GB_TRAILING"} /\ type = "data_gb_trailing" /\ count = p_count + 1
      BY <2>1, <2>2, <1>1 DEF Clear
    <3> QED BY <3>1, <2>2, <1>5, <1>12, SourceTables
  <2>3. CASE is = "CTRL"
    <3>1. f = {} /\ type = "" BY <2>1, <2>3, <1>1 DEF Clear
    <3>2. tmds_p[i] \cup {} = Third(i) BY <2>3, <1>5 DEF Ctl
    <3> QED BY <3>1, <3>2, <2>3, SourceTables
  <2> QED BY <2>1, <2>2, <2>3
<1> QED BY <1>6, <1>7, <1>8, <1>9, <1>10, <1>11, <1>12 DEF Period, Ctl, Islandic

\* Astray, the machine comes back at the next pixel or finds an error.
LEMMA ComesBack ==
  ASSUME Looks(i), Astray(p_type, p_count, i), NEW f, NEW type, NEW count, Clear(f, type, count)
  PROVE  type = TypeOf[Sent(i)] /\ tmds_p[i] \cup f = Third(i)
<1>1. /\ "VIDEO_PRE" \in tmds_p[i] <=> Sent(i) = "VIDEO_PRE"
      /\ "DATA_PRE" \in tmds_p[i] <=> Sent(i) = "DATA_PRE"
      /\ Sent(i) = "DATA_GB_TRAILING" => ~IsData(i)
      /\ Sent(i) = "DATA" => ~IsDataGb(i)
      /\ Sent(i) \in Ctl => ~IsDataGb(i) /\ ~IsData(i)
  BY DEF Looks
<1>2. Sent(i) \in {"VIDEO_PRE", "DATA_PRE"} => tmds_p[i] \cup {} = Third(i)
  BY DEF Looks, Third, Ctl
<1>3. CASE p_type = "video_pre" /\ p_count # PRE_LEN
  <2>1. Sent(i) = "VIDEO_PRE" /\ f = {} /\ type = "video_pre" BY <1>1, <1>3 DEF Clear
  <2> QED BY <2>1, <1>2, SourceTables
<1>4. CASE p_type = "data_pre" /\ p_count # PRE_LEN
  <2>1. Sent(i) = "DATA_PRE" /\ f = {} /\ type = "data_pre" BY <1>1, <1>4 DEF Clear
  <2> QED BY <2>1, <1>2, SourceTables
<1>5. CASE p_type = "" /\ Sent(i) \in {"VIDEO_PRE", "DATA_PRE"}
  <2>1. f = {} /\ type = TypeOf[Sent(i)] BY <1>1, <1>5, SourceTables DEF Clear
  <2> QED BY <2>1, <1>2, <1>5
<1>6. CASE p_type = "data_gb_leading" /\ p_count # GB_LEN /\ Sent(i) = "DATA"
  BY <1>1, <1>6 DEF Clear
<1>7. CASE /\ p_type = "data" /\ p_count % PACKET_LEN # 0
           /\ Sent(i) \in {"DATA_GB_TRAILING", "CTRL"}
  <2>1. ~IsData(i) BY <1>1, <1>7 DEF Ctl
  <2> QED BY <2>1, <1>7 DEF Clear
<1>8. CASE p_type = "data_gb_trailing" /\ p_count # GB_LEN /\ Sent(i) \in Ctl \cup {"DATA"}
  <2>1. ~IsDataGb(i) BY <1>1, <1>8
  <2> QED BY <2>1, <1>8 DEF Clear
<1> QED BY <1>3, <1>4, <1>5, <1>6, <1>7, <1>8 DEF Astray

\* The lengths of HDMI and DVI: 8, 2 and 32.
RealLengths == PRE_LEN >= 2 /\ GB_LEN >= 2 /\ PACKET_LEN >= 2

LEMMA TwoAtLeast == ASSUME RealLengths PROVE PRE_LEN # 1 /\ GB_LEN # 1
BY LengthAssumption DEF RealLengths

LEMMA NoRunOfOne ==
  ASSUME RealLengths, NEW f, MayLast(f, 1)
  PROVE  f \notin {"VIDEO_PRE", "DATA_PRE", "VIDEO_GB", "DATA_GB_LEADING", "DATA", "DATA_GB_TRAILING"}
<1>1. PRE_LEN # 1 /\ GB_LEN # 1 /\ 1 % PACKET_LEN # 0
  <2>1. PRE_LEN \in Nat /\ GB_LEN \in Nat /\ PACKET_LEN \in Nat BY LengthAssumption
  <2>2. PRE_LEN # 1 /\ GB_LEN # 1 BY TwoAtLeast
  <2>3. 1 % PACKET_LEN = 1
    <3>1. PICK p \in Nat : p = PACKET_LEN BY <2>1
    <3>2. p >= 2 BY <3>1 DEF RealLengths
    <3>3. 1 % p = 1 BY <3>2
    <3> QED BY <3>1, <3>3
  <2> QED BY <2>2, <2>3
<1> QED BY <1>1 DEF MayLast

LEMMA NoMultiple ==
  ASSUME NEW p \in Nat, p >= 2, NEW d \in Int
  PROVE  p * d # 1
<1>1. CASE d >= 1
  <2>1. p * d >= p BY <1>1
  <2> QED BY <2>1
<1>2. CASE d <= 0
  <2>1. p * d <= 0 BY <1>2
  <2> QED BY <2>1
<1> QED BY <1>1, <1>2

\* One pixel more than a number of packets is not a number of packets.
LEMMA OneMore ==
  ASSUME RealLengths, NEW count \in Nat, count % PACKET_LEN = 0
  PROVE  (count + 1) % PACKET_LEN # 0
<1>1. PICK p \in Nat : p = PACKET_LEN BY LengthAssumption
<1>2. p >= 2 /\ count % p = 0 BY <1>1 DEF RealLengths
<1>3. ASSUME (count + 1) % p = 0 PROVE FALSE
  <2>1. PICK q \in Int : count = p * q
    <3>1. count \div p \in Int /\ count = p * (count \div p) BY <1>2
    <3> QED BY <3>1
  <2>2. PICK s \in Int : count + 1 = p * s
    <3>1. (count + 1) \div p \in Int /\ count + 1 = p * ((count + 1) \div p) BY <1>2, <1>3
    <3> QED BY <3>1
  <2>3. p * (s - q) = 1
    <3>1. p * (s - q) = p * s - p * q OBVIOUS
    <3> QED BY <2>1, <2>2, <3>1
  <2>4. s - q \in Int OBVIOUS
  <2> QED BY <2>3, <2>4, <1>2, NoMultiple
<1> QED BY <1>1, <1>3

\* The counts of a run that has ended, or that goes on, tell what it was.
LEMMA EndedIsWhole ==
  ASSUME RealLengths, NEW f, NEW count \in Nat, MayLast(f, count)
  PROVE  /\ f \in {"VIDEO_PRE", "DATA_PRE"} => count + 1 # PRE_LEN
         /\ f \in {"VIDEO_GB", "DATA_GB_LEADING", "DATA_GB_TRAILING"} => count + 1 # GB_LEN
         /\ f = "DATA" => (count + 1) % PACKET_LEN # 0
<1>1. /\ count = PRE_LEN => count + 1 # PRE_LEN
      /\ count = GB_LEN => count + 1 # GB_LEN
  OBVIOUS
<1>2. count % PACKET_LEN = 0 => (count + 1) % PACKET_LEN # 0
  BY OneMore
<1> QED BY <1>1, <1>2 DEF MayLast

LEMMA GoesOnIsNotWhole ==
  ASSUME RealLengths, NEW f, NEW count \in Nat, MayReach(f, count + 1)
  PROVE  /\ f \in {"VIDEO_PRE", "DATA_PRE"} => count # PRE_LEN
         /\ f \in {"VIDEO_GB", "DATA_GB_LEADING", "DATA_GB_TRAILING"} => count # GB_LEN
<1>1. /\ count + 1 <= PRE_LEN => count # PRE_LEN
      /\ count + 1 <= GB_LEN => count # GB_LEN
  OBVIOUS
<1> QED BY <1>1 DEF MayReach

\* A run that the fault finds still going is no longer than it may be.
LEMMA RunGoesOn ==
  ASSUME Types, MaySend(Sending, n), NEW k \in Pixels, NEW p \in Nat, 0 < p, p < k,
         RunOf(Sent(k-1), k-p, k-1), Sent(k) = Sent(k-1)
  PROVE  MayReach(Sent(k-1), p + 1)
<1>1. n \in Nat /\ k \in 0 .. n-1 /\ Pixels = 0 .. n-1
  BY Basics
<1> DEFINE a == k - p
<1>2. a \in 0 .. n-1 /\ k \in a .. n-1 /\ k - a + 1 = p + 1 /\ a \in Pixels /\ a \in a .. k-1
      /\ \A j \in a .. k : j \in Pixels /\ (j = k \/ j \in a .. k-1)
  BY <1>1
<1>3. Sending[a] = Sent(k-1) BY <1>2 DEF RunOf, Sending
<1>4. RunIn(Sending, Sending[a], a, k) BY <1>2, <1>3 DEF RunOf, RunIn, Sending
<1>5. MayReach(Sending[a], k - a + 1)
  <2> HIDE DEF a
  <2> QED BY <1>2, <1>4 DEF MaySend
<1> QED BY <1>2, <1>3, <1>5

\* What the count of the run before the fault tells of it, and of the pixel itself.
RunsMet(count, was, is, next) ==
  /\ is \in After[was] /\ next \in After[is]
  /\ is # was => MayLast(was, count)
  /\ is = was => MayReach(was, count + 1)
  /\ is = was /\ next # is => MayLast(is, count + 1)
LEMMA DamageInRun ==
  ASSUME Types, MaySend(Sending, n), i \in Pixels, i - 1 \in Pixels, i + 1 \in Pixels,
         m_start \in Pixels, i > m_start, p_count \in Nat
  PROVE  /\ RunBehind(p_count, i) => RunsMet(p_count, Sent(i-1), Sent(i), Sent(i+1))
         /\ Sent(i) \in After[Sent(i-1)] /\ Sent(i+1) \in After[Sent(i)]
         /\ Sent(i) # Sent(i-1) /\ Sent(i+1) # Sent(i) => MayLast(Sent(i), 1)
<1>1. /\ n \in Nat /\ Pixels = 0 .. n-1 /\ i \in 1 .. n-1 /\ i \in Pixels \ {0} /\ i + 1 \in Pixels \ {0}
      /\ i + 1 - 1 = i /\ i \in Int /\ m_start \in Nat
  BY Basics
<1>2. Sent(i) \in After[Sent(i-1)] /\ Sent(i+1) \in After[Sent(i)]
  <2>1. \A k \in Pixels \ {0} : Sent(k) \in After[Sent(k-1)]
    BY Neighbours DEF MaySend
  <2> QED BY <2>1, <1>1
<1>3. PICK k \in Pixels : k = i + 1 OBVIOUS
<1>4. k - 1 = i /\ k - 1 - 1 = i - 1 /\ 1 < k BY <1>1, <1>3
<1>5. Sent(i) # Sent(i-1) /\ Sent(i+1) # Sent(i) => MayLast(Sent(i), 1)
  <2>1. RunOf(Sent(i), i, i)
    <3>1. \A j \in i .. i : j = i BY <1>1
    <3> QED BY <3>1 DEF RunOf
  <2> QED BY <2>1, <1>3, <1>4, RunEnds DEF MaySend
<1>6. ASSUME RunBehind(p_count, i) PROVE RunsMet(p_count, Sent(i-1), Sent(i), Sent(i+1))
  <2>1. 0 < p_count /\ i - p_count > m_start BY <1>6 DEF RunBehind
  <2>2. p_count < i BY <2>1, <1>1
  <2>3. RunOf(Sent(i-1), i - p_count, i-1) /\ Sent(i - p_count - 1) # Sent(i-1)
    BY <1>6 DEF RunBehind
  <2>4. Sent(i) # Sent(i-1) => MayLast(Sent(i-1), p_count)
    BY <2>1, <2>2, <2>3, RunEnds DEF MaySend
  <2>5. Sent(i) = Sent(i-1) => MayReach(Sent(i-1), p_count + 1)
    BY <2>1, <2>2, <2>3, RunGoesOn
  <2>6. ASSUME Sent(i) = Sent(i-1), Sent(i+1) # Sent(i) PROVE MayLast(Sent(i), p_count + 1)
    <3>1. PICK p \in Nat : p = p_count + 1 OBVIOUS
    <3>2. k - p = i - p_count /\ k - p - 1 = i - p_count - 1 /\ 0 < p /\ p < k
      BY <1>1, <1>3, <2>2, <3>1
    <3>3. \A j \in i - p_count .. i : j = i \/ j \in i - p_count .. i-1 BY <1>1, <2>2
    <3>4. RunOf(Sent(i), i - p_count, i) BY <2>3, <2>6, <3>3 DEF RunOf
    <3>5. MayLast(Sent(i), p)
      BY <1>3, <1>4, <2>3, <2>6, <3>2, <3>4, RunEnds DEF MaySend
    <3> QED BY <3>1, <3>5
  <2> QED BY <1>2, <2>4, <2>5, <2>6 DEF RunsMet
<1> QED BY <1>2, <1>5, <1>6

\* The machine in the middle of a run, by what was sent: what it may make of a
\* damaged pixel.
LEMMA ClearIn ==
  ASSUME NEW f, NEW type, NEW count, Clear(f, type, count)
  PROVE  /\ p_type = "" => \/ type \in {"video_pre", "data_pre"} /\ count = 1
                           \/ type = ""
         /\ p_type = "video_pre" => \/ type = p_type /\ count = p_count + 1
                                    \/ type = "video_gb" /\ p_count = PRE_LEN
         /\ p_type = "data_pre" => \/ type = p_type /\ count = p_count + 1
                                   \/ type = "data_gb_leading" /\ p_count = PRE_LEN
         /\ p_type = "video_gb" => \/ type = p_type /\ IsVideoGb(i)
                                   \/ type = "" /\ p_count = GB_LEN
         /\ p_type = "data_gb_leading" => \/ type = p_type /\ count = p_count + 1
                                          \/ type = "data" /\ p_count = GB_LEN
         /\ p_type = "data" => \/ type = p_type /\ count = p_count + 1
                               \/ type = "data_gb_trailing" /\ count = 1 /\ p_count % PACKET_LEN = 0
         /\ p_type = "data_gb_trailing" => \/ type = p_type /\ count = p_count + 1
                                           \/ type = "" /\ p_count = GB_LEN
<1>1. CASE p_type = "" BY <1>1 DEF Clear
<1>2. CASE p_type = "video_pre" BY <1>2 DEF Clear
<1>3. CASE p_type = "data_pre" BY <1>3 DEF Clear
<1>4. CASE p_type = "video_gb" BY <1>4 DEF Clear
<1>5. CASE p_type = "data_gb_leading" BY <1>5 DEF Clear
<1>6. CASE p_type = "data" BY <1>6 DEF Clear
<1>7. CASE p_type = "data_gb_trailing" BY <1>7 DEF Clear
<1> QED BY <1>1, <1>2, <1>3, <1>4, <1>5, <1>6, <1>7

\* The fault is a damaged pixel, in a run of the source that the machine is in:
\* it takes the pixel for what was sent, or goes astray.
LEMMA DamageIsMet ==
  ASSUME RealLengths, p_count \in Nat, NEW was \in Period, NEW is, NEW next,
         p_type = TypeOf[was], p_type # "", RunsMet(p_count, was, is, next),
         is # was /\ next # is => MayLast(is, 1),
         ~(is = "CTRL" /\ next = "VIDEO"), was = "VIDEO_GB" /\ is = "VIDEO" => ~IsVideoGb(i),
         NEW f, NEW type, NEW count, Clear(f, type, count), next = Sent(i+1)
  PROVE  type = TypeOf[is] \/ Astray(type, count, i + 1)
<1>1. is \in After[was] /\ next \in After[is] BY DEF RunsMet
<1>2. /\ is # was => MayLast(was, p_count)
      /\ is = was => MayReach(was, p_count + 1)
      /\ is = was /\ next # is => MayLast(is, p_count + 1)
  BY DEF RunsMet
<1>3. PRE_LEN # 1 /\ GB_LEN # 1 BY TwoAtLeast
<1>4. was \notin {"CTRL", "VIDEO"} BY SourceTables
<1>5. CASE was = "VIDEO_PRE"
  <2>1. p_type = "video_pre" /\ is \in {"VIDEO_PRE", "VIDEO_GB"} BY <1>1, <1>5, SourceTables
  <2>2. CASE type = p_type /\ count = p_count + 1 /\ is = "VIDEO_GB"
    <3>1. p_count + 1 # PRE_LEN BY <2>2, <1>2, <1>5, EndedIsWhole
    <3> QED BY <3>1, <2>1, <2>2 DEF Astray
  <2>3. CASE type = p_type /\ is = "VIDEO_PRE"
    BY <2>1, <2>3, SourceTables
  <2>4. CASE p_count = PRE_LEN /\ is = "VIDEO_PRE"
    BY <2>4, <1>2, <1>5, GoesOnIsNotWhole
  <2>5. CASE type = "video_gb" /\ is = "VIDEO_GB"
    BY <2>5, SourceTables
  <2> QED BY <2>1, <2>2, <2>3, <2>4, <2>5, ClearIn
<1>6. CASE was = "DATA_PRE"
  <2>1. p_type = "data_pre" /\ is \in {"DATA_PRE", "DATA_GB_LEADING"} BY <1>1, <1>6, SourceTables
  <2>2. CASE type = p_type /\ count = p_count + 1 /\ is = "DATA_GB_LEADING"
    <3>1. p_count + 1 # PRE_LEN BY <2>2, <1>2, <1>6, EndedIsWhole
    <3> QED BY <3>1, <2>1, <2>2 DEF Astray
  <2>3. CASE type = p_type /\ is = "DATA_PRE"
    BY <2>1, <2>3, SourceTables
  <2>4. CASE p_count = PRE_LEN /\ is = "DATA_PRE"
    BY <2>4, <1>2, <1>6, GoesOnIsNotWhole
  <2>5. CASE type = "data_gb_leading" /\ is = "DATA_GB_LEADING"
    BY <2>5, SourceTables
  <2> QED BY <2>1, <2>2, <2>3, <2>4, <2>5, ClearIn
<1>7. CASE was = "VIDEO_GB"
  <2>1. p_type = "video_gb" /\ is \in {"VIDEO_GB", "VIDEO"} BY <1>1, <1>7, SourceTables
  <2>2. CASE type = p_type /\ is = "VIDEO_GB"
    BY <2>1, <2>2, SourceTables
  <2>3. CASE p_count = GB_LEN /\ is = "VIDEO_GB"
    BY <2>3, <1>2, <1>7, GoesOnIsNotWhole
  <2>4. CASE type = "" /\ is = "VIDEO"
    BY <2>4, SourceTables
  <2> QED BY <2>1, <2>2, <2>3, <2>4, <1>7, ClearIn
<1>8. CASE was = "DATA_GB_LEADING"
  <2>1. p_type = "data_gb_leading" /\ is \in {"DATA_GB_LEADING", "DATA"} BY <1>1, <1>8, SourceTables
  <2>2. CASE type = p_type /\ count = p_count + 1 /\ is = "DATA"
    <3>1. p_count + 1 # GB_LEN BY <2>2, <1>2, <1>8, EndedIsWhole
    <3>2. next = "DATA"
      <4>1. is # was BY <2>2, <1>8
      <4>2. ~MayLast(is, 1) BY <2>2, NoRunOfOne
      <4> QED BY <4>1, <4>2, <2>2
    <3> QED BY <3>1, <3>2, <2>1, <2>2 DEF Astray
  <2>3. CASE type = p_type /\ is = "DATA_GB_LEADING"
    BY <2>1, <2>3, SourceTables
  <2>4. CASE p_count = GB_LEN /\ is = "DATA_GB_LEADING"
    BY <2>4, <1>2, <1>8, GoesOnIsNotWhole
  <2>5. CASE type = "data" /\ is = "DATA"
    BY <2>5, SourceTables
  <2> QED BY <2>1, <2>2, <2>3, <2>4, <2>5, ClearIn
<1>9. CASE was = "DATA"
  <2>1. p_type = "data" /\ is \in {"DATA", "DATA_GB_TRAILING"} BY <1>1, <1>9, SourceTables
  <2>2. CASE type = p_type /\ count = p_count + 1 /\ is = "DATA_GB_TRAILING"
    <3>1. (p_count + 1) % PACKET_LEN # 0 BY <2>2, <1>2, <1>9, EndedIsWhole
    <3>2. next \in {"DATA_GB_TRAILING", "CTRL"} BY <2>2, <1>1, SourceTables
    <3> QED BY <3>1, <3>2, <2>1, <2>2 DEF Astray
  <2>3. CASE type = p_type /\ is = "DATA"
    BY <2>1, <2>3, SourceTables
  <2>4. CASE /\ type = "data_gb_trailing" /\ count = 1 /\ p_count % PACKET_LEN = 0
             /\ is = "DATA"
    <3>1. next \in {"DATA", "DATA_GB_TRAILING"} BY <2>4, <1>1, SourceTables
    <3>2. ~MayLast("DATA", p_count + 1)
      <4>1. (p_count + 1) % PACKET_LEN # 0 BY <2>4, OneMore
      <4> QED BY <4>1 DEF MayLast
    <3>3. next = "DATA" BY <3>1, <3>2, <2>4, <1>2, <1>9
    <3> QED BY <3>3, <2>4, <1>3 DEF Astray
  <2>5. CASE type = "data_gb_trailing" /\ is = "DATA_GB_TRAILING"
    BY <2>5, SourceTables
  <2> QED BY <2>1, <2>2, <2>3, <2>4, <2>5, ClearIn
<1>10. CASE was = "DATA_GB_TRAILING"
  <2>1. p_type = "data_gb_trailing" /\ is \in {"DATA_GB_TRAILING", "CTRL"} BY <1>1, <1>10, SourceTables
  <2>2. CASE type = p_type /\ count = p_count + 1 /\ is = "CTRL"
    <3>1. p_count + 1 # GB_LEN BY <2>2, <1>2, <1>10, EndedIsWhole
    <3>2. next \in {"CTRL", "VIDEO_PRE", "DATA_PRE"} BY <2>2, <1>1, SourceTables
    <3> QED BY <3>1, <3>2, <2>1, <2>2 DEF Astray, Ctl
  <2>3. CASE type = p_type /\ is = "DATA_GB_TRAILING"
    BY <2>1, <2>3, SourceTables
  <2>4. CASE p_count = GB_LEN /\ is = "DATA_GB_TRAILING"
    BY <2>4, <1>2, <1>10, GoesOnIsNotWhole
  <2>5. CASE type = "" /\ is = "CTRL"
    BY <2>5, SourceTables
  <2>6. \/ type = p_type /\ count = p_count + 1
        \/ type = "" /\ p_count = GB_LEN
    BY <2>1, ClearIn
  <2> QED BY <2>1, <2>2, <2>3, <2>4, <2>5, <2>6
<1> QED BY <1>4, <1>5, <1>6, <1>7, <1>8, <1>9, <1>10 DEF Period, Ctl, Islandic

\* The same, where the machine is in no run.
LEMMA DamageOutside ==
  ASSUME RealLengths, NEW was \in Period, NEW is, NEW next,
         p_type = TypeOf[was], p_type = "", is \in After[was],
         is # was /\ next # is => MayLast(is, 1),
         NEW f, NEW type, NEW count, Clear(f, type, count), next = Sent(i+1)
  PROVE  type = TypeOf[is] \/ Astray(type, count, i + 1)
<1>1. PRE_LEN # 1 BY TwoAtLeast
<1>2. was \in {"CTRL", "VIDEO"} BY SourceTables DEF Period, Ctl, Islandic
<1>3. is \in {"CTRL", "VIDEO", "VIDEO_PRE", "DATA_PRE"} BY <1>2, SourceTables
<1>4. CASE type \in {"video_pre", "data_pre"} /\ count = 1
  BY <1>4, <1>1 DEF Astray
<1>5. CASE type = "" /\ is \in {"CTRL", "VIDEO"}
  BY <1>5, SourceTables
<1>6. CASE type = "" /\ is \in {"VIDEO_PRE", "DATA_PRE"}
  <2>1. is # was BY <1>2, <1>6
  <2>2. ~MayLast(is, 1) BY <1>6, NoRunOfOne
  <2>3. Sent(i+1) \in {"VIDEO_PRE", "DATA_PRE"} BY <2>1, <2>2, <1>6
  <2> QED BY <2>3, <1>6 DEF Astray
<1> QED BY <1>3, <1>4, <1>5, <1>6, ClearIn

\* The fault is a pixel lost in front of pixel i: what was sent for the pixels
\* around it, f for the lost one, follows the standard.
LEMMA LostPixel ==
  ASSUME Types, i \in Pixels \ {0}, LostAt(i)
  PROVE  \E f : /\ f \in After[Sent(i-1)] /\ Sent(i) \in After[f]
                /\ f # Sent(i-1) /\ f # Sent(i) => MayLast(f, 1)
                /\ i + 1 \in Pixels /\ f # Sent(i) /\ Sent(i+1) # Sent(i) => MayLast(Sent(i), 1)
                /\ f = "CTRL" /\ Sent(i) = "VIDEO" => Sent(i-1) \in {"CTRL", "VIDEO"}
<1>1. n \in Nat /\ Pixels = 0 .. n-1 /\ i \in 1 .. n-1 /\ n + 1 - 1 = n /\ n + 1 - 2 = n - 1
  BY Basics
<1>2. PICK f \in DOMAIN After : MaySend(Restored(i, f), n+1) BY DEF LostAt
<1> DEFINE s == Restored(i, f)
<1>3. i-1 \in 0 .. n /\ i-1 < i /\ i+1 \in 0 .. n /\ ~(i+1 < i) /\ i+1 # i /\ i+1-1 = i /\ ~(i < i)
      /\ i \in 0 .. n /\ i \in 1 .. n /\ i+1 \in 1 .. n
  BY <1>1
<1>4. s[i-1] = Sent(i-1) /\ s[i] = f /\ s[i+1] = Sent(i)
  BY <1>3 DEF Restored
<1>5. /\ \A k \in 1 .. n : s[k] \in After[s[k-1]]
      /\ \A a \in 1 .. n-1 : \A b \in a .. n-1 :
           RunIn(s, s[a], a, b) /\ s[a-1] # s[a] /\ s[b+1] # s[a] => MayLast(s[a], b-a+1)
      /\ (\E k \in 1 .. n : s[k-1] = "CTRL" /\ s[k] = "VIDEO") =>
           \A k \in 0 .. n : s[k] \in {"CTRL", "VIDEO"}
  BY <1>1, <1>2 DEF MaySend, Follows
<1> HIDE DEF s
<1>6. f \in After[Sent(i-1)] /\ Sent(i) \in After[f]
  BY <1>3, <1>4, <1>5
<1>7. \A a \in 1 .. n-1 : s[a-1] # s[a] /\ s[a+1] # s[a] => MayLast(s[a], 1)
  <2> SUFFICES ASSUME NEW a \in 1 .. n-1, s[a-1] # s[a], s[a+1] # s[a] PROVE MayLast(s[a], 1)
    OBVIOUS
  <2>1. a \in a .. n-1 /\ a - a + 1 = 1 /\ \A k \in a .. a : k = a BY <1>1
  <2>2. RunIn(s, s[a], a, a) BY <2>1 DEF RunIn
  <2> QED BY <2>1, <2>2, <1>5
<1>8. f # Sent(i-1) /\ f # Sent(i) => MayLast(f, 1)
  BY <1>1, <1>4, <1>7
<1>9. ASSUME i + 1 \in Pixels, f # Sent(i), Sent(i+1) # Sent(i) PROVE MayLast(Sent(i), 1)
  <2>1. /\ i+1 \in 1 .. n-1 /\ i+2 \in 0 .. n /\ ~(i+2 < i) /\ i+2 # i /\ i+2-1 = i+1 /\ i+1+1 = i+2
    BY <1>9, <1>1
  <2>2. s[i+2] = Sent(i+1) BY <2>1 DEF s, Restored
  <2>3. PICK a \in 1 .. n-1 : a = i+1 BY <2>1
  <2>4. a - 1 = i /\ a + 1 = i + 2 BY <2>3, <1>1
  <2> QED BY <1>4, <1>7, <1>9, <2>2, <2>3, <2>4
<1>10. ASSUME f = "CTRL", Sent(i) = "VIDEO" PROVE Sent(i-1) \in {"CTRL", "VIDEO"}
  <2>1. PICK k \in 1 .. n : k = i + 1 BY <1>3
  <2>2. k - 1 = i BY <2>1, <1>3
  <2>3. s[k-1] = "CTRL" /\ s[k] = "VIDEO" BY <2>1, <2>2, <1>4, <1>10
  <2> QED BY <2>3, <1>3, <1>4, <1>5
<1> QED BY <1>6, <1>8, <1>9, <1>10

\* So the period changes at the loss as it may elsewhere, or a run of one pixel
\* is gone, which only control and video may have.
LEMMA LossLeaves ==
  ASSUME RealLengths, NEW f, NEW was \in Period, NEW is \in Period, NEW next,
         f \in After[was], is \in After[f], f # was /\ f # is => MayLast(f, 1),
         f # is /\ next # is => MayLast(is, 1),
         f = "CTRL" /\ is = "VIDEO" => was \in {"CTRL", "VIDEO"}
  PROVE  \/ is \in After[was]
         \/ was = "VIDEO" /\ is \in {"VIDEO_PRE", "DATA_PRE"}
         \/ was = "VIDEO_GB" /\ is = "CTRL"
         \/ was = "DATA_GB_TRAILING" /\ is \in {"VIDEO_PRE", "DATA_PRE"} /\ next = is
<1>1. CASE f = was \/ f = is BY <1>1
<1>2. CASE f # was /\ f # is
  <2>1. f \in {"CTRL", "VIDEO"}
    <3>1. f \in Period BY PeriodsFollow
    <3>2. MayLast(f, 1) BY <1>2
    <3> QED BY <3>1, <3>2, NoRunOfOne DEF Period, Ctl, Islandic
  <2>2. CASE f = "CTRL"
    <3>1. is \in {"VIDEO_PRE", "DATA_PRE", "VIDEO"} BY <2>2, <1>2, SourceTables
    <3>2. was \in {"VIDEO", "DATA_GB_TRAILING"} BY <2>2, <1>2, PeriodsFollow
    <3>3. is # "VIDEO" => next = is BY <3>1, <1>2, NoRunOfOne
    <3>4. CASE is = "VIDEO" BY <3>2, <3>4, <2>2, SourceTables
    <3> QED BY <3>1, <3>2, <3>3, <3>4
  <2>3. CASE f = "VIDEO"
    <3>1. is = "CTRL" BY <2>3, <1>2, SourceTables
    <3>2. was \in {"CTRL", "VIDEO_GB"} BY <2>3, <1>2, PeriodsFollow
    <3> QED BY <3>1, <3>2, SourceTables
  <2> QED BY <2>1, <2>2, <2>3
<1> QED BY <1>1, <1>2

\* The pixel itself is sound, and sorted as it was sent; only the end of an
\* island without its one control pixel leads the machine astray, and only if
\* the preamble goes on.
LEMMA LossIsMet ==
  ASSUME IInv, RealLengths, pass = "islands", ~LooksLikeGb, i \in Pixels \ {0}, Looks(i),
         Sent(i-1) \in Period, LostAt(i), p_type = TypeOf[Sent(i-1)],
         NEW f, NEW type, NEW count, Clear(f, type, count)
  PROVE  /\ tmds_p[i] \cup f = Third(i)
         /\ type = TypeOf[Sent(i)] \/ (i + 1 \in Pixels => Astray(type, count, i + 1))
<1> DEFINE was == Sent(i-1)
           is == Sent(i)
<1>1. is \in Period BY DEF Looks
<1>2. PICK g : /\ g \in After[was] /\ is \in After[g]
               /\ g # was /\ g # is => MayLast(g, 1)
               /\ i + 1 \in Pixels /\ g # is /\ Sent(i+1) # is => MayLast(is, 1)
               /\ g = "CTRL" /\ is = "VIDEO" => was \in {"CTRL", "VIDEO"}
  BY LostPixel DEF IInv
<1>3. PICK next : next = IF i + 1 \in Pixels THEN Sent(i+1) ELSE is OBVIOUS
<1>4. \/ is \in After[was]
      \/ was = "VIDEO" /\ is \in {"VIDEO_PRE", "DATA_PRE"}
      \/ was = "VIDEO_GB" /\ is = "CTRL"
      \/ was = "DATA_GB_TRAILING" /\ is \in {"VIDEO_PRE", "DATA_PRE"} /\ next = is
  <2>1. g # is /\ next # is => MayLast(is, 1) BY <1>2, <1>3
  <2> HIDE DEF was, is
  <2> QED BY <1>1, <1>2, <2>1, LossLeaves DEF was
<1>5. CASE is \in After[was] BY <1>5, StaysInStep
<1>6. is \in {"CTRL", "VIDEO_PRE", "DATA_PRE"} => tmds_p[i] \cup {} = Third(i)
  BY DEF Looks, Third, Ctl
<1>7. CASE was = "VIDEO" /\ is \in {"VIDEO_PRE", "DATA_PRE"}
  <2>1. p_type = "" BY <1>7, SourceTables
  <2>2. f = {} /\ type = TypeOf[is] BY <2>1, <1>7, SourceTables DEF Clear, Looks
  <2> QED BY <2>2, <1>6, <1>7
<1>8. CASE was = "VIDEO_GB" /\ is = "CTRL"
  <2>1. p_type = "video_gb" BY <1>8, SourceTables
  <2>2. ~IsVideoGb(i) BY <1>8 DEF Looks, Ctl
  <2>3. f = {} /\ type = "" BY <2>1, <2>2 DEF Clear
  <2> QED BY <2>3, <1>6, <1>8, SourceTables
<1>9. CASE was = "DATA_GB_TRAILING" /\ is \in {"VIDEO_PRE", "DATA_PRE"} /\ next = is
  <2>1. p_type = "data_gb_trailing" BY <1>9, SourceTables
  <2>2. ~IsDataGb(i) BY <1>9 DEF Looks, Ctl
  <2>3. f = {} /\ type = "" BY <2>1, <2>2 DEF Clear
  <2>4. ASSUME i + 1 \in Pixels PROVE Sent(i+1) \in {"VIDEO_PRE", "DATA_PRE"} BY <2>4, <1>3, <1>9
  <2> QED BY <2>3, <2>4, <1>6, <1>9 DEF Astray
<1> QED BY <1>4, <1>5, <1>7, <1>8, <1>9

\* The run behind a pixel goes on with it, or begins with it.
LEMMA RunGrows ==
  ASSUME i \in Nat, m_start \in Nat, i > m_start, p_count \in Nat, NEW count \in Nat,
         Sent(i) = Sent(i-1) => RunBehind(p_count, i),
         count = IF Sent(i) = Sent(i-1) THEN p_count + 1 ELSE 1
  PROVE  RunBehind(count, i + 1)
<1>1. i + 1 - 1 = i OBVIOUS
<1>2. CASE Sent(i) = Sent(i-1)
  <2>1. /\ 0 < p_count /\ i - p_count > m_start
        /\ \A k \in i - p_count .. i-1 : Sent(k) = Sent(i-1)
        /\ Sent(i - p_count - 1) # Sent(i-1)
    BY <1>2 DEF RunBehind, RunOf
  <2>2. count = p_count + 1 BY <1>2
  <2>3. i + 1 - count = i - p_count /\ i + 1 - count - 1 = i - p_count - 1 /\ 0 < count
    BY <2>2
  <2>4. \A k \in i - p_count .. i : k = i \/ k \in i - p_count .. i-1 OBVIOUS
  <2>5. RunOf(Sent(i), i - p_count, i) BY <2>1, <2>4, <1>2 DEF RunOf
  <2>6. RunOf(Sent(i+1-1), i + 1 - count, i+1-1) /\ Sent(i + 1 - count - 1) # Sent(i+1-1)
    BY <2>1, <2>3, <2>5, <1>1, <1>2
  <2> QED BY <2>1, <2>3, <2>6 DEF RunBehind
<1>3. CASE Sent(i) # Sent(i-1)
  <2>1. count = 1 BY <1>3
  <2>2. i + 1 - count = i /\ i + 1 - count - 1 = i - 1 /\ 0 < count /\ \A k \in i .. i : k = i
    BY <2>1
  <2>3. RunOf(Sent(i), i, i) BY <2>2 DEF RunOf
  <2>4. RunOf(Sent(i+1-1), i + 1 - count, i+1-1) /\ Sent(i + 1 - count - 1) # Sent(i+1-1)
    BY <2>2, <2>3, <1>1, <1>3
  <2> QED BY <2>2, <2>4 DEF RunBehind
<1> QED BY <1>2, <1>3

\* Away from the fault, the periods follow each other as they may.
LEMMA SoundAfter ==
  ASSUME Types, NEW e \in Pixels, OneFault(e), NEW k \in Pixels \ {0}, k # e \/ DamagedAt(e)
  PROVE  Sent(k) \in After[Sent(k-1)]
<1>1. n \in Nat /\ Pixels = 0 .. n-1 /\ k \in 1 .. n-1 /\ e \in 0 .. n-1 /\ n + 1 - 1 = n
  BY Basics
<1>2. CASE DamagedAt(e) BY <1>2, Neighbours DEF DamagedAt, MaySend
<1>3. CASE LostAt(e) /\ k # e
  <2>1. PICK f \in DOMAIN After : MaySend(Restored(e, f), n+1) BY <1>3 DEF LostAt
  <2> DEFINE s == Restored(e, f)
  <2>2. \A j \in 1 .. n : s[j] \in After[s[j-1]]
    BY <2>1, <1>1 DEF MaySend, Follows
  <2>3. CASE k < e
    <3>1. k \in 0 .. n /\ k-1 \in 0 .. n /\ k-1 < e /\ k \in 1 .. n BY <1>1, <2>3
    <3>2. s[k] = Sent(k) /\ s[k-1] = Sent(k-1) BY <3>1, <2>3 DEF Restored
    <3> HIDE DEF s
    <3> QED BY <2>2, <3>1, <3>2
  <2>4. CASE k > e
    <3>1. /\ k \in 0 .. n /\ k+1 \in 1 .. n /\ k+1 \in 0 .. n /\ ~(k+1 < e) /\ k+1 # e /\ k+1-1 = k
          /\ ~(k < e) /\ k # e
      BY <1>1, <2>4
    <3>2. s[k+1] = Sent(k) /\ s[k] = Sent(k-1) BY <3>1 DEF Restored
    <3> HIDE DEF s
    <3> QED BY <2>2, <3>1, <3>2
  <2>5. k < e \/ k > e BY <1>1, <1>3
  <2> QED BY <2>3, <2>4, <2>5
<1> QED BY <1>2, <1>3 DEF OneFault

LEMMA OthersSound ==
  ASSUME NEW e \in Pixels, OneFault(e)
  PROVE  /\ \A k \in Pixels : k # e => SentAs(k)
         /\ DamagedAt(e) \/ (LostAt(e) /\ SentAs(e))
         /\ DamagedAt(e) => ~SentAs(e)
<1>1. Faults = {e} /\ (DamagedAt(e) \/ LostAt(e)) BY DEF OneFault
<1>2. \A k \in Pixels : k # e => SentAs(k) BY <1>1 DEF Faults
<1>3. ~SentAs(e) \/ tmds[e+1].lost BY <1>1 DEF Faults
<1> QED BY <1>1, <1>2, <1>3 DEF DamagedAt, LostAt
LEMMA Around ==
  ASSUME IInv, i \in Pixels, m_start # -1, NEW e \in Pixels
  PROVE  /\ i \in Nat /\ m_start \in Nat /\ p_count \in Nat /\ i + 1 - 1 = i
         /\ i < m_start \/ i = m_start \/ i > m_start
         /\ i < m_start => i <= m_start
         /\ i = m_start => i <= m_start /\ i >= m_start
         /\ i > m_start => /\ i \in Pixels \ {0} /\ i - 1 \in Pixels /\ i - 1 # i
                           /\ i >= m_start /\ ~(i < m_start) /\ m_start \in Pixels /\ i # m_start
         /\ i >= i /\ (i + 1 <= e => i <= e /\ i # e)
         /\ i = e => ~(i + 1 <= e) /\ i # e + 1 /\ i <= e
         /\ i = e + 1 => i # e /\ ~(i + 1 <= e)
         /\ i # e /\ i <= e => i + 1 <= e
BY Basics DEF IInv, Types, Counters

\* What the machine finds of a pixel, and where it goes on, if it finds no error.
Meets(f, type, count, e) ==
  /\ i < m_start => type = ""
  /\ i >= m_start /\ SentAs(i) => tmds_p[i] \cup f = Third(i)
  /\ i >= m_start => \/ InStep(type, count, i + 1, e)
                     \/ i + 1 \in Pixels => i = e /\ Astray(type, count, i + 1)
Island(e) ==
  /\ pass = "islands" /\ i \in Pixels /\ m_start # -1 /\ Begun /\ SoundStart /\ SoundFlags
  /\ SoundRun(e) /\ OneFault(e) /\ ~LooksLikeGb

LEMMA NextInStep ==
  ASSUME i \in Nat, NEW type, NEW count, NEW e, type = TypeOf[Sent(i)],
         Counted(type, count, i + 1, e)
  PROVE  InStep(type, count, i + 1, e)
<1>1. \A k : k - 1 = i /\ Counted(type, count, k, e) => InStep(type, count, k, e)
  <2> SUFFICES ASSUME NEW k, k - 1 = i, Counted(type, count, k, e) PROVE InStep(type, count, k, e)
    OBVIOUS
  <2>1. Sent(k-1) = Sent(i) OBVIOUS
  <2>2. type = TypeOf[Sent(k-1)] BY <2>1
  <2> QED BY <2>2 DEF InStep
<1>2. PICK k \in Nat : k = i + 1 OBVIOUS
<1>3. k - 1 = i BY <1>2
<1>4. Counted(type, count, k, e) BY <1>2
<1>5. InStep(type, count, k, e) BY <1>1, <1>3, <1>4
<1> QED BY <1>2, <1>5

LEMMA BeforeStart ==
  ASSUME IInv, NEW e \in Pixels, Island(e), NEW f, NEW type, NEW count, Clear(f, type, count),
         i < m_start
  PROVE  type = ""
<1>1. i <= m_start /\ i >= i BY Around DEF Island
<1>2. p_type = "" BY <1>1 DEF Island, SoundRun
<1>3. tmds_p[i] \subseteq {"CTRL"} BY <1>1 DEF Island, SoundFlags
<1> QED BY <1>2, <1>3 DEF Clear

LEMMA IslandLooks ==
  ASSUME IInv, NEW e \in Pixels, Island(e), i >= m_start, SentAs(i)
  PROVE  Looks(i)
<1>1. i \in Pixels /\ i >= i BY Around DEF Island
<1>2. tmds_p[i] = Second(i) BY <1>1 DEF Island, SoundFlags
<1> QED BY <1>1, <1>2, SoundLooks DEF Island

LEMMA AtStart ==
  ASSUME IInv, NEW e \in Pixels, Island(e), NEW f, NEW type, NEW count, Clear(f, type, count),
         i = m_start
  PROVE  InStep(type, count, i + 1, e) /\ tmds_p[i] \cup f = Third(i)
<1>1. i <= m_start /\ i >= m_start /\ i \in Nat BY Around DEF Island
<1>2. p_type = "" BY <1>1 DEF Island, SoundRun
<1>3. SentAs(i) /\ Sent(i) = "CTRL" BY DEF Island, Begun, SoundStart
<1>4. Looks(i) BY <1>1, <1>3, IslandLooks
<1>5. type = "" /\ f = {} BY <1>2, <1>3, <1>4 DEF Clear, Looks
<1>6. tmds_p[i] \cup {} = Third(i) BY <1>3, <1>4 DEF Looks, Third, Ctl
<1>7. type = TypeOf[Sent(i)] BY <1>3, <1>5, SourceTables
<1>8. Counted(type, count, i + 1, e) BY <1>5 DEF Counted
<1>9. InStep(type, count, i + 1, e) BY <1>1, <1>7, <1>8, NextInStep
<1> QED BY <1>5, <1>6, <1>9

LEMMA AwayFromFault ==
  ASSUME IInv, NEW e \in Pixels, Island(e), i > m_start, i # e,
         NEW f, NEW type, NEW count \in Nat, Clear(f, type, count)
  PROVE  tmds_p[i] \cup f = Third(i) /\ InStep(type, count, i + 1, e)
<1>1. /\ i \in Pixels \ {0} /\ i \in Pixels /\ i - 1 \in Pixels /\ i >= m_start /\ i \in Nat
      /\ m_start \in Nat /\ p_count \in Nat /\ i + 1 - 1 = i
  BY Around DEF Island
<1>2. SentAs(i) BY <1>1, OthersSound DEF Island
<1>3. Looks(i) BY <1>1, <1>2, IslandLooks
<1>4. CASE InStep(p_type, p_count, i, e)
  <2>1. Sent(i) \in After[Sent(i-1)] BY <1>1, SoundAfter DEF IInv, Island
  <2>2. Sent(i-1) \in Period
    <3>1. CASE SentAs(i-1) BY <3>1, <1>1, SoundPixel DEF IInv
    <3>2. CASE ~SentAs(i-1)
      <4>1. i - 1 = e /\ DamagedAt(e) BY <3>2, <1>1, OthersSound DEF Island
      <4>2. i - 1 # m_start BY <3>2 DEF Island, Begun
      <4>3. PICK k \in Pixels : k = i - 1 BY <1>1
      <4>4. k \in Pixels \ {0} /\ k - 1 \in Pixels /\ k - 1 # k
        <5>1. i > m_start /\ m_start >= 0 /\ i - 1 # m_start BY <4>2, <1>1
        <5>2. i - 1 > 0 BY <5>1, <1>1
        <5> QED BY <5>2, <4>3, Basics DEF IInv
      <4>5. Sent(k) \in After[Sent(k-1)] BY <4>1, <4>4, SoundAfter DEF IInv, Island
      <4>6. Sent(k-1) \in Period
        <5>1. SentAs(k-1) BY <4>1, <4>3, <4>4, OthersSound DEF Island
        <5> QED BY <5>1, <4>4, SoundPixel DEF IInv
      <4>7. Sent(k) \in Period BY <4>5, <4>6, PeriodsFollow
      <4> QED BY <4>3, <4>7
    <3> QED BY <3>1, <3>2
  <2>3. p_type = TypeOf[Sent(i-1)] BY <1>4 DEF InStep
  <2>4. /\ type = TypeOf[Sent(i)] /\ tmds_p[i] \cup f = Third(i)
        /\ type # "" => count = IF Sent(i) = Sent(i-1) THEN p_count + 1 ELSE 1
    BY <1>1, <1>3, <2>1, <2>2, <2>3, StaysInStep DEF Island
  <2>5. ASSUME i + 1 <= e, type # "" PROVE RunBehind(count, i + 1)
    <3>1. i <= e BY <2>5, <1>1, Around DEF Island
    <3>2. Sent(i) = Sent(i-1) => RunBehind(p_count, i)
      BY <3>1, <2>3, <2>4, <2>5, <1>4 DEF InStep, Counted
    <3>3. count = IF Sent(i) = Sent(i-1) THEN p_count + 1 ELSE 1 BY <2>4, <2>5
    <3> QED BY <3>2, <3>3, <1>1, RunGrows
  <2>6. Counted(type, count, i + 1, e) BY <2>5 DEF Counted
  <2> QED BY <2>4, <2>6, <1>1, NextInStep
<1>5. CASE i = e + 1 /\ Astray(p_type, p_count, i)
  <2>1. ~(i + 1 <= e) BY <1>1, <1>5, Around DEF Island
  <2>2. type = TypeOf[Sent(i)] /\ tmds_p[i] \cup f = Third(i) BY <1>3, <1>5, ComesBack
  <2>3. Counted(type, count, i + 1, e) BY <2>1 DEF Counted
  <2> QED BY <2>2, <2>3, <1>1, NextInStep
<1> QED BY <1>4, <1>5 DEF Island, SoundRun

\* Video without preambles is sent by a source of control and video periods only.
LEMMA DviOnly ==
  ASSUME Types, MaySend(Sending, n), i \in Pixels, i - 1 \in Pixels, i + 1 \in Pixels,
         Sent(i) = "CTRL", Sent(i+1) = "VIDEO"
  PROVE  Sent(i-1) \in {"CTRL", "VIDEO"}
<1>1. i + 1 \in 1 .. n-1 /\ i + 1 - 1 = i /\ i - 1 \in 0 .. n-1 /\ i \in Int
  BY Basics
<1>2. Sending[i-1] = Sent(i-1) /\ Sending[i] = Sent(i) /\ Sending[i+1] = Sent(i+1)
  BY DEF Sending
<1>3. (\E k \in 1 .. n-1 : Sending[k-1] = "CTRL" /\ Sending[k] = "VIDEO") =>
        \A k \in 0 .. n-1 : Sending[k] \in {"CTRL", "VIDEO"}
  BY DEF MaySend
<1>4. PICK k \in 1 .. n-1 : k = i + 1 BY <1>1
<1>5. k - 1 = i BY <1>1, <1>4
<1>6. Sending[k-1] = "CTRL" /\ Sending[k] = "VIDEO" BY <1>2, <1>4, <1>5
<1>7. Sending[i-1] \in {"CTRL", "VIDEO"} BY <1>1, <1>3, <1>6
<1> QED BY <1>2, <1>7

LEMMA AtDamage ==
  ASSUME IInv, RealLengths, NEW e \in Pixels, Island(e), i > m_start, i = e, DamagedAt(e),
         NEW f, NEW type, NEW count, Clear(f, type, count), i + 1 \in Pixels
  PROVE  type = TypeOf[Sent(i)] \/ Astray(type, count, i + 1)
<1>1. /\ i \in Pixels \ {0} /\ i \in Pixels /\ i - 1 \in Pixels /\ i - 1 # i /\ i # e + 1 /\ i <= e
      /\ m_start \in Pixels /\ p_count \in Nat
  BY Around DEF Island
<1>2. MaySend(Sending, n) BY DEF DamagedAt
<1>3. InStep(p_type, p_count, i, e) BY <1>1 DEF Island, SoundRun
<1>4. p_type = TypeOf[Sent(i-1)] /\ (p_type # "" => RunBehind(p_count, i))
  BY <1>1, <1>3 DEF InStep, Counted
<1>5. Sent(i-1) \in Period
  <2>1. SentAs(i-1) BY <1>1, OthersSound DEF Island
  <2> QED BY <1>1, <2>1, SoundPixel DEF IInv
<1>6. /\ RunBehind(p_count, i) => RunsMet(p_count, Sent(i-1), Sent(i), Sent(i+1))
      /\ Sent(i) \in After[Sent(i-1)]
      /\ Sent(i) # Sent(i-1) /\ Sent(i+1) # Sent(i) => MayLast(Sent(i), 1)
  BY <1>1, <1>2, DamageInRun DEF IInv
<1>7. CASE p_type = "" BY <1>4, <1>5, <1>6, <1>7, DamageOutside
<1>8. CASE p_type # ""
  <2>1. ~(Sent(i) = "CTRL" /\ Sent(i+1) = "VIDEO")
    <3>1. Sent(i-1) \notin {"CTRL", "VIDEO"} BY <1>4, <1>8, SourceTables
    <3> QED BY <3>1, <1>1, <1>2, DviOnly DEF IInv
  <2>2. Sent(i-1) = "VIDEO_GB" /\ Sent(i) = "VIDEO" => ~IsVideoGb(i)
    BY <1>1, VideoBegins DEF Island
  <2>3. RunsMet(p_count, Sent(i-1), Sent(i), Sent(i+1)) BY <1>4, <1>6, <1>8
  <2> QED BY <2>1, <2>2, <2>3, <1>1, <1>4, <1>5, <1>6, <1>8, DamageIsMet
<1> QED BY <1>7, <1>8

LEMMA AtFault ==
  ASSUME IInv, RealLengths, NEW e \in Pixels, Island(e), i > m_start, i = e,
         NEW f, NEW type, NEW count \in Nat, Clear(f, type, count)
  PROVE  /\ SentAs(i) => tmds_p[i] \cup f = Third(i)
         /\ type = TypeOf[Sent(i)] \/ (i + 1 \in Pixels => Astray(type, count, i + 1))
<1>1. /\ i \in Pixels \ {0} /\ i \in Pixels /\ i - 1 \in Pixels /\ i - 1 # i /\ i # e + 1
      /\ i >= m_start
  BY Around DEF Island
<1>2. CASE DamagedAt(e)
  <2>1. ~SentAs(i) BY <1>2, OthersSound DEF Island
  <2> QED BY <2>1, <1>2, AtDamage
<1>3. CASE LostAt(e) /\ SentAs(e)
  <2>1. Looks(i) BY <1>1, <1>3, IslandLooks
  <2>2. InStep(p_type, p_count, i, e) BY <1>1 DEF Island, SoundRun
  <2>3. p_type = TypeOf[Sent(i-1)] BY <2>2 DEF InStep
  <2>4. Sent(i-1) \in Period
    <3>1. SentAs(i-1) BY <1>1, OthersSound DEF Island
    <3> QED BY <1>1, <3>1, SoundPixel DEF IInv
  <2>5. LostAt(i) BY <1>3
  <2> QED BY <1>1, <2>1, <2>3, <2>4, <2>5, LossIsMet DEF Island
<1> QED BY <1>2, <1>3, OthersSound DEF Island

LEMMA MeetsEach ==
  ASSUME IInv, RealLengths, NEW e \in Pixels, Island(e),
         NEW f, NEW type, NEW count \in Nat, Clear(f, type, count)
  PROVE  Meets(f, type, count, e)
<1>1. CASE i < m_start
  <2>1. ~(i >= m_start) BY <1>1, Around DEF Island
  <2> QED BY <1>1, <2>1, BeforeStart DEF Meets
<1>2. CASE i = m_start
  <2>1. ~(i < m_start) BY <1>2, Around DEF Island
  <2>2. InStep(type, count, i + 1, e) /\ tmds_p[i] \cup f = Third(i) BY <1>2, AtStart
  <2> QED BY <2>1, <2>2 DEF Meets
<1>3. CASE i > m_start /\ i # e
  <2>1. ~(i < m_start) BY <1>3, Around DEF Island
  <2>2. tmds_p[i] \cup f = Third(i) /\ InStep(type, count, i + 1, e) BY <1>3, AwayFromFault
  <2> QED BY <2>1, <2>2 DEF Meets
<1>4. CASE i > m_start /\ i = e
  <2>1. ~(i < m_start) /\ ~(i + 1 <= e) /\ i \in Nat BY <1>4, Around DEF Island
  <2>2. /\ SentAs(i) => tmds_p[i] \cup f = Third(i)
        /\ type = TypeOf[Sent(i)] \/ (i + 1 \in Pixels => Astray(type, count, i + 1))
    BY <1>4, AtFault
  <2>4. Counted(type, count, i + 1, e) BY <2>1 DEF Counted
  <2>3. type = TypeOf[Sent(i)] => InStep(type, count, i + 1, e) BY <2>1, <2>4, NextInStep
  <2> QED BY <2>1, <2>2, <2>3, <1>4 DEF Meets
<1> QED BY <1>1, <1>2, <1>3, <1>4, Around DEF Island

LEMMA IslandsFault ==
  ASSUME IInv, RealLengths, NEW e \in Pixels, OneFault(e), ~LooksLikeGb, FaultInv(e),
         DetectIslands, error' = "none", Begun
  PROVE  FaultInv(e)'
<1>1. PICK f \in SUBSET Flag, type \in PTypes, count \in Nat :
        Clear(f, type, count) /\ Mark(f, type, count)
  BY IslandsClear DEF ClearMark
<1>2. /\ tmds' = tmds /\ tmds_c' = tmds_c /\ m_start' = m_start /\ pass = "islands"
      /\ error' = error /\ stop' = stop /\ m_start # -1
  BY <1>1 DEF DetectIslands, Mark, Advance, Begun
<1>3. /\ n \in Nat /\ Pixels = 0 .. n-1 /\ n' = n /\ Pixels' = Pixels /\ i \in Pixels /\ m_start \in Pixels
      /\ (\A c, k : Sym(c, k)' = Sym(c, k))
      /\ \A k : Sent(k)' = Sent(k) /\ First(k)' = First(k) /\ Third(k)' = Third(k)
  BY <1>2, Basics, SameSource DEF IInv, Types, Counters
<1>4. \A k : Second(k)' = Second(k) BY <1>2, <1>3 DEF Second, FlagsOf
<1>5. /\ error = "none" /\ pass # "read" /\ stop = FALSE /\ SoundValues /\ SoundStart
      /\ SoundFlags /\ SoundRun(e)
  BY <1>2 DEF FaultInv
<1>6. Meets(f, type, count, e)
  BY <1>1, <1>2, <1>3, <1>5, MeetsEach DEF Island
<1>7. tmds_p \in [Pixels -> SUBSET Flag] BY DEF IInv, Types, Tables
<1>8. /\ tmds_p'[i] = tmds_p[i] \cup f /\ \A k \in Pixels : k # i => tmds_p'[k] = tmds_p[k]
      /\ \/ i = n-1 /\ pass' = "video" /\ i' = 0
         \/ i # n-1 /\ pass' = "islands" /\ i' = i + 1 /\ p_count' = count /\ p_type' = type
  <2>1. tmds_p' = [tmds_p EXCEPT ![i] = @ \cup f] BY <1>1 DEF Mark
  <2>2. tmds_p'[i] = tmds_p[i] \cup f /\ \A k \in Pixels : k # i => tmds_p'[k] = tmds_p[k]
    BY <2>1, <1>3, <1>7
  <2>3. \/ i = n-1 /\ pass' = "video" /\ i' = 0
        \/ i # n-1 /\ pass' = "islands" /\ i' = i + 1 /\ p_count' = count /\ p_type' = type
    BY <1>1, <1>2, TableValues DEF Mark, Advance, NewPass
  <2> QED BY <2>2, <2>3
<1>9. \A k : SentAs(k)' = SentAs(k) BY <1>2, SameSound
<1>10. Begun' BY <1>2, <1>9 DEF Begun
<1>11. \A k \in Pixels :
         /\ SentAs(k) /\ k >= i + 1 => tmds_p'[k] = Second(k)
         /\ SentAs(k) /\ k < i + 1 /\ k >= m_start => tmds_p'[k] = Third(k)
         /\ k < m_start /\ k >= i + 1 => tmds_p'[k] \subseteq {"CTRL"}
  <2>0. SUFFICES ASSUME NEW k \in Pixels
        PROVE  /\ SentAs(k) /\ k >= i + 1 => tmds_p'[k] = Second(k)
               /\ SentAs(k) /\ k < i + 1 /\ k >= m_start => tmds_p'[k] = Third(k)
               /\ k < m_start /\ k >= i + 1 => tmds_p'[k] \subseteq {"CTRL"}
    OBVIOUS
  <2>1. (k >= i + 1 => k # i /\ k >= i) /\ (k < i + 1 => k = i \/ (k # i /\ k < i))
    BY <1>3
  <2>2. /\ k < m_start /\ k >= i => tmds_p[k] \subseteq {"CTRL"}
        /\ SentAs(k) /\ k >= i => tmds_p[k] = Second(k)
        /\ SentAs(k) /\ k < i /\ k >= m_start => tmds_p[k] = Third(k)
    BY <1>2, <1>5 DEF SoundFlags
  <2>3. k = i /\ k >= m_start /\ SentAs(k) => tmds_p'[k] = Third(k)
    BY <1>6, <1>8 DEF Meets
  <2> QED BY <2>1, <2>2, <2>3, <1>8
<1>12. SoundValues'
  <2>1. pass # "prelim" /\ pass' # "prelim" BY <1>2, <1>8
  <2> QED BY <2>1, <1>2, <1>3, <1>5, <1>9 DEF SoundValues
<1>13. SoundStart'
  <2>1. Sent(m_start) = "CTRL" BY <1>5 DEF SoundStart
  <2>2. pass' \in {"video", "islands"} BY <1>8
  <2> QED BY <2>1, <2>2, <1>2, <1>3 DEF SoundStart
<1>14. CASE i = n-1 /\ pass' = "video" /\ i' = 0
  <2>1. SoundFlags'
    <3> SUFFICES ASSUME NEW k \in Pixels, k >= m_start, SentAs(k)
                 PROVE  tmds_p'[k] = IF k < i' THEN FlagsOf(Sent(k))' ELSE Third(k)'
      BY <1>2, <1>3, <1>9, <1>14 DEF SoundFlags, FromStart
    <3>1. k < i + 1 /\ ~(k < i') BY <1>3, <1>14
    <3> QED BY <3>1, <1>3, <1>11
  <2>2. SoundRun(e)' BY <1>14 DEF SoundRun
  <2> QED BY <2>1, <2>2, <1>2, <1>5, <1>12, <1>13 DEF FaultInv
<1>15. CASE /\ i # n-1 /\ pass' = "islands" /\ i' = i + 1
            /\ p_count' = count /\ p_type' = type
  <2>1. SoundFlags' BY <1>2, <1>3, <1>4, <1>9, <1>11, <1>15 DEF SoundFlags
  <2>2. /\ i' - 1 = i /\ (i' <= m_start => i < m_start) /\ (i' > m_start => i >= m_start)
        /\ i + 1 \in Pixels /\ i + 1 - 1 = i
    BY <1>2, <1>3, <1>15
  <2>3. i' <= m_start' => p_type' = "" BY <2>2, <1>2, <1>6, <1>15 DEF Meets
  <2>4. (\A f0, a, b : RunOf(f0, a, b)' = RunOf(f0, a, b)) /\ \A k : Astray(type, count, k)' = Astray(type, count, k)
    BY <1>3 DEF RunOf, Astray
  <2>5. \A k : RunBehind(count, k)' = RunBehind(count, k) BY <1>2, <1>3, <2>4 DEF RunBehind
  <2>6. ASSUME i' > m_start'
        PROVE  InStep(p_type, p_count, i, e)' \/ (i' = e + 1 /\ Astray(p_type, p_count, i)')
    <3>1. i >= m_start BY <2>2, <2>6, <1>2
    <3>2. InStep(type, count, i + 1, e) \/ (i = e /\ Astray(type, count, i + 1))
      BY <3>1, <2>2, <1>6 DEF Meets
    <3>3. InStep(type, count, i + 1, e) \/ (i + 1 = e + 1 /\ Astray(type, count, i + 1))
      BY <3>2
    <3>4. \A k : InStep(type, count, k, e)' = InStep(type, count, k, e)
      BY <1>3, <2>5 DEF InStep, Counted
    <3> QED BY <3>3, <2>4, <2>5, <1>3, <1>15 DEF InStep, Counted, RunBehind, Astray
  <2>7. SoundRun(e)' BY <2>3, <2>6, <1>15 DEF SoundRun
  <2> QED BY <2>1, <2>7, <1>2, <1>5, <1>12, <1>13 DEF FaultInv
<1> QED BY <1>8, <1>14, <1>15

\* The passes from "preambles" on leave the capture, the C values and m_start.
Late == DetectPreambles \/ DetectIslands \/ DetectVideo \/ ResolveSyncs \/ WriteDecoded
LEMMA LateSteps ==
  ASSUME IInv, Late, error' = "none"
  PROVE  /\ tmds' = tmds /\ tmds_c' = tmds_c /\ m_start' = m_start
         /\ error' = error /\ stop' = stop
         /\ pass \notin {"prelim", "resolve", "read"} /\ pass' \notin {"prelim", "resolve", "read"}
         /\ pass' = "preambles" => pass = "preambles" /\ i' = i + 1
<1>1. CASE DetectPreambles
  <2>1. /\ tmds' = tmds /\ tmds_c' = tmds_c /\ m_start' = m_start /\ pass = "preambles"
    BY <1>1 DEF DetectPreambles
  <2>2. error' = error /\ stop' = stop /\ Loop(0)
    <3>1. ~Break("illegal control period CTL value") BY DEF Break
    <3> QED BY <1>1, <3>1 DEF DetectPreambles
  <2>3. \/ i' = i + 1 /\ pass' = "preambles"
        \/ pass' = "islands"
    BY <2>1, <2>2, Moves, TableValues
  <2> QED BY <2>1, <2>2, <2>3
<1>2. CASE DetectIslands
  <2>1. /\ tmds' = tmds /\ tmds_c' = tmds_c /\ m_start' = m_start /\ pass = "islands"
    BY <1>2 DEF DetectIslands
  <2>2. PICK f, type, count : Mark(f, type, count)
    BY <1>2, IslandsClear DEF ClearMark
  <2>3. error' = error /\ stop' = stop /\ pass' \in {"islands", "video"}
    BY <2>1, <2>2, TableValues DEF Mark, Advance, NewPass
  <2> QED BY <2>1, <2>3
<1>3. CASE DetectVideo
  <2>1. /\ tmds' = tmds /\ tmds_c' = tmds_c /\ m_start' = m_start /\ pass = "video"
    BY <1>3 DEF DetectVideo
  <2>2. error' = error /\ stop' = stop /\ Loop(0)
    <3>1. ~Fail(NON_VIDEO) BY DEF Fail, Break, NON_VIDEO
    <3> QED BY <1>3, <3>1 DEF DetectVideo
  <2>3. pass' \in {"video", "syncs"} BY <2>1, <2>2, Moves, TableValues
  <2> QED BY <2>1, <2>2, <2>3
<1>4. CASE ResolveSyncs
  <2>1. /\ tmds' = tmds /\ tmds_c' = tmds_c /\ m_start' = m_start /\ pass = "syncs"
        /\ error' = error /\ stop' = stop /\ Loop(0)
    BY <1>4 DEF ResolveSyncs
  <2>2. pass' \in {"syncs", "write"} BY <2>1, Moves, TableValues
  <2> QED BY <2>1, <2>2
<1>5. CASE WriteDecoded
  BY <1>5 DEF WriteDecoded, results
<1> QED BY <1>1, <1>2, <1>3, <1>4, <1>5 DEF Late

LEMMA LateKeeps ==
  ASSUME IInv, NEW e, FaultInv(e), Late, error' = "none"
  PROVE  /\ stop' = FALSE /\ SoundValues' /\ SoundStart' /\ (Begun' <=> Begun)
         /\ error = "none" /\ pass # "read"
         /\ Begun => SoundFlags /\ SoundRun(e)
<1>1. /\ tmds' = tmds /\ tmds_c' = tmds_c /\ m_start' = m_start
      /\ error' = error /\ stop' = stop
      /\ pass \notin {"prelim", "resolve", "read"} /\ pass' \notin {"prelim", "resolve", "read"}
      /\ pass' = "preambles" => pass = "preambles" /\ i' = i + 1
  BY LateSteps
<1>2. /\ stop = FALSE /\ SoundValues /\ SoundStart /\ error = "none"
      /\ Begun => SoundFlags /\ SoundRun(e)
  BY <1>1 DEF FaultInv
<1>3. /\ Pixels' = Pixels /\ (\A c, k : Sym(c, k)' = Sym(c, k)) /\ (\A k : Sent(k)' = Sent(k))
      /\ \A k : SentAs(k)' = SentAs(k)
  BY <1>1, SameSource, SameSound
<1>4. Begun' <=> Begun BY <1>1, <1>3 DEF Begun
<1>5. SoundValues'
  <2>1. pass # "prelim" /\ pass' # "prelim" BY <1>1
  <2> QED BY <2>1, <1>1, <1>2, <1>3 DEF SoundValues
<1>6. SoundStart'
  <2>1. i >= m_start => i + 1 >= m_start
    <3>1. i \in Int /\ m_start \in Int BY DEF IInv, Types, Counters
    <3> QED BY <3>1
  <2>2. pass' = "preambles" => i' >= m_start BY <2>1, <1>1, <1>2 DEF SoundStart
  <2>3. Begun => Sent(m_start) = "CTRL" BY <1>2 DEF SoundStart
  <2>4. pass' # "prelim" /\ pass' # "resolve" BY <1>1
  <2> QED BY <2>2, <2>3, <2>4, <1>1, <1>3, <1>4 DEF SoundStart
<1> QED BY <1>1, <1>2, <1>4, <1>5, <1>6

LEMMA UnbegunFault ==
  ASSUME IInv, NEW e, FaultInv(e), Late, error' = "none", ~Begun
  PROVE  FaultInv(e)'
<1>1. stop' = FALSE /\ SoundValues' /\ SoundStart' /\ ~Begun' BY LateKeeps
<1>2. pass' \notin {"prelim", "resolve"} BY LateSteps
<1> QED BY <1>1, <1>2 DEF FaultInv

LEMMA VideoFault ==
  ASSUME IInv, NEW e, FaultInv(e), DetectVideo, error' = "none", Begun
  PROVE  FaultInv(e)'
<1>1. Late BY DEF Late
<1>2. tmds' = tmds /\ m_start' = m_start /\ error' = error /\ pass = "video"
  BY <1>1, LateSteps DEF DetectVideo
<1>3. /\ n \in Nat /\ Pixels = 0 .. n-1 /\ n' = n /\ Pixels' = Pixels /\ i \in Pixels
      /\ \A k : Sent(k)' = Sent(k) /\ Third(k)' = Third(k)
  BY <1>2, Basics, SameSource DEF IInv, Types, Counters
<1>4. \A k : SentAs(k)' = SentAs(k) /\ FlagsOf(Sent(k))' = FlagsOf(Sent(k)) BY <1>2, SameSound
<1>5. tmds_p \in [Pixels -> SUBSET Flag] BY DEF IInv, Types, Tables
<1>6. /\ Loop(0)
      /\ \/ tmds_p[i] # {} /\ tmds_p' = tmds_p
         \/ tmds_p[i] = {} /\ tmds_p' = [tmds_p EXCEPT ![i] = {"VIDEO"}]
  <2>1. tmds_p[i] = {} => AllChannels("VIDEO", i) BY <1>2, <1>3, UnsortedIsVideo
  <2> QED BY <2>1 DEF DetectVideo
<1>7. /\ tmds_p'[i] = IF tmds_p[i] = {} THEN {"VIDEO"} ELSE tmds_p[i]
      /\ \A k \in Pixels : k # i => tmds_p'[k] = tmds_p[k]
  BY <1>3, <1>5, <1>6
<1>8. \A k \in FromStart : SentAs(k) => tmds_p[k] = IF k < i THEN FlagsOf(Sent(k)) ELSE Third(k)
  <2>1. SoundFlags BY <1>1, LateKeeps
  <2> QED BY <2>1, <1>2 DEF SoundFlags
<1>9. i \in FromStart /\ SentAs(i) => tmds_p'[i] = FlagsOf(Sent(i))
  <2> SUFFICES ASSUME i \in FromStart, SentAs(i) PROVE tmds_p'[i] = FlagsOf(Sent(i))
    OBVIOUS
  <2>1. tmds_p[i] = Third(i)
    <3>1. ~(i < i) BY <1>3
    <3> QED BY <3>1, <1>8
  <2>2. FlagsOf("VIDEO") = {"VIDEO"} /\ FlagsOf(Sent(i)) # {} BY DEF FlagsOf
  <2> QED BY <2>1, <2>2, <1>7 DEF Third
<1>10. \A k \in FromStart : SentAs(k) => tmds_p'[k] = IF k < i + 1 THEN FlagsOf(Sent(k)) ELSE Third(k)
  <2> SUFFICES ASSUME NEW k \in FromStart, SentAs(k)
               PROVE  tmds_p'[k] = IF k < i + 1 THEN FlagsOf(Sent(k)) ELSE Third(k)
    OBVIOUS
  <2>1. k \in Pixels BY DEF FromStart
  <2>2. CASE k = i
    <3>1. i < i + 1 BY <1>3
    <3> QED BY <3>1, <2>2, <1>9
  <2>3. CASE k # i
    <3>1. k < i + 1 <=> k < i BY <2>1, <2>3, <1>3
    <3> QED BY <3>1, <2>1, <2>3, <1>7, <1>8
  <2> QED BY <2>2, <2>3
<1>11. \/ i # n-1 /\ i' = i + 1 /\ pass' = "video"
       \/ i = n-1 /\ i' = 0 /\ pass' = "syncs"
  BY <1>2, <1>6, Moves, TableValues
<1>12. FromStart' = FromStart BY <1>2, <1>3 DEF FromStart
<1>13. SoundFlags'
  <2>1. CASE i # n-1 /\ i' = i + 1 /\ pass' = "video"
    BY <2>1, <1>3, <1>4, <1>10, <1>12 DEF SoundFlags
  <2>2. CASE i = n-1 /\ i' = 0 /\ pass' = "syncs"
    <3>1. \A k \in FromStart : k < i + 1 BY <2>2, <1>3 DEF FromStart
    <3>2. \A k \in FromStart : SentAs(k) => SortedAsSent(k)'
      BY <3>1, <1>2, <1>10 DEF SortedAsSent, Sent, FlagsOf
    <3> QED BY <2>2, <3>2, <1>4, <1>12 DEF SoundFlags
  <2> QED BY <1>11, <2>1, <2>2
<1>14. SoundRun(e)' BY <1>11 DEF SoundRun
<1>15. stop' = FALSE /\ SoundValues' /\ SoundStart' BY <1>1, LateKeeps
<1> QED BY <1>13, <1>14, <1>15 DEF FaultInv

\* The passes after them leave the flags as they are.
LEMMA SortedFault ==
  ASSUME IInv, NEW e, FaultInv(e), ResolveSyncs \/ WriteDecoded, error' = "none", Begun
  PROVE  FaultInv(e)'
<1>1. Late BY DEF Late
<1>2. tmds' = tmds /\ m_start' = m_start BY <1>1, LateSteps
<1>3. tmds_p' = tmds_p /\ pass \in {"syncs", "write"} BY DEF ResolveSyncs, WriteDecoded, results
<1>4. pass' \in {"syncs", "write", "done", "exception"}
  <2>1. CASE ResolveSyncs
    <3>1. pass = "syncs" /\ Loop(0) BY <2>1 DEF ResolveSyncs
    <3> QED BY <3>1, Moves, TableValues
  <2>2. CASE WriteDecoded BY <2>2 DEF WriteDecoded
  <2> QED BY <2>1, <2>2
<1>5. \A k \in FromStart : SentAs(k) => SortedAsSent(k)
  <2>1. SoundFlags BY <1>1, LateKeeps
  <2> QED BY <2>1, <1>3 DEF SoundFlags
<1>6. FromStart' = FromStart /\ (\A k : SentAs(k)' = SentAs(k)) /\ \A k : SortedAsSent(k)' = SortedAsSent(k)
  BY <1>2, <1>3, SameSource, SameSound DEF FromStart, SortedAsSent, FlagsOf
<1>7. SoundFlags' BY <1>4, <1>5, <1>6 DEF SoundFlags
<1>8. SoundRun(e)' BY <1>4 DEF SoundRun
<1>9. stop' = FALSE /\ SoundValues' /\ SoundStart' BY <1>1, LateKeeps
<1> QED BY <1>7, <1>8, <1>9 DEF FaultInv

\* Which pixel is the fault does not change: the capture does not.
LEMMA SameFault ==
  ASSUME tmds' = tmds
  PROVE  Pixels' = Pixels /\ (LooksLikeGb' <=> LooksLikeGb) /\ \A e : OneFault(e)' <=> OneFault(e)
<1>1. /\ n' = n /\ Pixels' = Pixels /\ (\A c, k : Sym(c, k)' = Sym(c, k)) /\ (\A k : Sent(k)' = Sent(k))
      /\ \A k : SentAs(k)' = SentAs(k)
  BY SameSource, SameSound
<1>2. LooksLikeGb' <=> LooksLikeGb BY <1>1 DEF LooksLikeGb
<1>3. Faults' = Faults BY <1>1 DEF Faults
<1>4. Sending' = Sending BY <1>1 DEF Sending
<1>5. \A k, f : Restored(k, f)' = Restored(k, f) BY <1>1 DEF Restored
<1>6. \A s, m : MaySend(s, m)' <=> MaySend(s, m)
  BY DEF MaySend, Follows, RunIn, MayLast, MayReach, After
<1>7. \A k : DamagedAt(k)' <=> DamagedAt(k)
  <2>1. MaySend(Sending, n)' <=> MaySend(Sending, n) BY <1>1, <1>4 DEF MaySend, Follows, RunIn
  <2> QED BY <2>1 DEF DamagedAt
<1>8. \A k : LostAt(k)' <=> LostAt(k)
  <2>1. \A k, f : MaySend(Restored(k, f), n+1)' <=> MaySend(Restored(k, f), n+1)
    BY <1>1, <1>5 DEF MaySend, Follows, RunIn
  <2> QED BY <1>1, <2>1 DEF LostAt
<1> QED BY <1>1, <1>2, <1>3, <1>7, <1>8 DEF OneFault

OneFaultInv == \A e \in Pixels : OneFault(e) /\ ~LooksLikeGb => FaultInv(e)

LEMMA NextFault ==
  ASSUME RealLengths
  PROVE  IInv /\ OneFaultInv /\ [Next]_vars => OneFaultInv'
<1> SUFFICES ASSUME IInv, OneFaultInv, [Next]_vars, NEW e \in Pixels,
                    OneFault(e), ~LooksLikeGb
             PROVE  FaultInv(e)'
  BY SourceStays, SameFault DEF OneFaultInv
<1>1. FaultInv(e) BY DEF OneFaultInv
<1>2. CASE UNCHANGED vars
  <2>1. /\ tmds' = tmds /\ pass' = pass /\ ch' = ch /\ i' = i /\ m_start' = m_start
        /\ tmds_c' = tmds_c /\ tmds_p' = tmds_p
        /\ p_count' = p_count /\ p_type' = p_type /\ error' = error /\ stop' = stop
    BY <1>2 DEF vars, results
  <2>2. /\ Pixels' = Pixels /\ (\A c, k : Sym(c, k)' = Sym(c, k)) /\ (\A k : Sent(k)' = Sent(k))
        /\ (\A k : First(k)' = First(k) /\ Third(k)' = Third(k))
        /\ \A k : SentAs(k)' = SentAs(k) /\ FlagsOf(Sent(k))' = FlagsOf(Sent(k))
    BY <2>1, SameSource, SameSound
  <2>3. FromStart' = FromStart /\ (\A k : Second(k)' = Second(k)) /\ (Begun' <=> Begun)
    BY <2>1, <2>2 DEF FromStart, Second, FlagsOf, Begun
  <2>4. \A k : SortedAsSent(k)' = SortedAsSent(k) BY <2>1 DEF SortedAsSent, FlagsOf
  <2>5. SoundValues => SoundValues' BY <2>1, <2>2 DEF SoundValues
  <2>6. SoundStart => SoundStart' BY <2>1, <2>2, <2>3 DEF SoundStart
  <2>7. SoundFlags => SoundFlags' BY <2>1, <2>2, <2>3, <2>4 DEF SoundFlags
  <2>8. SoundRun(e) => SoundRun(e)'
    <3>1. \A f, a, b : RunOf(f, a, b)' = RunOf(f, a, b) BY <2>2 DEF RunOf
    <3>2. InStep(p_type, p_count, i, e)' <=> InStep(p_type, p_count, i, e)
      BY <2>1, <2>2, <3>1 DEF InStep, Counted, RunBehind
    <3>3. Astray(p_type, p_count, i)' <=> Astray(p_type, p_count, i)
      BY <2>1, <2>2 DEF Astray
    <3> QED BY <2>1, <3>2, <3>3 DEF SoundRun
  <2> QED BY <1>1, <2>1, <2>3, <2>5, <2>6, <2>7, <2>8 DEF FaultInv
<1>3. CASE Next
  <2>1. CASE error' # "none" BY <2>1 DEF FaultInv
  <2>2. CASE ReadDecoded BY <2>2 DEF ReadDecoded, FaultInv
  <2>3. CASE error' = "none" /\ PrelimDetect BY <1>1, <2>3, PrelimFault
  <2>4. CASE error' = "none" /\ ResolveControl BY <1>1, <2>4, ResolveFault
  <2>5. CASE error' = "none" /\ Late
    <3>1. CASE ~Begun BY <1>1, <2>5, <3>1, UnbegunFault
    <3>2. CASE Begun
      BY <1>1, <2>5, <3>2, PreamblesFault, IslandsFault, VideoFault, SortedFault DEF Late
    <3> QED BY <3>1, <3>2
  <2> QED BY <1>3, <2>1, <2>2, <2>3, <2>4, <2>5 DEF Next, Late
<1> QED BY <1>2, <1>3

\* Every capture of what a source may send, of any length, with one pixel damaged
\* in any way or one lost anywhere, and packets, preambles and guardbands of two
\* pixels or more: the decode reports an error, or every pixel that arrived sound
\* is sorted as it was sent.
THEOREM OneFaultStaysThere == ASSUME RealLengths PROVE Spec => []OneFaultDoesNotSpread
<1>1. Init => OneFaultInv BY InitFault DEF OneFaultInv
<1>2. OneFaultInv => OneFaultDoesNotSpread
  <2> SUFFICES ASSUME OneFaultInv, Completed, m_start # -1, SentAs(m_start), ~LooksLikeGb,
                      NEW e \in Pixels, OneFault(e)
               PROVE  \A k \in FromStart : SentAs(k) => SortedAsSent(k)
    BY DEF OneFaultDoesNotSpread
  <2>1. FaultInv(e) /\ Begun BY DEF OneFaultInv, Begun
  <2> QED BY <2>1 DEF Completed, FaultInv, SoundFlags
<1>3. IInv /\ OneFaultInv /\ [Next]_vars => OneFaultInv' BY NextFault
<1> QED BY <1>1, <1>2, <1>3, SpecIInv, PTL DEF Spec
=============================================================================
