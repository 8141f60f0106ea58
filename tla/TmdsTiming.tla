------------------------------ MODULE TmdsTiming ------------------------------
(***************************************************************************)
(* tmds_cap.py, "detect horizontal video timing" and "detect vertical      *)
(* video timing": the client measures the timing of the decoded pixels.    *)
(* The first occurrence of a width is the measurement, every later one is  *)
(* compared with it, and a difference stops the analysis.  A step handles  *)
(* the next pixel whose levels differ from those of the pixel before: no   *)
(* branch of the loops is taken at any other.                              *)
(*                                                                         *)
(* Indexes count from m_start.  Vertical measurements are in lines, and    *)
(* half lines occur: they are kept times 2*m_h_total.                      *)
(***************************************************************************)
EXTENDS Integers, Sequences, FiniteSets, SequencesExt

CONSTANT Captures   \* [pix, source, start, fault]: see Pixel; source is the timing
                    \* of the device captured, for the properties only

Pixel == [a : {0, 1}, h : {0, 1}, v : {0, 1}]   \* active video, h sync, v sync
None == -1
HNames == {"h_sync_pol", "h_front_porch", "h_sync", "h_back_porch", "h_active", "h_blank", "h_total"}
VNames == {"v_front_porch", "v_sync", "v_back_porch", "v_active", "v_blank", "v_total"}

VARIABLES
  cap,
  pass, i,       \* the loop being run, and its index
  prev,          \* levels of the pixel before; each loop finds those of the last one
  m,             \* the measurements m_..., -1 if not made
  m_v_sync_pol, m_v_sync_i, m_v_interlace,
  r_h_event,     \* the last five events, latest first, "" for none
  r_h_act_i, r_h_sync_i,                \* the last three indexes of each kind
  h_sync_i, v_act, v_act_1, field,
  r_v_act, r_v_sync_leading, r_v_sync_trailing,
  error          \* "" or what ended the analysis
hrecords == <<r_h_event, r_h_act_i, r_h_sync_i>>
vrecords == <<h_sync_i, v_act, v_act_1, field, r_v_act, r_v_sync_leading, r_v_sync_trailing>>
vvalues == <<m_v_sync_pol, m_v_sync_i, m_v_interlace>>
vars == <<cap, pass, i, prev, m, vvalues, hrecords, vrecords, error>>

n == Len(cap.pix)
At(k) == cap.pix[k+1]
Unknown == [a |-> None, h |-> None, v |-> None]
Three == <<None, None, None>>
PushOldest(seq, e) == Tail(seq) \o <<e>>
Push(seq, e) == <<e>> \o Front(seq)

Init ==
  /\ cap \in Captures
  /\ pass = "horizontal" /\ i = 0 /\ prev = Unknown
  /\ m = [name \in HNames \cup VNames |-> -1]
  /\ m_v_sync_pol = -1 /\ m_v_sync_i = -1 /\ m_v_interlace = -1
  /\ r_h_event = <<"", "", "", "", "">> /\ r_h_act_i = Three /\ r_h_sync_i = Three
  /\ h_sync_i = None /\ v_act = None /\ v_act_1 = None /\ field = None
  /\ r_v_act = Three /\ r_v_sync_leading = Three /\ r_v_sync_trailing = Three
  /\ error = ""

\* The pixel a loop looks at next: the first one, then where a level changes.
Change(k) == IF k = 0 THEN TRUE ELSE At(k) # At(k-1)
More == {k \in i .. n-1 : Change(k)} # {}
Here == CHOOSE k \in i .. n-1 : Change(k) /\ \A l \in i .. k-1 : ~Change(l)

------------------------------------------------------------------------------
(* "check/measure": a list of measurements, in the order of the code.      *)

Measure(name, value) == <<[name |-> name, value |-> value, fail |-> ""]>>
Fail(text) == <<[name |-> "", value |-> None, fail |-> text]>>
If(condition, list) == IF condition THEN list ELSE <<>>

Rest(x2) == x2 % (2 * (IF m["h_total"] < 0 THEN 1 ELSE m["h_total"]))
Lines(x2) == Rest(x2) = 0
\* An unmade measurement is made, and has to be a whole number of lines; one
\* that is made has to agree.  A value of None can only be stored.  The int()s
\* at the end of the pass see the half line that ended it, too.
OneUnchecked(acc, c) ==
  IF acc.err # "" THEN acc
  ELSE IF c.fail # "" THEN [acc EXCEPT !.err = c.fail]
  ELSE IF acc.m[c.name] # -1 THEN acc
  ELSE [acc EXCEPT !.m[c.name] = c.value]
One(acc, c) ==
  IF acc.err # "" THEN acc
  ELSE IF c.fail # "" THEN [acc EXCEPT !.err = c.fail]
  ELSE IF acc.m[c.name] # -1
  THEN IF c.value = None THEN [acc EXCEPT !.err = "TypeError"]
       ELSE IF acc.m[c.name] # c.value THEN [acc EXCEPT !.err = c.name] ELSE acc
  ELSE IF c.name \in VNames /\ ~Lines(c.value)
  THEN [acc EXCEPT !.m[c.name] = c.value - Rest(c.value), !.err = c.name]
  ELSE [acc EXCEPT !.m[c.name] = c.value]
All(list) == FoldLeft(One, [m |-> m, err |-> ""], list)

\* The loop goes on behind pixel k, or the analysis ends.
Take(checks, k) ==
  LET done == All(checks) IN
  /\ m' = done.m /\ error' = done.err /\ prev' = At(k)
  /\ IF done.err = "" THEN pass' = pass /\ i' = k + 1 ELSE pass' = "end" /\ i' = 0

------------------------------------------------------------------------------
(* "detect horizontal video timing".                                       *)

IsSync(e) == e \in {"h_sync_rising", "h_sync_falling"}
HEvent(k) ==
  LET p == At(k) IN
  IF prev.a # None /\ p.a # prev.a
  THEN IF p.h # prev.h THEN "coinciding" ELSE IF p.a = 1 THEN "h_act_rising" ELSE "h_act_falling"
  ELSE IF prev.h # None /\ p.h # prev.h THEN IF p.h = 1 THEN "h_sync_rising" ELSE "h_sync_falling"
  ELSE ""

\* The measurements after event e[1], with its predecessors e[2], e[3], ...,
\* indexes ai and si, and level h of h sync.
RisingChecks(e, ai, si, h) ==
  IF ~IsSync(e[2]) THEN Fail("TypeError: unexpected event sequence")   \* of its format
  ELSE Measure("h_sync_pol", 1 - h) \o Measure("h_back_porch", ai[1] - si[1])
       \o If(e[3] = "", Fail("TypeError: h_blank"))                    \* None[:6]
       \o If(IsSync(e[3]) /\ e[4] = "h_act_falling", Measure("h_blank", ai[1] - ai[2]))
FallingChecks(e, ai) ==
  IF e[2] = "h_act_rising" THEN Measure("h_active", ai[1] - ai[2])
  ELSE Fail("TypeError: unexpected event sequence")
LeadingAny(si) == TRUE
Leading(si) == si[1] - si[2] > si[2] - si[3]
SyncChecks(e, ai, si, h) ==
  IF e[2] = "h_act_falling" THEN Measure("h_sync_pol", h) \o Measure("h_front_porch", si[1] - ai[1])
  ELSE IF IsSync(e[2]) /\ IsSync(e[3])
  THEN IF Leading(si) THEN Measure("h_sync_pol", h) \o Measure("h_sync", si[2] - si[3])
       ELSE Measure("h_sync_pol", 1 - h) \o Measure("h_sync", si[1] - si[2])
  ELSE <<>>
TotalChecks(e, ai, si, k) ==
  LET skipped == \/ e[1] = "h_act_rising" /\ e[4] # "h_act_falling"
                 \/ e[1] = "h_act_falling" /\ e[5] # "h_act_falling"
      since == IF IsSync(e[1]) THEN si[3] ELSE ai[3]
  IN If(~skipped, Measure("h_total", IF since = None THEN None ELSE k - since))
HChecks(e, ai, si, h, k) ==
  IF e[2] = "" THEN <<>>
  ELSE (CASE e[1] = "h_act_rising" -> RisingChecks(e, ai, si, h)
          [] e[1] = "h_act_falling" -> FallingChecks(e, ai)
          [] OTHER -> SyncChecks(e, ai, si, h))
       \o TotalChecks(e, ai, si, k)

HorizontalPixel ==
  /\ pass = "horizontal" /\ More
  /\ LET k == Here
         event == HEvent(k)
         e == IF event = "" THEN r_h_event ELSE Push(r_h_event, event)
         ai == IF event \in {"h_act_rising", "h_act_falling"} THEN Push(r_h_act_i, k) ELSE r_h_act_i
         si == IF IsSync(event) THEN Push(r_h_sync_i, k) ELSE r_h_sync_i
     IN /\ Take(CASE event = "" -> <<>> [] event = "coinciding" -> Fail("coinciding events")
                  [] OTHER -> HChecks(e, ai, si, At(k).h, k), k)
        /\ r_h_event' = e /\ r_h_act_i' = ai /\ r_h_sync_i' = si
  /\ UNCHANGED <<cap, vvalues, vrecords>>

\* "get m_v_sync_pol" looks for the first active pixel.  What the loop leaves
\* in h_act and v_sync is there when the next one begins.
FirstActive == {k \in 0 .. n-1 : At(k).a = 1 /\ \A l \in 0 .. k-1 : At(l).a = 0}
GetPolarity ==
  /\ pass = "horizontal" /\ ~More /\ pass' = "interlace" /\ i' = 0
  /\ LET k == IF FirstActive = {} THEN n-1 ELSE CHOOSE f \in FirstActive : TRUE IN
     /\ prev' = [a |-> At(k).a, h |-> None, v |-> At(k).v]
     /\ m_v_sync_pol' = IF FirstActive = {} THEN -1 ELSE 1 - At(k).v
  /\ m_v_interlace' = 0
  /\ UNCHANGED <<cap, m, m_v_sync_i, hrecords, vrecords, error>>

------------------------------------------------------------------------------
(* "detect vertical video timing".                                         *)

HLeading(k) == At(k).h = m["h_sync_pol"] /\ prev.h = 1 - m["h_sync_pol"]
VLeading(k) == At(k).v = m_v_sync_pol /\ prev.v = 1 - m_v_sync_pol
VTrailing(k) == At(k).v = 1 - m_v_sync_pol /\ prev.v = m_v_sync_pol

\* "get m_v_sync_i, m_v_interlace".
InterlacePixel ==
  /\ pass = "interlace" /\ More
  /\ LET k == Here
         sync_i == IF VLeading(k) /\ HLeading(k) /\ m_v_sync_i = -1 THEN k ELSE m_v_sync_i
         interlace == IF VLeading(k) /\ ~HLeading(k) THEN 1 ELSE m_v_interlace
     IN /\ m_v_sync_i' = sync_i /\ m_v_interlace' = interlace
        /\ IF sync_i # -1 /\ interlace = 1 THEN pass' = "vertical" /\ i' = 0 ELSE pass' = pass /\ i' = k + 1
        /\ prev' = [a |-> prev.a, h |-> At(k).h, v |-> At(k).v]
  /\ UNCHANGED <<cap, m, m_v_sync_pol, hrecords, vrecords, error>>
InterlaceEnd ==
  /\ pass = "interlace" /\ ~More /\ pass' = "vertical" /\ i' = 0
  /\ UNCHANGED <<cap, prev, m, vvalues, hrecords, vrecords, error>>

\* At the leading edge of an h sync, what is known of the line before it.
LineChecks(act, ract) ==
  IF act = 1 /\ v_act_1 = 0
  THEN If(r_v_sync_trailing[1] # None /\ field # None,
          Measure("v_back_porch", 2*(ract[1] - r_v_sync_trailing[1]) + field*m["h_total"]))
       \o If(ract[2] # None, Measure("v_blank", 2*(ract[1] - ract[2])))
  ELSE If(act = 0 /\ v_act_1 = 1 /\ ract[2] # None, Measure("v_active", 2*(ract[1] - ract[2])))

\* "check position of v sync edge w.r.t h sync leading edge" and v_total.
EdgeChecks(k, line, f, edges) ==
  LET last == IF m_v_interlace = 0 THEN edges[2] ELSE edges[3]
      back == IF m_v_interlace = 1 /\ f = 1 THEN m["h_total"] ELSE 0
  IN If(m_v_interlace = 1 /\ f = None, Fail("NameError"))      \* h_sync_i_x
     \o If(line = None, Fail("TypeError: bad v sync position"))
     \o If(2*line # 2*k - back, Fail("bad v sync position"))
     \o If(last # None, Measure("v_total", 2*(k - last)))

VerticalPixel ==
  /\ pass = "vertical" /\ More
  /\ LET k == Here
         act == IF At(k).a = 1 /\ prev.a = 0 THEN 1 ELSE v_act
         lineEnds == HLeading(k) /\ h_sync_i # None
         changes == lineEnds /\ v_act_1 # None /\ act # v_act_1
         ract == IF changes THEN Push(r_v_act, h_sync_i) ELSE r_v_act
         line == IF HLeading(k) THEN k ELSE h_sync_i
         f == IF VLeading(k) THEN IF line # k THEN 1 ELSE 0 ELSE field
         leading == IF VLeading(k) THEN Push(r_v_sync_leading, k) ELSE r_v_sync_leading
         trailing == IF VTrailing(k) THEN Push(r_v_sync_trailing, k) ELSE r_v_sync_trailing
     IN /\ Take(If(changes, LineChecks(act, ract))
                \o If(VLeading(k), EdgeChecks(k, line, f, leading)
                        \o If(ract[1] # None, Measure("v_front_porch", 2*(k - ract[1]) + f*m["h_total"])))
                \o If(VTrailing(k), EdgeChecks(k, line, f, trailing)
                        \o If(leading[1] # None, Measure("v_sync", 2*(k - leading[1])))), k)
        /\ v_act_1' = IF lineEnds THEN act ELSE v_act_1
        /\ v_act' = IF lineEnds THEN 0 ELSE act
        /\ h_sync_i' = line /\ field' = f /\ r_v_act' = ract
        /\ r_v_sync_leading' = leading /\ r_v_sync_trailing' = trailing
  /\ UNCHANGED <<cap, vvalues, hrecords>>
VerticalEnd ==
  /\ pass = "vertical" /\ ~More /\ pass' = "end" /\ i' = 0
  /\ UNCHANGED <<cap, prev, m, vvalues, hrecords, vrecords, error>>

Next == HorizontalPixel \/ GetPolarity \/ InterlacePixel \/ InterlaceEnd \/ VerticalPixel \/ VerticalEnd
Spec == Init /\ [][Next]_vars

------------------------------------------------------------------------------
(* Properties.                                                             *)

TypeOK ==
  /\ pass \in {"horizontal", "interlace", "vertical", "end"}
  /\ i \in 0 .. n /\ prev \in [a : -1 .. 1, h : -1 .. 1, v : -1 .. 1]
  /\ \A name \in HNames \cup VNames : m[name] \in -1 .. 2*n*n
  /\ m["h_sync_pol"] \in -1 .. 1 /\ m_v_sync_pol \in -1 .. 1 /\ m_v_interlace \in -1 .. 1
  /\ \A k \in 1 .. 5 : r_h_event[k] = "" => \A l \in k .. 5 : r_h_event[l] = ""
  /\ \A k \in 1 .. 2 : r_h_act_i[k] >= r_h_act_i[k+1] /\ r_h_sync_i[k] >= r_h_sync_i[k+1]
  /\ field \in -1 .. 1 /\ v_act \in -1 .. 1

Finished == pass = "end" /\ error = ""
Source == cap.source
True(name) ==
  LET s == Source IN
  CASE name = "h_sync_pol" -> s.hpol [] name = "h_front_porch" -> s.hfp [] name = "h_sync" -> s.hs
    [] name = "h_back_porch" -> s.hbp [] name = "h_active" -> s.ha [] name = "h_blank" -> s.hfp + s.hs + s.hbp
    [] name = "h_total" -> s.hfp + s.hs + s.hbp + s.ha
    [] name = "v_front_porch" -> s.vfp [] name = "v_sync" -> s.vs [] name = "v_back_porch" -> s.vbp
    [] name = "v_active" -> s.va [] name = "v_blank" -> s.vfp + s.vs + s.vbp
    [] name = "v_total" -> s.vfp + s.vs + s.vbp + s.va
LineLength == True("h_total")

InHSync(k) == At(k).h = Source.hpol
InVSync(k) == At(k).v = Source.vpol
OutsideSyncs == ~InHSync(0) /\ ~InVSync(0) /\ ~InVSync(n-1)
\* It begins in a line whose active pixels are still to come, or are going on.
BeginsInALine == \E k \in 0 .. n-1 : At(k).a = 1 /\ \A l \in 0 .. k : ~InHSync(l)
Legal == cap.fault = "none"
Right(name) == m[name] = (IF name \in VNames THEN 2 * LineLength * True(name) ELSE True(name))
\* No measurement of an undamaged progressive source is wrong, and none of
\* two frames is missing, if the capture begins outside the sync pulses.
ProgressiveIsMeasured ==
  (pass = "end" /\ Legal /\ ~Source.interlaced /\ OutsideSyncs /\ ~BeginsInALine) =>
    /\ error = "" /\ m_v_interlace = 0
    /\ \A name \in HNames \cup VNames :
         IF m[name] = -1 THEN n < 2 * LineLength * True("v_total") ELSE Right(name)

\* What the pixels are, for captures that are damaged.
Edge(x, k, level) == k > 0 /\ At(k)[x] = level /\ At(k-1)[x] = 1 - level
Edges(x, level) == {k \in 0 .. n-1 : Edge(x, k, level)}
\* The distances from an edge of S to the next of T.
Spans(S, T) == {CHOOSE d \in 1 .. n : k+d \in T /\ \A c \in 1 .. d-1 : k+c \notin T :
                  k \in {s \in S : \E t \in T : t > s}}
Uniform(S, T, value) == LET spans == Spans(S, T) IN spans = {} \/ spans = {value}
\* An analysis that ends without an error has looked at every line: all lines
\* are of one length, every run of active pixels is m_h_active long, and the
\* porches around it are those measured.
LinesAreUniform ==
  Finished =>
    LET pol == m["h_sync_pol"]
        leads == IF pol = -1 THEN {} ELSE Edges("h", pol)
        trails == IF pol = -1 THEN {} ELSE Edges("h", 1 - pol)
        rises == Edges("a", 1)
        falls == Edges("a", 0)
    IN /\ m["h_total"] # -1 => /\ Uniform(leads, leads, m["h_total"])
                               /\ Uniform(trails, trails, m["h_total"])
       /\ Uniform(rises, falls, m["h_active"])
       /\ m["h_back_porch"] # -1 =>
            \A r \in rises : (\E t \in trails : t < r) => r - m["h_back_porch"] \in trails
       /\ \A f \in falls : (\E l \in leads : l > f) => f + m["h_front_porch"] \in leads

\* The frames it has seen are of one length, too, and so are the pulses of v
\* sync; each begins and ends with a line.
FramesAreUniform ==
  (Finished /\ m_v_interlace = 0 /\ m_v_sync_pol # -1 /\ m["h_total"] # -1) =>
    LET leads == Edges("v", m_v_sync_pol)
        trails == Edges("v", 1 - m_v_sync_pol)
    IN /\ \A S \in {leads, trails} : \A d \in Spans(S, S) : 2*d = m["v_total"]
       /\ \A d \in Spans(leads, trails) : 2*d = m["v_sync"]
       /\ leads \cup trails \subseteq Edges("h", m["h_sync_pol"])
=============================================================================
