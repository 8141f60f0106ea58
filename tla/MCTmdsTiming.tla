----------------------------- MODULE MCTmdsTiming -----------------------------
(* Captures of small frames: from any pixel that is not active, and with    *)
(* one pixel lost, doubled or with a level inverted.                        *)
EXTENDS TmdsTiming

Format(hfp, hs, hbp, ha, vfp, vs, vbp, va, hpol, vpol, interlaced) ==
  [hfp |-> hfp, hs |-> hs, hbp |-> hbp, ha |-> ha, vfp |-> vfp, vs |-> vs, vbp |-> vbp, va |-> va,
   hpol |-> hpol, vpol |-> vpol, interlaced |-> interlaced]
Wide  == Format(1, 2, 1, 3, 1, 1, 1, 2, 1, 1, FALSE)
Low   == Format(2, 1, 1, 2, 1, 2, 1, 2, 0, 0, FALSE)
Mixed == Format(1, 1, 2, 2, 1, 1, 2, 2, 0, 1, FALSE)
Inter == Format(1, 1, 1, 3, 1, 1, 1, 1, 1, 0, TRUE)

LineOf(s) == s.hfp + s.hs + s.hbp + s.ha
FieldOf(s) == s.vfp + s.vs + s.vbp + s.va
Frame(s) == LineOf(s) * (IF s.interlaced THEN 2*FieldOf(s) + 1 ELSE FieldOf(s))
Level(on, pol) == IF on THEN pol ELSE 1 - pol
\* Pixel t of the source; a frame begins with v sync, a line with h sync.
SourcePixel(s, time) ==
  LET t == time % Frame(s)
      x == t % LineOf(s)
      l == t \div LineOf(s)
      half == FieldOf(s) * LineOf(s) + LineOf(s) \div 2
      first == s.vs + s.vbp
      second == FieldOf(s) + 1 + first
  IN [a |-> IF (l \in first .. first + s.va - 1 \/ (s.interlaced /\ l \in second .. second + s.va - 1))
               /\ x \in s.hs + s.hbp .. s.hs + s.hbp + s.ha - 1 THEN 1 ELSE 0,
      h |-> Level(x < s.hs, s.hpol),
      v |-> Level(t < s.vs*LineOf(s) \/ (s.interlaced /\ t \in half .. half + s.vs*LineOf(s) - 1), s.vpol)]
Piece(s, start, length) == [k \in 1 .. length |-> SourcePixel(s, start + k-1)]
Capture(s, pix, fault) == [source |-> s, pix |-> pix, fault |-> fault]

Starts(s) == {t \in 0 .. Frame(s)-1 : SourcePixel(s, t).a = 0}
Undamaged(s, lengths) == {Capture(s, Piece(s, t, l), "none") : t \in Starts(s), l \in lengths}
Lost(pix, k) == SubSeq(pix, 1, k-1) \o SubSeq(pix, k+1, Len(pix))
Doubled(pix, k) == SubSeq(pix, 1, k) \o SubSeq(pix, k, Len(pix))
Inverted(pix, k, x) == [pix EXCEPT ![k][x] = 1 - @]
Damaged(s, t, length) ==
  LET pix == Piece(s, t, length) IN
  UNION {{Capture(s, Lost(pix, k), "lost"), Capture(s, Doubled(pix, k), "doubled")}
         \cup {Capture(s, Inverted(pix, k, x), "inverted") : x \in {"a", "h", "v"}} : k \in 1 .. length}
MCCaptures ==
  Undamaged(Wide, {30, 2*Frame(Wide), 90}) \cup Undamaged(Low, {2*Frame(Low) + 7})
  \cup Undamaged(Mixed, {2*Frame(Mixed) + 3}) \cup Undamaged(Inter, {60, 120})
  \cup Damaged(Wide, 11, 75) \cup Damaged(Low, 17, 80)
=============================================================================
