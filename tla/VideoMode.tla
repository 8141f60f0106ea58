------------------------------ MODULE VideoMode -------------------------------
(***************************************************************************)
(* video_mode.py turns the sheet of video modes into a VHDL table and the  *)
(* process that looks a mode up.  The first two rows of the sheet are the  *)
(* VHDL type and the name of each column; a column without a type is left  *)
(* out.  A step reads the headers, writes one cell, or (in the entity)     *)
(* looks at the ports after a change of the input mode.                    *)
(***************************************************************************)
EXTENDS Integers, Sequences, TLC

CONSTANTS
  Types,      \* row 1: records with a kind, <<>> for an empty cell
  Names,      \* row 2
  Sheet,      \* the other rows, one per mode, of the length of these
  Encodings   \* what the program may read the file with

VARIABLES
  encoding,
  pc,
  types,      \* of the columns; mark is what is left before the type
  i, j,       \* row and column written next
  table,      \* the aggregates written: name, value and whether a comma follows
  mode, ports \* of the entity
vars == <<encoding, pc, types, i, j, table, mode, ports>>

\* The byte order mark, in characters of the encoding.
Decoded(enc) == IF enc = "utf-8" THEN <<65279>> ELSE <<239, 187, 191>>
WithoutMark(start) == IF start = <<239, 187, 191>> THEN <<>> ELSE start

Init == /\ encoding \in Encodings
        /\ pc = "headers" /\ types = <<>> /\ i = 1 /\ j = 1 /\ table = <<>>
        /\ mode = 0 /\ ports = <<>>

ReadHeaders ==
  /\ pc = "headers" /\ pc' = "cells"
  /\ types' = [k \in 1 .. Len(Types) |->
                 IF Types[k] = <<>> THEN <<>>
                 ELSE [mark |-> IF k = 1 THEN WithoutMark(Decoded(encoding)) ELSE <<>>, type |-> Types[k]]]
  /\ UNCHANGED <<encoding, i, j, table, mode, ports>>

\* A cell as a VHDL literal.  Strings are padded to their length; a string of
\* a type that is not known as one is left without quotes.
PadNone(n, len) == n
Pad(n, len) == IF n < len THEN len ELSE n
Literal(t, value) ==
  IF t.mark = <<>> /\ t.type.kind = "string" THEN [text |-> value, length |-> Pad(Len(value), t.type.len)]
  ELSE IF t.type.kind = "bit" THEN IF value = "+" THEN 1 ELSE 0
  ELSE value

Row(k) == IF k <= Len(table) THEN table[k] ELSE <<>>
CommaAfterName(k) == k < Len(types) /\ types[k+1] # <<>>
Comma(k) == k < Len(types)
WriteCell ==
  /\ pc = "cells"
  /\ LET cell == IF types[j] = <<>> THEN <<>>
                 ELSE <<[name |-> Names[j], value |-> Literal(types[j], Sheet[i][j]), comma |-> Comma(j)]>>
     IN table' = [k \in 1 .. i |-> IF k = i THEN Row(i) \o cell ELSE table[k]]
  /\ IF j < Len(types) THEN j' = j + 1 /\ UNCHANGED <<i, pc>>
     ELSE /\ j' = 1
          /\ IF i < Len(Sheet) THEN i' = i + 1 /\ UNCHANGED pc ELSE i' = 1 /\ pc' = "entity"
  /\ UNCHANGED <<encoding, types, mode, ports>>

------------------------------------------------------------------------------
(* The text of the package and of the entity.                              *)

video_clk_sel_t == <<"CLK_SEL_25M2", "CLK_SEL_27M0", "CLK_SEL_74M25", "CLK_SEL_148M5">>
Pos(s) == CHOOSE k \in 0 .. 3 : video_clk_sel_t[k+1] = s

MODES == <<"640x480p60", "720x480p60", "720x480p60w", "1280x720p60", "1920x1080i60",
           "720x480i60", "720x480i60w", "1920x1080p60", "720x576p50", "720x576p50w",
           "1280x720p50", "1920x1080i50", "720x576i50", "720x576i50w", "1920x1080p50">>
MODEFromOne(name) == CHOOSE k \in 1 .. 15 : MODES[k] = name
MODE(name) == (CHOOSE k \in 1 .. 15 : MODES[k] = name) - 1

Numbers == {"id", "v_tot", "v_act", "v_sync", "v_bp", "h_tot", "h_act", "h_sync", "h_bp"}
WidthNarrow == [id |-> 8, v_tot |-> 11, v_act |-> 11, v_sync |-> 2, v_bp |-> 6,
                h_tot |-> 12, h_act |-> 11, h_sync |-> 7, h_bp |-> 8]
Width == [id |-> 8, v_tot |-> 11, v_act |-> 11, v_sync |-> 3, v_bp |-> 6,
          h_tot |-> 12, h_act |-> 11, h_sync |-> 7, h_bp |-> 8]

LookupClamped(m) == IF m >= Len(table) THEN Len(table) ELSE m + 1
Lookup(m) == IF m >= Len(table) THEN 1 ELSE m + 1
\* The fields of a row of the table.
Field(r, name) == table[r][CHOOSE k \in DOMAIN table[r] : table[r][k].name = name].value
BitOf(condition) == IF condition THEN 1 ELSE 0
AspectAsCommented(a) == CASE a = "ASPECT_16_9" -> 2 [] a = "ASPECT_4_3" -> 3 [] OTHER -> 0
Aspect(a) == CASE a = "ASPECT_16_9" -> 2 [] a = "ASPECT_4_3" -> 1 [] OTHER -> 0

\* The process of the entity.
Select(m) ==
  /\ pc = "entity" /\ mode' = m
  /\ LET vt(name) == Field(Lookup(m), name) IN
     ports' = [n \in Numbers |-> vt(n) % 2^Width[n]] @@
              [clk_sel |-> Pos(vt("clk_sel")), dmt |-> BitOf(vt("dmt")),
               pix_rep |-> BitOf(vt("pix_rep") # 0), aspect |-> Aspect(vt("aspect")),
               interlace |-> BitOf(vt("interlace")), vs_pol |-> vt("vs_pol"), hs_pol |-> vt("hs_pol")]
  /\ UNCHANGED <<encoding, pc, types, i, j, table>>

Next == ReadHeaders \/ WriteCell \/ \E m \in 0 .. 15 : Select(m)
Spec == Init /\ [][Next]_vars

------------------------------------------------------------------------------
(* Properties.                                                             *)

TypeOK ==
  /\ pc \in {"headers", "cells", "entity"}
  /\ i \in 1 .. Len(Sheet) /\ j \in 1 .. Len(Types)
  /\ Len(table) <= Len(Sheet)
  /\ \A r \in 1 .. Len(table) : \A k \in DOMAIN table[r] :
       LET e == table[r][k] IN
       e.name = "name" => e.value.length = 16      \* of its VHDL type
  /\ mode \in 0 .. 15

Selected == ports # <<>>
Cell(r, name) == Sheet[r][CHOOSE k \in 1 .. Len(Names) : Names[k] = name]
\* The row of the sheet a mode stands for: the first one if there is none.
Meant == IF mode < Len(Sheet) THEN mode + 1 ELSE 1

\* The clocks of video_out_clock.vhd:61 by its input sel (kHz), and the picture
\* aspects by the bits M1 M0 of the AVI InfoFrame, where vga_to_hdmi.vhd:720
\* puts the port aspect.
ClockOf == <<25200, 27000, 74250, 148500>>
PictureOf == <<"4:3", "16:9">>

\* What the ports show is what the sheet says of the mode, no number cut off;
\* the clock they select and the picture aspect they announce are those of the
\* columns that no VHDL is made of.
PortsShowTheSheet ==
  Selected =>
    /\ \A n \in Numbers : ports[n] = Cell(Meant, n)
    /\ ClockOf[ports.clk_sel + 1] = Cell(Meant, "pixel clock (kHz)")
    /\ ports.aspect \in DOMAIN PictureOf
    /\ PictureOf[ports.aspect] = Cell(Meant, "picture aspect")
    /\ ports.dmt = 1 <=> Cell(Meant, "dmt")
    /\ ports.interlace = 1 <=> Cell(Meant, "interlace")
    /\ ports.pix_rep = Cell(Meant, "pix_rep")
    /\ ports.vs_pol = 1 <=> Cell(Meant, "vs_pol") = "+"
    /\ ports.hs_pol = 1 <=> Cell(Meant, "hs_pol") = "+"

\* What a counter that follows the ports makes of them is the timing of the
\* sheet: active part, front porch (which is no port), sync and back porch
\* fill a line and, in half lines, a frame or both its fields; a frame of two
\* fields has an odd number of lines.
TimingAddsUp ==
  Selected =>
    /\ ports.h_tot = ports.h_act + Cell(Meant, "h_fp") + ports.h_sync + ports.h_bp
    /\ (ports.v_tot - ports.v_act) * (2 - ports.interlace)
         = Cell(Meant, "half v_fp") + 2*(ports.v_sync + ports.v_bp)
    /\ ports.interlace = 1 => ports.v_tot % 2 = 1

\* A design that selects a mode by its constant gets the mode of that name.
ModeConstantsNameTheirRows ==
  Selected => \A name \in {Cell(r, "name") : r \in 1 .. Len(Sheet)} :
    mode = MODE(name) => Field(Lookup(mode), "name").text = name

\* The record has the fields of the aggregates, in their order, and a comma is
\* between the fields and nowhere else.
AggregatesFitTheRecord ==
  pc = "entity" => \A r \in 1 .. Len(table) :
    /\ [k \in DOMAIN table[r] |-> table[r][k].name]
         = LET Typed(k) == types[k] # <<>> IN SelectSeq(Names, LAMBDA n : \E k \in 1 .. Len(Names) : Names[k] = n /\ Typed(k))
    /\ \A k \in DOMAIN table[r] : table[r][k].comma = (k < Len(table[r]))
=============================================================================
