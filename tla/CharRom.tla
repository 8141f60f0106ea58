------------------------------- MODULE CharRom --------------------------------
(***************************************************************************)
(* char_rom.py turns a 24 bit BMP image, a rectangular array of characters *)
(* of w by h pixels, into the ROM of a VHDL entity.  The file is a         *)
(* sequence of bytes, with its fields at their offsets; rows are stored    *)
(* from the bottom up.  A step is one check or pass of the program, one    *)
(* row of a character, or the lines of one character in the entity.        *)
(***************************************************************************)
EXTENDS Integers, Sequences, FiniteSets, FiniteSetsExt

CONSTANTS
  BYTE,        \* values of a byte, 256
  CHARS,       \* characters of the ROM, 256
  Calls        \* calls of the program: file, w, h, and the image meant

VARIABLES
  call,        \* [bmp, w, h, width, height, image]; image[x][y] counts y from the top
  pc,
  rgb_fg,
  c, py,       \* character and row
  char_data,   \* rows of each character, as numbers
  rom          \* what the entity shows for each character and row address
vars == <<call, pc, rgb_fg, c, py, char_data, rom>>

bmp == call.bmp
w == call.w
h == call.h
Char == 0 .. CHARS-1

get_uint16Big(offset) == bmp[offset+1]*BYTE + bmp[offset+2]
get_uint16(offset) == bmp[offset+1] + bmp[offset+2]*BYTE
\* The top byte is shifted by 32 instead of 24.
get_uint32(offset) == get_uint16(offset) + bmp[offset+3]*BYTE^2 + bmp[offset+4]*BYTE^4
bmp_hdr_size == get_uint32(14)
bmp_width    == get_uint32(18)
bmp_height   == get_uint32(22)

\* Python's bmp[i]: a negative index counts from the end.
InFile(k) == k \in -Len(bmp) .. Len(bmp)-1
At(k) == bmp[(k % Len(bmp)) + 1]
PixelAtTopDown(x, y) == 14 + bmp_hdr_size + x*3 + y*bmp_width*3
PixelAt(x, y) == 14 + bmp_hdr_size + x*3 + ((bmp_height-1)-y)*bmp_width*3
get_pixel(x, y) == LET k == PixelAt(x, y) IN <<At(k+2), At(k+1), At(k)>>

XY == (0 .. bmp_width-1) \X (0 .. bmp_height-1)
Colours == {get_pixel(p[1], p[2]) : p \in XY}
Count(rgb) == Cardinality({p \in XY : get_pixel(p[1], p[2]) = rgb})

CeilLog2(k) == CHOOSE e \in 0 .. k : 2^e >= k /\ (e = 0 \/ 2^(e-1) < k)
r_width == CeilLog2(h)

Init == /\ call \in Calls
        /\ pc = "header" /\ rgb_fg = <<>>
        /\ c = 0 /\ py = 0
        /\ char_data = [k \in Char |-> <<>>]
        /\ rom = [k \in {} |-> 0]

Goto(where) == pc' = where /\ UNCHANGED <<call, rgb_fg, c, py, char_data, rom>>

CheckHeader ==
  /\ pc = "header"
  /\ IF get_uint16(26) # 1 \/ get_uint16(28) # 24 \/ get_uint16(30) # 0
     THEN Goto("format error")
     ELSE IF Len(bmp) # 14 + bmp_hdr_size + 3*bmp_width*bmp_height THEN Goto("bad length")
     ELSE IF bmp_width*bmp_height # CHARS*w*h THEN Goto("pixels per character")
     ELSE Goto("colours")

\* The colour of fewer pixels is the foreground.  (colours_found is in the
\* order of the columns; it decides when both have as many.)
FoundFirst == get_pixel(0, 0)
MoreIsInk(a, b) == IF Count(a) > Count(b) THEN a ELSE b
FewerIsInk(a, b) == IF Count(a) > Count(b) THEN b ELSE a
FindColours ==
  /\ pc = "colours"
  /\ IF Cardinality(Colours) # 2 THEN Goto("colours error")
     ELSE /\ rgb_fg' = FewerIsInk(FoundFirst, CHOOSE rgb \in Colours : rgb # FoundFirst)
          /\ pc' = "chars"
          /\ UNCHANGED <<call, c, py, char_data, rom>>

cw == bmp_width \div w
CellX == (c % cw) * w
CellY == (c \div cw) * h
RowInFile == \A px \in 0 .. w-1 : LET k == PixelAt(CellX + px, CellY + py) IN InFile(k) /\ InFile(k+2)
RowBitsShifted == SumSet({2^(w-px) : px \in {q \in 0 .. w-1 : get_pixel(CellX + q, CellY + py) = rgb_fg}})
RowBits == SumSet({2^((w-1)-px) : px \in {q \in 0 .. w-1 : get_pixel(CellX + q, CellY + py) = rgb_fg}})
ScanRow ==
  /\ pc = "chars"
  /\ IF cw = 0 THEN Goto("ZeroDivisionError")
     ELSE IF ~RowInFile THEN Goto("IndexError")
     ELSE /\ char_data' = [char_data EXCEPT ![c] = Append(@, RowBits)]
          /\ IF py < h-1 THEN py' = py + 1 /\ UNCHANGED <<pc, c>>
             ELSE /\ py' = 0
                  /\ IF c < CHARS-1 THEN c' = c + 1 /\ UNCHANGED pc
                     ELSE c' = 0 /\ pc' = "write"
          /\ UNCHANGED <<call, rgb_fg, rom>>

\* "when ...": a line for every row address, also those beyond h.
WriteChar ==
  /\ pc = "write"
  /\ IF Len(char_data[c]) < 2^r_width THEN Goto("IndexError")
     ELSE /\ rom' = [k \in DOMAIN rom \cup {<<c, r>> : r \in 0 .. 2^r_width - 1} |->
                       IF k \in DOMAIN rom THEN rom[k] ELSE char_data[c][k[2]+1]]
          /\ IF c < CHARS-1 THEN c' = c + 1 /\ UNCHANGED pc ELSE pc' = "done" /\ UNCHANGED c
          /\ UNCHANGED <<call, rgb_fg, py, char_data>>

Next == CheckHeader \/ FindColours \/ ScanRow \/ WriteChar
Spec == Init /\ [][Next]_vars

------------------------------------------------------------------------------
(* Properties.                                                             *)

TypeOK ==
  /\ pc \in {"header", "format error", "bad length", "pixels per character", "colours",
             "colours error", "chars", "ZeroDivisionError", "IndexError", "write", "done"}
  /\ c \in Char /\ py \in 0 .. h-1
  /\ \A k \in Char : Len(char_data[k]) <= h /\ \A r \in DOMAIN char_data[k] : char_data[k][r] \in 0 .. 2^w - 1
  /\ DOMAIN rom \subseteq Char \X Nat

\* The image is an array of whole characters.
IsArray == call.width % w = 0 /\ call.height % h = 0 /\ call.width * call.height = CHARS*w*h
Drawn(k, px, r) ==
  LET perRow == call.width \div w IN
  call.image[(k % perRow)*w + px][(k \div perRow)*h + r]
ImageColours == {call.image[x][y] : x \in 0 .. call.width-1, y \in 0 .. call.height-1}
Pixels(col) == Cardinality({p \in (0 .. call.width-1) \X (0 .. call.height-1) : call.image[p[1]][p[2]] = col})
Bit(value, k) == (value \div 2^k) % 2

\* The ROM shows the characters as they are drawn, in reading order, top row
\* first, leftmost pixel in the highest bit, with the rarer colour as ink.
RomShowsTheImage ==
  (pc = "done" /\ IsArray) =>
    \E ink \in ImageColours :
      /\ \A other \in ImageColours : Pixels(ink) <= Pixels(other)
      /\ \A k \in Char, r \in 0 .. h-1, px \in 0 .. w-1 :
           (Bit(rom[<<k, r>>], w-1-px) = 1) = (Drawn(k, px, r) = ink)

\* No image of whole characters in two colours is turned away, if the height
\* of a character is a power of two and no rows are padded.
GoodImageIsAccepted ==
  (IsArray /\ Cardinality(ImageColours) = 2 /\ call.standard /\ 2^r_width = h) =>
    pc \in {"header", "colours", "chars", "write", "done"}
=============================================================================
