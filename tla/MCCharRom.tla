------------------------------ MODULE MCCharRom -------------------------------
(* ROMs of four characters from small images, with bytes of 16 values.      *)
EXTENDS CharRom, SequencesExt

Le(v, k) == [j \in 1 .. k |-> (v \div BYTE^(j-1)) % BYTE]
\* The two headers of a BMP file, 14 and 40 bytes; the rest of them is zero.
Header(width, height, planes, top) ==
  [j \in 1 .. 14 |-> 0] \o Le(40, 4) \o Le(width, 4)
  \o (IF top THEN <<15, 15, 15, 15>> ELSE Le(height, 4))
  \o Le(planes, 2) \o Le(24, 2) \o [j \in 1 .. 24 |-> 0]
Pad(width, padded) == IF padded THEN [j \in 1 .. ((4 - ((3*width) % 4)) % 4) |-> 0] ELSE <<>>
Body(width, height, image, padded) ==
  FlattenSeq([r \in 1 .. height |->
    FlattenSeq([x \in 1 .. width |->
      LET v == image[x-1][height-r] IN <<v, 0, v>>]) \o Pad(width, padded)])
Call(pw, ph, width, height, image, kind) ==
  [bmp |-> Header(width, height, IF kind = "planes" THEN 2 ELSE 1, kind = "topdown")
           \o Body(width, height, image, kind = "padded"),
   w |-> pw, h |-> ph, width |-> width, height |-> height, image |-> image,
   standard |-> kind = "plain"]

\* A drawing of ink 3 on paper 5: the pixels of S.
Drawing(width, height, S) ==
  [x \in 0 .. width-1 |-> [y \in 0 .. height-1 |-> IF <<x, y>> \in S THEN 3 ELSE 5]]
Marks(width, height) ==
  {{<<x, y>>} : x \in 0 .. width-1, y \in 0 .. height-1}
  \cup {{<<0, y>> : y \in 0 .. height-1}, {<<x, 0>> : x \in 0 .. width-1}, {},
        {p \in (0 .. width-1) \X (0 .. height-1) : p # <<1, 0>>}}
Drawings(pw, ph, width, height, kind) ==
  {Call(pw, ph, width, height, Drawing(width, height, S), kind) : S \in Marks(width, height)}
MCCalls ==
  Drawings(2, 2, 4, 4, "plain") \cup Drawings(2, 2, 8, 2, "plain") \cup Drawings(3, 4, 6, 8, "plain")
  \cup Drawings(2, 2, 2, 8, "padded") \cup Drawings(2, 2, 4, 4, "topdown") \cup Drawings(2, 2, 4, 4, "planes")
  \cup Drawings(2, 2, 4, 2, "plain") \cup Drawings(2, 2, 16, 1, "plain") \cup Drawings(2, 2, 1, 16, "plain")
  \cup Drawings(2, 3, 4, 6, "plain")
=============================================================================
