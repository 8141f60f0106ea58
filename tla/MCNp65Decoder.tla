---------------------------- MODULE MCNp65Decoder -----------------------------
(* Decoders of three opcodes, words of six bits, and sheets of two rows.    *)
EXTENDS Np65Decoder, TLC

MCNumber == ("0" :> 0) @@ ("1" :> 1) @@ ("2" :> 2) @@ ("3" :> 3) @@ ("5" :> 5)
S1 == <<"addsub", "1", <<"ADD", "SUB">>>>
S2 == <<"sreg", "2", <<"A", "X", "Y", "RSVD">>>>
F == <<<<"addsub", "1">>, <<"valid", "1">>, <<"sreg", "2">>, <<"cycles", "2">>>>
Cells(plain) == {<<a, v, s, c>> : a \in {".", "SUB"}, v \in {".", "x"}, s \in {".", "X", "RSVD"}, c \in plain}
RowsOf(cells, ops) == {[mnemonic |-> <<m>>, opcode |-> op, cells |-> c] : m \in {"LDA", "STA"}, op \in ops, c \in cells}
Decoding(substs, flds, rows) == [substs |-> substs, fields |-> flds, rows |-> rows]
Row1 == RowsOf(Cells({".", "2", "3"}), {0, 2})
Good == {Decoding(<<S1, S2>>, F, <<p, q>>) : p \in {row \in Row1 : row.mnemonic = <<"LDA">>}, q \in Row1}
OneRow(row) == Decoding(<<S1, S2>>, F, <<row>>)
Simple == CHOOSE row \in Row1 : TRUE
Odd ==
  {OneRow(row) : row \in RowsOf(Cells({"5", "?"}), {1, 3}) \cup RowsOf({<<"OR", ".", ".", ".">>, <<".", "2", "A", ".">>}, {1})}
  \cup {Decoding(s, f, <<Simple>>) :
          s \in {<<S1>>, <<S2, S1>>, <<<<"sreg", "2", <<"A", "X", "Y">>>>>>, <<<<"sreg", "?", <<"A">>>>>>,
                 <<<<"addsub", "2", S2[3]>>>>, <<<<"sub", "1", S1[3]>>>>, <<S1, S2>>},
          f \in {F, <<F[1], F[2], F[3], <<"cycles", "3">>>>, <<F[1], F[2], F[3], <<"cycles", "?">>>>}}
MCSheets == Good \cup Odd
=============================================================================
