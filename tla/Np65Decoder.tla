----------------------------- MODULE Np65Decoder ------------------------------
(***************************************************************************)
(* np65_decoder.py (one script for Intel and one for Xilinx devices) turns *)
(* the sheet of 6502 instructions into the decoder of the np65 CPU: a ROM  *)
(* with one word for each opcode, and an entity whose ports are slices of  *)
(* the word.  Some fields hold a name from a list given in the sheet (the  *)
(* substitutions), the others a number.  A step reads a definition, a      *)
(* header, or one cell; words are sequences of bits, the lowest first.     *)
(***************************************************************************)
EXTENDS Integers, Sequences, SequencesExt, FiniteSets

CONSTANTS
  OPCODES,    \* entries of the ROM, 256
  LPM_WIDTH,  \* "width" of the altdpram of the Intel entity, 59
  Number,     \* the cells int() reads, with their values
  Sheets

VARIABLES
  sheet,      \* substs: <<name, size, values>>; fields: <<name, size>>;
              \* rows: [mnemonic, opcode, cells]; a mnemonic is a tuple of its parts
  pc, r, i,
  bfs,        \* substitution definitions read
  bf,         \* bit fields read
  mnemonics,  \* of each opcode
  fields,     \* instruction_definitions: the bits of each field of each opcode
  words       \* instruction_vectors
vars == <<sheet, pc, r, i, bfs, bf, mnemonics, fields, words>>

Opcode == 0 .. OPCODES-1
bfs_names == [k \in DOMAIN bfs |-> bfs[k][1]]
bf_names == [k \in DOMAIN bf |-> bf[k][1]]
bf_sizes(k) == bf[k][2]
SumOf(seq) == FoldLeft(LAMBDA total, n : total + n, 0, seq)
bit_width == SumOf([k \in DOMAIN bf |-> bf_sizes(k)])

\* bin(n)[2:].zfill(size): at least size bits.
BinLen(n) == CHOOSE l \in 1 .. n+1 : n < 2^l /\ (l = 1 \/ n >= 2^(l-1))
BitsNoFill(n, size) == [k \in 1 .. BinLen(n) |-> (n \div 2^(k-1)) % 2]
Bits(n, size) == [k \in 1 .. (IF BinLen(n) > size THEN BinLen(n) ELSE size) |-> (n \div 2^(k-1)) % 2]
Zeros(size) == [k \in 1 .. size |-> 0]
IndexOf(seq, e) == SelectInSeq(seq, LAMBDA x : x = e)

Init ==
  /\ sheet \in Sheets
  /\ pc = "substitutions" /\ r = 1 /\ i = 1
  /\ bfs = <<>> /\ bf = <<>>
  /\ mnemonics = <<>> /\ fields = <<>> /\ words = <<>>

End(how) == pc' = how /\ UNCHANGED <<sheet, r, i, bfs, bf, mnemonics, fields, words>>

EnoughValues(def) == Len(def[3]) <= 2^def[2]
AllValues(def) == Len(def[3]) = 2^def[2]
ReadSubstitution ==
  /\ pc = "substitutions"
  /\ IF r > Len(sheet.substs) THEN pc' = "fields" /\ r' = 1 /\ UNCHANGED bfs
     ELSE LET def == sheet.substs[r] IN
          IF def[2] \notin DOMAIN Number THEN pc' = "invalid bit field size" /\ UNCHANGED <<r, bfs>>
          ELSE IF ~AllValues(<<def[1], Number[def[2]], def[3]>>)
          THEN pc' = "incorrect number of bit field substitution values" /\ UNCHANGED <<r, bfs>>
          ELSE /\ bfs' = Append(bfs, <<def[1], Number[def[2]], def[3]>>)
               /\ r' = r + 1 /\ UNCHANGED pc
  /\ UNCHANGED <<sheet, i, bf, mnemonics, fields, words>>

ReadFields ==
  /\ pc = "fields"
  /\ IF \E k \in DOMAIN sheet.fields : sheet.fields[k][2] \notin DOMAIN Number
     THEN End("expected bit field size")
     ELSE /\ bf' = [k \in DOMAIN sheet.fields |-> <<sheet.fields[k][1], Number[sheet.fields[k][2]]>>]
          /\ pc' = "check" /\ UNCHANGED <<sheet, r, i, bfs, mnemonics, fields, words>>

BADSame(op) == <<"BAD">>
BAD(op) == <<"BAD", op>>
\* "sanity check bit field substitution definitions", then all fields are zero.
CheckSubstitutions ==
  /\ pc = "check"
  /\ LET Bad(k) == \/ bfs[k][1] \notin Range(bf_names)
                   \/ bf_sizes(IndexOf(bf_names, bfs[k][1])) # bfs[k][2]
     IN IF \E k \in DOMAIN bfs : Bad(k) THEN End("substitution not found or size mismatch")
        ELSE /\ pc' = "rows"
             /\ mnemonics' = [op \in Opcode |-> BAD(op)]
             /\ fields' = [op \in Opcode |-> [k \in DOMAIN bf |-> Zeros(bf_sizes(k))]]
             /\ UNCHANGED <<sheet, r, i, bfs, bf, words>>

NoBits == <<>>
\* The bits of a cell of field k.
Substituted(k, cell) ==
  LET values == bfs[IndexOf(bfs_names, bf_names[k])][3]
      value == IF cell = "." THEN values[1] ELSE cell
  IN IF value \in Range(values) THEN Bits(IndexOf(values, value) - 1, bf_sizes(k)) ELSE NoBits
Plain(k, cell) ==
  CASE cell = "." -> Bits(0, bf_sizes(k))
    [] cell = "x" -> Bits(1, bf_sizes(k))
    [] OTHER -> IF cell \in DOMAIN Number THEN Bits(Number[cell], bf_sizes(k)) ELSE NoBits
CellBits(k, cell) == IF bf_names[k] \in Range(bfs_names) THEN Substituted(k, cell) ELSE Plain(k, cell)

\* A later row for an opcode replaces an earlier one, cell by cell.
ReadCell ==
  /\ pc = "rows" /\ r <= Len(sheet.rows)
  /\ LET row == sheet.rows[r]
         bits == CellBits(i, row.cells[i])
     IN IF row.opcode \notin Opcode THEN End("IndexError")
        ELSE IF bits = NoBits
        THEN pc' = "bad value" /\ mnemonics' = [mnemonics EXCEPT ![row.opcode] = row.mnemonic]
             /\ UNCHANGED <<sheet, r, i, bfs, bf, fields, words>>
        ELSE /\ mnemonics' = [mnemonics EXCEPT ![row.opcode] = row.mnemonic]
             /\ fields' = [fields EXCEPT ![row.opcode][i] = bits]
             /\ IF i < Len(bf) THEN i' = i + 1 /\ UNCHANGED r ELSE i' = 1 /\ r' = r + 1
             /\ UNCHANGED <<sheet, pc, bfs, bf, words>>

\* "convert instruction definitions to simple vectors": each field is put
\* before what is there, so the first one holds the lowest bits.
VectorOfReversed(op) == FlattenSeq(Reverse(fields[op]))
VectorOf(op) == FlattenSeq(fields[op])
WriteVectors ==
  /\ pc = "rows" /\ r > Len(sheet.rows)
  /\ words' = [op \in Opcode |-> VectorOf(op)]
  /\ pc' = "done" /\ UNCHANGED <<sheet, r, i, bfs, bf, mnemonics, fields>>

Next == ReadSubstitution \/ ReadFields \/ CheckSubstitutions \/ ReadCell \/ WriteVectors
Spec == Init /\ [][Next]_vars

------------------------------------------------------------------------------
(* What is written.  A device has no word of another width.                 *)

NoData == <<>>
data_xilinx(opcode) ==
  IF \A op \in Opcode : Len(words[op]) = bit_width THEN words[opcode] ELSE NoData
data_intelReversed(opcode) == Reverse(words[opcode])
\* The line of the memory file for an opcode.
mif(op) == words[op]
data_intel(opcode) ==
  IF bit_width = LPM_WIDTH /\ \A op \in Opcode : Len(mif(op)) = LPM_WIDTH THEN mif(opcode) ELSE NoData

\* The slice of the word a port is assigned to.
Below(k) == SumOf([f \in 1 .. k-1 |-> bf_sizes(f)])
Slice(data, k) == IF data = NoData THEN NoData ELSE SubSeq(data, Below(k) + 1, Below(k) + bf_sizes(k))
slice_intel(k, opcode) == Slice(data_intel(opcode), k)
slice_xilinx(k, opcode) == Slice(data_xilinx(opcode), k)

\* The constant ID_<field>_<value> of the package.
IDFromOne(k, value) == Bits(IndexOf(bfs[k][3], value), bfs[k][2])
ID(k, value) == Bits(IndexOf(bfs[k][3], value) - 1, bfs[k][2])

\* The enumeration mnemonic_type, and the signal that shows one of it.
mnemonic_type == [op \in Opcode |-> mnemonics[op]]

------------------------------------------------------------------------------
(* Properties.                                                             *)

TypeOK ==
  /\ r \in 1 .. Len(sheet.rows) + Len(sheet.substs) + 1
  /\ i \in 1 .. Len(sheet.fields)
  /\ \A op \in DOMAIN fields : /\ Len(fields[op]) = Len(bf)
                               /\ \A k \in DOMAIN bf : Len(fields[op][k]) >= bf_sizes(k)
  /\ Len(bfs) <= Len(sheet.substs)

Rows(op) == {k \in DOMAIN sheet.rows : sheet.rows[k].opcode = op}
LastRow(op) == sheet.rows[CHOOSE k \in Rows(op) : \A l \in Rows(op) : l <= k]
Value(bits) == SumOf([k \in DOMAIN bits |-> bits[k] * 2^(k-1)])
Substs == {sheet.substs[k][1] : k \in DOMAIN sheet.substs}
ValuesOf(name) == (CHOOSE d \in Range(sheet.substs) : d[1] = name)[3]
MeantNumber(cell) == IF cell = "." THEN 0 ELSE IF cell = "x" THEN 1 ELSE Number[cell]
Fits(k, cell) ==
  LET name == sheet.fields[k][1] IN
  IF name \in Substs THEN cell \in Range(ValuesOf(name)) \cup {"."}
  ELSE cell \in DOMAIN Number \cup {".", "x"} /\ MeantNumber(cell) < 2^Number[sheet.fields[k][2]]
AllFit == \A row \in Range(sheet.rows) : \A k \in DOMAIN sheet.fields : Fits(k, row.cells[k])

\* If the cells fit, the ports of the Xilinx decoder show, for every opcode,
\* the last row the sheet has for it, and zeros where there is none.
PortsShowTheSheet ==
  (pc = "done" /\ AllFit) => \A op \in Opcode, k \in DOMAIN bf :
    LET shown == slice_xilinx(k, op) IN
    IF Rows(op) = {} THEN Value(shown) = 0
    ELSE LET cell == LastRow(op).cells[k] IN
         IF bf_names[k] \notin Substs THEN Value(shown) = MeantNumber(cell)
         ELSE Value(shown) = IF cell = "." THEN 0 ELSE IndexOf(ValuesOf(bf_names[k]), cell) - 1

\* The core compares a port with the constant of a value: it is equal exactly
\* for the opcodes whose row has that value, "." standing for the first.
ConstantsMeanTheirValues ==
  (pc = "done" /\ AllFit) => \A op \in Opcode, s \in DOMAIN bfs :
    LET k == IndexOf(bf_names, bfs[s][1])
        cell == IF Rows(op) = {} THEN "." ELSE LastRow(op).cells[k]
        named == IF cell = "." THEN bfs[s][3][1] ELSE cell
    IN \A value \in Range(bfs[s][3]) : (slice_xilinx(k, op) = ID(s, value)) = (value = named)

\* A decoder is only made of a sheet whose substitutions belong to fields of
\* their size and name every pattern of it.
OnlyCompleteSubstitutions ==
  pc = "done" => \A d \in Range(sheet.substs) :
    \E f \in Range(sheet.fields) : f[1] = d[1] /\ f[2] = d[2] /\ Len(d[3]) = 2^Number[d[2]]

\* Both decoders show the same, if the sheet has the width the Intel entity
\* has written into it.
BuildsAgree ==
  (pc = "done" /\ AllFit /\ bit_width = LPM_WIDTH) =>
    \A op \in Opcode, k \in DOMAIN bf :
      slice_intel(k, op) = slice_xilinx(k, op) /\ slice_intel(k, op) # NoData

\* mnemonic_type is an enumeration: its literals differ, if the sheet names
\* no instruction twice.
MnemonicsDiffer ==
  (pc = "done" /\ \A a, b \in DOMAIN sheet.rows : sheet.rows[a].mnemonic = sheet.rows[b].mnemonic => a = b) =>
    Cardinality(Range(mnemonic_type)) = OPCODES
=============================================================================
