---------------------------- MODULE RamInit_proofs -----------------------------
(***************************************************************************)
(* That the package of np6532_ram_init.py gives the processor the bytes of *)
(* the files, for every number of banks, length of a row, size of the RAM  *)
(* and command line: however many files there are, where they lie and how  *)
(* they overlap.                                                           *)
(***************************************************************************)
EXTENDS RamInit, SequenceTheorems, TLAPS

\* A command line is a number and any number of arguments, addresses and files
\* in turn; the last may be an address without a file.
IsCommandLine(line) ==
  /\ line.size \in Int
  /\ line.args \in Seq(Int \cup Seq(Int))
  /\ \A k \in 1 .. Len(line.args) : IF k % 2 = 1 THEN line.args[k] \in Int
                                                 ELSE line.args[k] \in Seq(Int)

\* A supported RAM is whole rows of all banks: 64, 128 or 256 times 1024 bytes,
\* in 4 banks of rows of 16 bytes.
Given ==
  /\ BANKS \in Nat \ {0} /\ ROW \in Nat \ {0} /\ K \in Nat \ {0} /\ LOW \in Int
  /\ SIZES \subseteq Nat \ {0}
  /\ \A size \in SIZES : (K * size) % (BANKS * ROW) = 0
  /\ \A line \in CommandLines : IsCommandLine(line)

(***************************************************************************)
(* The inductive invariant.                                                *)
(***************************************************************************)
Reading == {"load", "write", "done"}

\* The pairs taken are the first ones of the command line.
PairsInv ==
  /\ command \in CommandLines /\ i \in 0 .. Len(command.args)
  /\ contents \in Seq(Int \X Seq(Int)) /\ 2 * Len(contents) <= Len(command.args)
  /\ \A k \in 1 .. Len(contents) : /\ contents[k][1] = command.args[2*k - 1]
                                   /\ contents[k][2] = command.args[2*k]
                                   /\ contents[k][1] \in 0 .. Size - 1
  /\ vector_init \in Int
  /\ contents # <<>> /\ pc # "bad address" => vector_init = contents[Len(contents)][1]
  /\ pc \in {"size", "args"} => i = 2 * Len(contents)
  /\ pc \notin {"size", "TypeError"} => command.size \in SIZES

\* When the files are read, all pairs have been taken and the last address is
\* in the bottom 64k.
TakenInv ==
  pc \in Reading => /\ contents # <<>> /\ vector_init < LOW
                    /\ Len(command.args) < 2 * Len(contents) + 2

\* The addresses of a file, and what n files leave at an address: the byte of
\* the last that covers it.
Extent(f) == contents[f][1] .. contents[f][1] + Len(contents[f][2]) - 1
LaidBy(f, a, n) ==
  /\ a \in Extent(f) /\ data[a] = contents[f][2][a - contents[f][1] + 1]
  /\ \A g \in f + 1 .. n : a \notin Extent(g)
Untouched(a, n) == data[a] = 0 /\ \A f \in 1 .. n : a \notin Extent(f)
Laid(n) ==
  /\ \A f \in 1 .. n : contents[f][1] + Len(contents[f][2]) <= Size
  /\ \A a \in Addresses : Untouched(a, n) \/ \E f \in 1 .. n : LaidBy(f, a, n)
DataInv ==
  /\ pc \in Reading => data \in [Addresses -> Int] /\ i \in 0 .. Len(contents) /\ Laid(i)
  /\ pc \in {"write", "done"} => i = Len(contents)

\* What is printed of bank b.
Printed(b) ==
  IF pc = "done" \/ (pc = "write" /\ b < bank) THEN Rows * ROW
  ELSE IF pc = "write" /\ b = bank THEN row * ROW ELSE 0
PrintInv ==
  /\ bank \in 0 .. BANKS - 1 /\ row \in Nat
  /\ pc \in {"size", "args", "load"} => bank = 0 /\ row = 0
  /\ pc \in {"write", "done"} => row < Rows
  /\ out \in [0 .. BANKS - 1 -> Seq(Int)]
  /\ \A b \in 0 .. BANKS - 1 :
       /\ Len(out[b]) = Printed(b)
       /\ \A k \in 1 .. Len(out[b]) : out[b][k] = data[(k - 1)*BANKS + b]

PcInv == pc \in {"size", "args", "load", "write", "done", "TypeError", "bad address",
                 "NameError", "init vector outside bottom 64k", "IndexError"}
IInv == PcInv /\ PairsInv /\ TakenInv /\ DataInv /\ PrintInv

(***************************************************************************)
(* Arithmetic: rows, banks and addresses.                                  *)
(***************************************************************************)
LEMMA Quotient ==
  ASSUME NEW B \in Nat \ {0}, NEW x \in Nat
  PROVE  \E q \in Nat : \E r \in 0 .. B - 1 : x = q * B + r /\ x % B = r /\ x \div B = q
<1>1. x \div B \in Nat /\ x - B * (x \div B) \in 0 .. B - 1
  OBVIOUS
<1>2. PICK q \in Nat : q = x \div B
  BY <1>1
<1>3. PICK r \in 0 .. B - 1 : r = x - B * q
  BY <1>1, <1>2
<1>4. x = q * B + r
  BY <1>3
<1>5. x % B = r
  BY <1>4
<1> QED
  BY <1>2, <1>4, <1>5

LEMMA NoPlaces == 1 .. 0 = {}
OBVIOUS

\* The RAM of a supported size is whole rows of all banks.
LEMMA SizeIs ==
  ASSUME Given, command.size \in SIZES
  PROVE  /\ Rows \in Nat \ {0} /\ Size \in Nat \ {0}
         /\ Size = Rows * (BANKS * ROW)
<1>1. PICK B \in Nat \ {0}, W \in Nat \ {0}, u \in Nat \ {0}, s \in Nat \ {0} :
        B = BANKS /\ W = ROW /\ u = K /\ s = command.size
  BY DEF Given
<1>2. PICK t \in Nat \ {0} : t = B * W
  BY <1>1
<1>3. PICK z \in Nat \ {0} : z = u * s
  BY <1>1
<1>4. z % t = 0
  BY <1>1, <1>2, <1>3 DEF Given
<1>5. PICK q \in Nat : \E r \in 0 .. t - 1 : z = q * t + r /\ z % t = r /\ z \div t = q
  BY <1>2, <1>3, Quotient
<1>6. z = q * t /\ z \div t = q
  BY <1>4, <1>5
<1>7. q # 0
  BY <1>3, <1>6
<1>8. Size = z /\ Rows = q
  BY <1>1, <1>2, <1>3, <1>6 DEF Size, Rows
<1> QED
  BY <1>1, <1>2, <1>3, <1>6, <1>7, <1>8

\* The byte an address is fetched from.
LEMMA FetchPlace ==
  ASSUME NEW B \in Nat \ {0}, NEW W \in Nat \ {0}, NEW R \in Nat \ {0},
         NEW a \in 0 .. R * (B * W) - 1
  PROVE  /\ a % B \in 0 .. B - 1 /\ (a \div B) + 1 \in 1 .. R * W
         /\ (((a \div B) + 1) - 1) * B + (a % B) = a
<1>0. PICK l \in Nat \ {0} : l = R * W
  OBVIOUS
<1>1. R * (B * W) = l * B
  BY <1>0
<1>2. a \in Nat /\ a < l * B
  BY <1>0, <1>1
<1>3. PICK q \in Nat : \E r \in 0 .. B - 1 : a = q * B + r /\ a % B = r /\ a \div B = q
  BY <1>2, Quotient
<1>4. PICK r \in 0 .. B - 1 : a = q * B + r /\ a % B = r
  BY <1>3
<1>5. q < l
  <2>1. SUFFICES ASSUME q >= l PROVE FALSE
    BY <1>0
  <2>2. q * B >= l * B
    BY <2>1, <1>0
  <2> QED
    BY <1>2, <1>4, <2>2
<1> QED
  BY <1>0, <1>3, <1>4, <1>5

\* Where a row that is printed next comes from and goes to.
LEMMA RowPlace ==
  ASSUME NEW B \in Nat \ {0}, NEW W \in Nat \ {0}, NEW r \in Nat, NEW b \in Nat, NEW k \in 1 .. W
  PROVE  /\ r * W \in Nat /\ (r + 1) * W = r * W + W
         /\ r * B * W + (k - 1) * B + b = (((r * W) + k) - 1) * B + b
OBVIOUS

(***************************************************************************)
(* The steps.                                                              *)
(***************************************************************************)
\* Before anything is printed.
LEMMA NothingPrinted ==
  ASSUME IInv, pc \in {"size", "args", "load"}
  PROVE  \A b \in 0 .. BANKS - 1 : Len(out[b]) = 0
BY DEF IInv, PrintInv, Printed

\* While nothing is printed, nothing is.
LEMMA StillNothing ==
  ASSUME IInv, pc \in {"size", "args", "load"}, pc' \notin {"write", "done"},
         UNCHANGED <<bank, row, out>>
  PROVE  PrintInv'
<1>1. UNCHANGED <<bank, row, out>> /\ pc' \notin {"write", "done"}
  OBVIOUS
<1>2. \A b \in 0 .. BANKS - 1 : Len(out[b]) = 0
  BY NothingPrinted
<1>3. /\ bank = 0 /\ row = 0
      /\ bank \in 0 .. BANKS - 1 /\ row \in Nat /\ out \in [0 .. BANKS - 1 -> Seq(Int)]
  BY DEF IInv, PrintInv
<1>4. pc' \notin {"write", "done"}
  BY <1>1
<1>5. ASSUME NEW b \in 0 .. BANKS - 1
      PROVE  /\ Len(out'[b]) = Printed(b)'
             /\ \A k \in 1 .. Len(out'[b]) : out'[b][k] = data'[(k - 1)*BANKS + b]
  <2>1. Len(out'[b]) = 0
    BY <1>1, <1>2
  <2>2. Printed(b)' = 0
    BY <1>4 DEF Printed
  <2>3. \A k \in 1 .. Len(out'[b]) : out'[b][k] = data'[(k - 1)*BANKS + b]
    <3>1. 1 .. Len(out'[b]) = {}
      BY <2>1, NoPlaces
    <3> QED
      BY <3>1
  <2>4. Len(out'[b]) = Printed(b)'
    BY <2>1, <2>2
  <2> QED
    BY <2>3, <2>4
<1>6. /\ bank' \in 0 .. BANKS - 1 /\ row' \in Nat /\ out' \in [0 .. BANKS - 1 -> Seq(Int)]
      /\ pc' \in {"write", "done"} => row' < Rows'
      /\ bank' = 0 /\ row' = 0
  BY <1>1, <1>3, <1>4
<1> QED
  BY <1>5, <1>6 DEF PrintInv

\* The program ends with a message or an exception.
LEMMA EndsEarly ==
  ASSUME Given, IInv, pc \in {"size", "args", "load"},
         NEW how, End(how),
         how \in {"TypeError", "NameError", "init vector outside bottom 64k", "IndexError"},
         pc = "size" => how = "TypeError"
  PROVE  IInv'
<1>1. /\ pc' = how
      /\ UNCHANGED <<command, i, contents, vector_init, data, bank, row, out>>
  BY DEF End
<1>2. pc' \notin Reading \cup {"size", "args", "bad address"}
  BY <1>1 DEF Reading
<1>3. Size' = Size
  BY <1>1 DEF Size
<1>4. PairsInv'
  <2>1. PairsInv /\ pc # "bad address" /\ pc # "TypeError"
    BY DEF IInv
  <2> QED
    BY <1>1, <1>2, <1>3, <2>1 DEF PairsInv
<1>5. TakenInv' /\ DataInv' /\ PcInv'
  BY <1>1, <1>2 DEF TakenInv, DataInv, PcInv, Reading
<1>6. PrintInv'
  BY <1>1, <1>2, StillNothing DEF Reading
<1> QED
  BY <1>4, <1>5, <1>6 DEF IInv

LEMMA InitStep == ASSUME Given, Init PROVE IInv
<1>1. /\ command \in CommandLines
      /\ pc = "size" /\ i = 0 /\ contents = <<>> /\ vector_init = -1
      /\ data = <<>> /\ bank = 0 /\ row = 0 /\ out = [b \in 0 .. BANKS-1 |-> <<>>]
  BY DEF Init
<1>2. command.args \in Seq(Int \cup Seq(Int)) /\ Len(command.args) \in Nat
  BY <1>1, LenProperties DEF Given, IsCommandLine
<1>3. PairsInv
  BY <1>1, <1>2, EmptySeq DEF PairsInv
<1>4. TakenInv /\ DataInv /\ PcInv
  BY <1>1 DEF TakenInv, DataInv, Reading, PcInv
<1>5. PrintInv
  <2>1. BANKS \in Nat \ {0}
    BY DEF Given
  <2>2. \A b \in 0 .. BANKS - 1 : out[b] = <<>> /\ Len(out[b]) = 0 /\ Printed(b) = 0
    BY <1>1, EmptySeq DEF Printed
  <2>3. out \in [0 .. BANKS - 1 -> Seq(Int)]
    BY <1>1, EmptySeq
  <2> QED
    BY <1>1, <2>1, <2>2, <2>3 DEF PrintInv
<1> QED
  BY <1>3, <1>4, <1>5 DEF IInv

LEMMA CheckSizeStep == ASSUME Given, IInv, CheckSize PROVE IInv'
<1>1. pc = "size"
  BY DEF CheckSize
<1>2. CASE command.size \notin SIZES
  BY <1>1, <1>2, EndsEarly DEF CheckSize
<1>3. CASE command.size \in SIZES
  <2>1. /\ pc' = "args"
        /\ UNCHANGED <<command, i, contents, vector_init, data, bank, row, out>>
    BY <1>3 DEF CheckSize, End
  <2>2. Size' = Size
    BY <2>1 DEF Size
  <2>3. PairsInv'
    BY <1>1, <1>3, <2>1, <2>2 DEF IInv, PairsInv
  <2>4. PrintInv'
    BY <1>1, <2>1, StillNothing
  <2>5. TakenInv' /\ DataInv' /\ PcInv'
    BY <2>1 DEF TakenInv, DataInv, PcInv, Reading
  <2> QED
    BY <2>3, <2>4, <2>5 DEF IInv
<1> QED
  BY <1>2, <1>3

\* What is known of the next two arguments.
LEMMA NextArgs ==
  ASSUME Given, IInv, pc = "args", MoreArgs
  PROVE  /\ i \in Nat /\ i = 2 * Len(contents) /\ Len(contents) \in Nat
         /\ command.args[i + 1] \in Int /\ command.args[i + 2] \in Seq(Int)
         /\ Len(command.args) \in Nat /\ i + 2 <= Len(command.args)
<1>1. /\ command \in CommandLines /\ i = 2 * Len(contents)
      /\ contents \in Seq(Int \X Seq(Int)) /\ 2 * Len(contents) <= Len(command.args)
  BY DEF IInv, PairsInv
<1>2. IsCommandLine(command)
  BY <1>1 DEF Given
<1>3. PICK n \in Nat, m \in Nat : n = Len(contents) /\ m = Len(command.args)
  BY <1>1, <1>2, LenProperties DEF IsCommandLine
<1>4. i = 2 * n /\ i + 2 <= m
  BY <1>1, <1>3 DEF MoreArgs
<1>5. /\ i + 1 \in 1 .. m /\ (i + 1) % 2 = 1
      /\ i + 2 \in 1 .. m /\ (i + 2) % 2 = 0
  BY <1>3, <1>4
<1>6. command.args[i + 1] \in Int /\ command.args[i + 2] \in Seq(Int)
  BY <1>2, <1>3, <1>5 DEF IsCommandLine
<1> QED
  BY <1>1, <1>3, <1>4, <1>6

LEMMA TakeArgsStep == ASSUME Given, IInv, TakeArgs PROVE IInv'
<1>1. /\ pc = "args" /\ MoreArgs
      /\ UNCHANGED <<command, data, bank, row, out>>
  BY DEF TakeArgs
<1>2. /\ i \in Nat /\ i = 2 * Len(contents) /\ Len(contents) \in Nat
      /\ command.args[i + 1] \in Int /\ command.args[i + 2] \in Seq(Int)
      /\ Len(command.args) \in Nat /\ i + 2 <= Len(command.args)
  BY <1>1, NextArgs
<1>3. PairsInv
  BY DEF IInv
<1>4. Size' = Size
  BY <1>1 DEF Size
<1>5. /\ pc' \in {"args", "bad address"} /\ PairsInv'
  <2>1. CASE command.args[i + 1] < 0 \/ command.args[i + 1] >= Size
    <3>1. pc' = "bad address" /\ vector_init' = command.args[i + 1] /\ UNCHANGED <<i, contents>>
      BY <2>1 DEF TakeArgs
    <3>2. vector_init' \in Int /\ pc' \notin {"size", "args"}
      BY <1>2, <3>1
    <3> QED
      BY <1>1, <1>3, <1>4, <3>1, <3>2 DEF PairsInv
  <2>2. CASE ~(command.args[i + 1] < 0 \/ command.args[i + 1] >= Size)
    <3>1. /\ contents' = Append(contents, <<command.args[i + 1], command.args[i + 2]>>)
          /\ vector_init' = command.args[i + 1] /\ i' = i + 2 /\ pc' = "args"
      BY <1>1, <2>2 DEF TakeArgs
    <3>2. PICK addr \in Int, file \in Seq(Int) :
            addr = command.args[i + 1] /\ file = command.args[i + 2]
      BY <1>2
    <3>3. PICK n \in Nat : n = Len(contents)
      BY <1>2
    <3>4. contents \in Seq(Int \X Seq(Int)) /\ <<addr, file>> \in Int \X Seq(Int)
      BY <1>3, <3>2 DEF PairsInv
    <3>5. /\ contents' \in Seq(Int \X Seq(Int)) /\ Len(contents') = n + 1
          /\ \A k \in 1 .. n : contents'[k] = contents[k]
          /\ contents'[n + 1] = <<addr, file>>
      <4> DEFINE S == Int \X Seq(Int)
      <4>1. PICK s \in Seq(S), e \in S : s = contents /\ e = <<addr, file>>
        BY <3>4
      <4>2. contents' = Append(s, e) /\ Len(s) = n
        BY <3>1, <3>2, <3>3, <4>1
      <4>3. /\ Append(s, e) \in Seq(S) /\ Len(Append(s, e)) = n + 1
            /\ \A k \in 1 .. n : Append(s, e)[k] = s[k]
            /\ Append(s, e)[n + 1] = e
        <5> HIDE DEF S
        <5> QED
          BY <4>2, AppendProperties
      <4> QED
        BY <4>1, <4>2, <4>3
    <3>6. Size \in Int
      BY <1>1, <1>3 DEF PairsInv, Given, IsCommandLine, Size
    <3>7. addr \in 0 .. Size - 1
      BY <2>2, <3>2, <3>6
    <3>8. ASSUME NEW k \in 1 .. n + 1
          PROVE  /\ contents'[k][1] = command.args[2*k - 1]
                 /\ contents'[k][2] = command.args[2*k]
                 /\ contents'[k][1] \in 0 .. Size - 1
      <4>1. CASE k = n + 1
        <5>1. 2*k - 1 = i + 1 /\ 2*k = i + 2
          BY <1>2, <3>3, <4>1
        <5> QED
          BY <3>2, <3>5, <3>7, <4>1, <5>1
      <4>2. CASE k # n + 1
        <5>1. k \in 1 .. n
          BY <4>2
        <5> QED
          BY <1>3, <3>3, <3>5, <5>1 DEF PairsInv
      <4> QED
        BY <4>1, <4>2
    <3>9. /\ 2 * (n + 1) <= Len(command.args) /\ i' = 2 * (n + 1)
      BY <1>2, <3>1, <3>3
    <3>10. vector_init' = contents'[n + 1][1] /\ vector_init' \in Int
      BY <3>1, <3>2, <3>5
    <3>11. command \in CommandLines /\ command.size \in SIZES
      BY <1>1, <1>3 DEF PairsInv
    <3> QED
      <4>1. i' \in 0 .. Len(command'.args) /\ i' = 2 * Len(contents')
        BY <1>1, <1>2, <3>1, <3>3, <3>5, <3>9
      <4>2. 2 * Len(contents') <= Len(command'.args) /\ contents' # <<>>
        BY <1>1, <1>2, <3>3, <3>5, <3>9, EmptySeq
      <4> QED
        BY <1>1, <1>4, <3>1, <3>5, <3>8, <3>10, <3>11, <4>1, <4>2 DEF PairsInv
  <2> QED
    BY <2>1, <2>2
<1>6. PrintInv'
  BY <1>1, <1>5, StillNothing
<1>7. TakenInv' /\ DataInv' /\ PcInv'
  BY <1>5 DEF TakenInv, DataInv, PcInv, Reading
<1> QED
  BY <1>5, <1>6, <1>7 DEF IInv

LEMMA CheckVectorStep == ASSUME Given, IInv, CheckVector PROVE IInv'
<1>1. pc = "args" /\ ~MoreArgs
  BY DEF CheckVector
<1>2. CASE contents = <<>> \/ ~VectorBelow
  <2>1. \/ End("NameError")
        \/ End("init vector outside bottom 64k")
    BY <1>2 DEF CheckVector
  <2> QED
    BY <1>1, <2>1, EndsEarly
<1>3. CASE contents # <<>> /\ VectorBelow
  <2>1. /\ pc' = "load" /\ i' = 0
        /\ data' = [a \in Addresses |-> 0]
        /\ UNCHANGED <<command, contents, vector_init, bank, row, out>>
    BY <1>3 DEF CheckVector
  <2>2. Size' = Size /\ Addresses' = Addresses
    BY <2>1 DEF Size, Addresses
  <2>3. PairsInv
    BY DEF IInv
  <2>4. PairsInv'
    BY <1>1, <2>1, <2>2, <2>3 DEF PairsInv
  <2>5. PICK n \in Nat, m \in Nat : n = Len(contents) /\ m = Len(command.args)
    BY <2>3, LenProperties DEF PairsInv, Given, IsCommandLine
  <2>6. TakenInv'
    <3>1. i = 2 * n /\ ~(i < m - 1)
      BY <1>1, <2>3, <2>5 DEF PairsInv, MoreArgs
    <3>2. m < 2 * n + 2
      BY <3>1
    <3> QED
      BY <1>3, <2>1, <2>5, <3>2 DEF TakenInv, VectorBelow
  <2>7. DataInv'
    <3>1. data' \in [Addresses -> Int] /\ i' \in 0 .. n
      BY <2>1
    <3>2. \A a \in Addresses : data'[a] = 0
      BY <2>1
    <3>3. \A f \in 1 .. 0 : FALSE
      BY NoPlaces
    <3>4. Laid(i)'
      BY <2>1, <2>2, <3>2, <3>3 DEF Laid, Untouched
    <3> QED
      BY <2>1, <2>2, <2>5, <3>1, <3>4 DEF DataInv
  <2>8. PrintInv' /\ PcInv'
    BY <1>1, <2>1, StillNothing DEF PcInv
  <2> QED
    BY <2>4, <2>6, <2>7, <2>8 DEF IInv
<1> QED
  BY <1>2, <1>3

\* A file is laid over what was there.
LEMMA LoadFileStep == ASSUME Given, IInv, LoadFile PROVE IInv'
<1>1. pc = "load" /\ i < Len(contents)
  BY DEF LoadFile
<1>2. PairsInv /\ TakenInv /\ DataInv
  BY DEF IInv
<1>3. PICK n \in Nat, j \in Nat : n = Len(contents) /\ j = i /\ j < n
  <2>1. Len(contents) \in Nat
    BY <1>2, LenProperties DEF PairsInv
  <2> QED
    BY <1>1, <1>2, <2>1 DEF DataInv, Reading
<1>4. PICK addr \in Nat, bytes \in Seq(Int) :
        /\ addr = contents[j + 1][1] /\ bytes = contents[j + 1][2] /\ addr \in 0 .. Size - 1
  <2>1. j + 1 \in 1 .. n
    BY <1>3
  <2>2. contents[j + 1] \in Int \X Seq(Int) /\ contents[j + 1][1] \in 0 .. Size - 1
    BY <1>2, <1>3, <2>1, ElementOfSeq DEF PairsInv
  <2> QED
    BY <2>2
<1>5. PICK l \in Nat : l = Len(bytes)
  BY <1>4, LenProperties
<1>6. CASE addr + l > Size
  <2>1. End("IndexError")
    BY <1>3, <1>4, <1>5, <1>6 DEF LoadFile
  <2> QED
    BY <1>1, <2>1, EndsEarly
<1>7. CASE ~(addr + l > Size)
  <2>1. /\ data' = [a \in Addresses |-> IF a \in addr .. addr+l-1 THEN bytes[a-addr+1] ELSE data[a]]
        /\ i' = j + 1
        /\ UNCHANGED <<command, pc, contents, vector_init, bank, row, out>>
    BY <1>3, <1>4, <1>5, <1>7 DEF LoadFile
  <2>2. Size' = Size /\ Addresses' = Addresses
    BY <2>1 DEF Size, Addresses
  <2>3. PairsInv'
    <3>1. 2 * n <= Len(command.args) /\ Len(command.args) \in Nat
      BY <1>2, <1>3, LenProperties DEF PairsInv, Given, IsCommandLine
    <3>2. i' \in 0 .. Len(command'.args)
      BY <1>3, <2>1, <3>1
    <3> QED
      BY <1>1, <1>2, <2>1, <2>2, <3>2 DEF PairsInv
  <2>4. TakenInv' /\ PrintInv' /\ PcInv'
    <3>1. TakenInv'
      BY <1>2, <2>1 DEF TakenInv
    <3>2. PrintInv'
      BY <1>1, <2>1, StillNothing
    <3>3. PcInv'
      BY <1>1, <2>1 DEF PcInv
    <3> QED
      BY <3>1, <3>2, <3>3
  <2>5. data \in [Addresses -> Int] /\ Laid(j)
    BY <1>1, <1>2, <1>3 DEF DataInv, Reading
  <2>6. \A a \in addr .. addr + l - 1 : bytes[a - addr + 1] \in Int
    <3> TAKE a \in addr .. addr + l - 1
    <3>1. a - addr + 1 \in 1 .. l
      OBVIOUS
    <3> QED
      BY <1>4, <1>5, <3>1, ElementOfSeq
  <2>7. data' \in [Addresses -> Int]
    BY <2>1, <2>5, <2>6
  <2>8. \A f : Extent(f)' = Extent(f)
    BY <2>1 DEF Extent
  <2>9. Extent(j + 1) = addr .. addr + l - 1
    BY <1>4, <1>5 DEF Extent
  <2>10. Size \in Int
    <3>1. command \in CommandLines
      BY <1>2 DEF PairsInv
    <3>2. command.size \in Int /\ K \in Int
      BY <3>1 DEF Given, IsCommandLine
    <3> QED
      BY <3>2 DEF Size
  <2>11. \A f \in 1 .. j + 1 : contents'[f][1] + Len(contents'[f][2]) <= Size
    <3> TAKE f \in 1 .. j + 1
    <3>1. CASE f = j + 1
      BY <1>4, <1>5, <1>7, <2>1, <2>10, <3>1
    <3>2. CASE f # j + 1
      <4>1. f \in 1 .. j
        BY <3>2
      <4> QED
        BY <2>1, <2>5, <4>1 DEF Laid
    <3> QED
      BY <3>1, <3>2
  <2>12. ASSUME NEW a \in Addresses
         PROVE  Untouched(a, j + 1)' \/ \E f \in 1 .. j + 1 : LaidBy(f, a, j + 1)'
    <3>1. CASE a \in Extent(j + 1)
      <4>1. data'[a] = bytes[a - addr + 1]
        BY <2>1, <2>9, <3>1
      <4>2. \A g \in (j + 1) + 1 .. j + 1 : FALSE
        OBVIOUS
      <4>3. LaidBy(j + 1, a, j + 1)'
        BY <1>4, <2>1, <2>8, <3>1, <4>1, <4>2 DEF LaidBy
      <4>4. j + 1 \in 1 .. j + 1
        OBVIOUS
      <4> QED
        BY <4>3, <4>4
    <3>2. CASE a \notin Extent(j + 1)
      <4>1. data'[a] = data[a]
        BY <2>1, <2>9, <3>2
      <4>2. CASE Untouched(a, j)
        <5>1. \A f \in 1 .. j + 1 : f \in 1 .. j \/ f = j + 1
          OBVIOUS
        <5> QED
          BY <2>8, <3>2, <4>1, <4>2, <5>1 DEF Untouched
      <4>3. ASSUME NEW f \in 1 .. j, LaidBy(f, a, j) PROVE LaidBy(f, a, j + 1)'
        <5>1. \A g \in f + 1 .. j + 1 : g \in f + 1 .. j \/ g = j + 1
          OBVIOUS
        <5>2. \A g \in f + 1 .. j + 1 : a \notin Extent(g)'
          BY <2>8, <3>2, <4>3, <5>1 DEF LaidBy
        <5>3. a \in Extent(f)' /\ data'[a] = contents'[f][2][a - contents'[f][1] + 1]
          BY <2>1, <2>8, <4>1, <4>3 DEF LaidBy
        <5> QED
          BY <5>2, <5>3 DEF LaidBy
      <4>4. \A f \in 1 .. j : f \in 1 .. j + 1
        OBVIOUS
      <4>5. Untouched(a, j) \/ \E f \in 1 .. j : LaidBy(f, a, j)
        BY <2>5 DEF Laid
      <4> QED
        BY <4>2, <4>3, <4>4, <4>5
    <3> QED
      BY <3>1, <3>2
  <2>13. Laid(i)'
    BY <2>1, <2>2, <2>11, <2>12 DEF Laid
  <2>14. DataInv'
    <3>1. i' \in 0 .. Len(contents')
      BY <1>3, <2>1
    <3>2. pc' \notin {"write", "done"}
      BY <1>1, <2>1
    <3> QED
      BY <2>2, <2>7, <2>13, <3>1, <3>2 DEF DataInv
  <2> QED
    BY <2>3, <2>4, <2>14 DEF IInv
<1> QED
  BY <1>6, <1>7

LEMMA LoadedStep == ASSUME Given, IInv, Loaded PROVE IInv'
<1>1. /\ pc = "load" /\ pc' = "write" /\ i = Len(contents)
      /\ UNCHANGED <<command, i, contents, vector_init, data, bank, row, out>>
  BY DEF Loaded, End
<1>2. PairsInv /\ TakenInv /\ DataInv /\ PrintInv
  BY DEF IInv
<1>3. Size' = Size /\ Addresses' = Addresses /\ Rows' = Rows
  BY <1>1 DEF Size, Addresses, Rows
<1>4. PairsInv'
  BY <1>1, <1>2, <1>3 DEF PairsInv
<1>5. TakenInv'
  BY <1>1, <1>2 DEF TakenInv, Reading
<1>6. Laid(i)'
  <2>1. Laid(i)
    BY <1>1, <1>2 DEF DataInv, Reading
  <2> QED
    BY <1>1, <1>3, <2>1 DEF Laid, LaidBy, Untouched, Extent
<1>7. DataInv'
  BY <1>1, <1>2, <1>3, <1>6 DEF DataInv, Reading
<1>8. command.size \in SIZES
  BY <1>1, <1>2 DEF PairsInv
<1>9. PrintInv'
  <2>1. /\ bank = 0 /\ row = 0 /\ bank \in 0 .. BANKS - 1
        /\ out \in [0 .. BANKS - 1 -> Seq(Int)]
    BY <1>1, <1>2 DEF PrintInv
  <2>2. Rows \in Nat \ {0}
    BY <1>8, SizeIs
  <2>3. ASSUME NEW b \in 0 .. BANKS - 1
        PROVE  /\ Len(out'[b]) = Printed(b)'
               /\ \A k \in 1 .. Len(out'[b]) : out'[b][k] = data'[(k - 1)*BANKS + b]
    <3>1. Len(out'[b]) = 0
      BY <1>1, NothingPrinted
    <3>2. b \in Nat /\ ROW \in Nat
      BY DEF Given
    <3>3. 0 * ROW = 0
      BY <3>2
    <3>4. Printed(b)' = 0
      BY <1>1, <2>1, <3>2, <3>3 DEF Printed
    <3>5. 1 .. Len(out'[b]) = {}
      BY <3>1, NoPlaces
    <3> QED
      BY <3>1, <3>4, <3>5
  <2>4. /\ bank' \in 0 .. BANKS - 1 /\ row' = 0 /\ row' \in Nat /\ row' < Rows'
        /\ out' \in [0 .. BANKS - 1 -> Seq(Int)] /\ pc' = "write"
    BY <1>1, <1>3, <2>1, <2>2
  <2> QED
    BY <2>3, <2>4 DEF PrintInv
<1>10. PcInv'
  BY <1>1 DEF PcInv
<1> QED
  BY <1>4, <1>5, <1>7, <1>9, <1>10 DEF IInv

\* A row is printed behind the others of its bank.
LEMMA WriteRowStep == ASSUME Given, IInv, WriteRow PROVE IInv'
<1>1. /\ pc = "write"
      /\ out' = [out EXCEPT ![bank] = @ \o RowBytes(bank, row)]
      /\ UNCHANGED <<command, i, contents, vector_init, data>>
  BY DEF WriteRow
<1>2. PairsInv /\ TakenInv /\ DataInv /\ PrintInv
  BY DEF IInv
<1>3. Size' = Size /\ Addresses' = Addresses /\ Rows' = Rows
  BY <1>1 DEF Size, Addresses, Rows
<1>4. command.size \in SIZES
  BY <1>1, <1>2 DEF PairsInv
<1>5. PICK B \in Nat \ {0}, W \in Nat \ {0}, R \in Nat \ {0} :
        B = BANKS /\ W = ROW /\ R = Rows /\ Size = R * (B * W)
  BY <1>4, SizeIs DEF Given
<1>6. PICK b \in 0 .. B - 1, r \in 0 .. R - 1 : b = bank /\ r = row
  BY <1>1, <1>2, <1>5 DEF PrintInv
<1>7. data \in [Addresses -> Int] /\ Addresses = 0 .. Size - 1
  BY <1>1, <1>2 DEF DataInv, Reading, Addresses
<1>8. out \in [0 .. B - 1 -> Seq(Int)]
  BY <1>2, <1>5 DEF PrintInv
<1>9. PICK line : line = RowBytes(b, r)
  OBVIOUS
<1>10. /\ line \in Seq(Int) /\ Len(line) = W
       /\ \A k \in 1 .. W : line[k] = data[(((r * W) + k) - 1) * B + b]
  <2>1. line = [k \in 1 .. W |-> data[r * B * W + (k - 1) * B + b]]
    BY <1>5, <1>9 DEF RowBytes
  <2>2. ASSUME NEW k \in 1 .. W
        PROVE  /\ r * B * W + (k - 1) * B + b = (((r * W) + k) - 1) * B + b
               /\ (((r * W) + k) - 1) * B + b \in 0 .. Size - 1
    <3>1. r * B * W + (k - 1) * B + b = (((r * W) + k) - 1) * B + b
      BY RowPlace
    <3>2. PICK l \in Nat, p \in Nat : l = R * W /\ p = ((r * W) + k) - 1
      BY RowPlace
    <3>3. p < l
      <4>1. (r + 1) * W <= R * W
        <5>1. PICK d \in Nat : R = (r + 1) + d
          <6>1. R - (r + 1) \in Nat
            OBVIOUS
          <6> QED
            BY <6>1
        <5>2. R * W = (r + 1) * W + d * W /\ d * W \in Nat
          BY <5>1
        <5> QED
          BY <5>2
      <4>2. (r + 1) * W = r * W + W /\ r * W \in Nat
        BY RowPlace
      <4> QED
        BY <3>2, <4>1, <4>2
    <3>4. R * (B * W) = l * B
      BY <3>2
    <3>5. p * B + b < l * B /\ p * B + b \in Nat
      <4>1. PICK d \in Nat : l = (p + 1) + d
        <5>1. l - (p + 1) \in Nat
          BY <3>3
        <5> QED
          BY <5>1
      <4>2. l * B = (p + 1) * B + d * B /\ d * B \in Nat
        BY <4>1
      <4>3. (p + 1) * B = p * B + B /\ p * B \in Nat
        OBVIOUS
      <4> QED
        BY <4>2, <4>3
    <3> QED
      BY <1>5, <3>1, <3>2, <3>4, <3>5
  <2>3. \A k \in 1 .. W : line[k] = data[(((r * W) + k) - 1) * B + b]
    BY <2>1, <2>2
  <2>4. \A k \in 1 .. W : line[k] \in Int
    BY <1>7, <2>2, <2>3
  <2>5. line \in [1 .. W -> Int]
    BY <2>1, <2>4
  <2> QED
    BY <2>3, <2>5, LenProperties, SeqDef
<1>11. PICK rw \in Nat, full \in Nat : rw = r * W /\ full = R * W
  BY RowPlace
<1>12. ASSUME NEW c \in 0 .. B - 1
       PROVE  /\ out[c] \in Seq(Int)
              /\ Len(out[c]) = IF c < b THEN full ELSE IF c = b THEN rw ELSE 0
              /\ \A k \in 1 .. Len(out[c]) : out[c][k] = data[(k - 1)*B + c]
  <2>1. /\ Len(out[c]) = Printed(c)
        /\ \A k \in 1 .. Len(out[c]) : out[c][k] = data[(k - 1)*B + c]
    BY <1>2, <1>5 DEF PrintInv
  <2>2. Printed(c) = IF c < b THEN full ELSE IF c = b THEN rw ELSE 0
    BY <1>1, <1>5, <1>6, <1>11 DEF Printed
  <2> QED
    BY <1>8, <2>1, <2>2
<1>13. ASSUME NEW c \in 0 .. B - 1
       PROVE  /\ out'[c] \in Seq(Int)
              /\ Len(out'[c]) = IF c < b THEN full ELSE IF c = b THEN rw + W ELSE 0
              /\ \A k \in 1 .. Len(out'[c]) : out'[c][k] = data[(k - 1)*B + c]
  <2>1. CASE c # b
    <3>1. out'[c] = out[c]
      BY <1>1, <1>6, <1>8, <2>1
    <3> QED
      BY <1>12, <2>1, <3>1
  <2>2. CASE c = b
    <3>1. out'[b] = out[b] \o line
      BY <1>1, <1>6, <1>8, <1>9
    <3>2. /\ out[b] \in Seq(Int) /\ Len(out[b]) = rw
          /\ \A k \in 1 .. rw : out[b][k] = data[(k - 1)*B + b]
      <4>1. Len(out[b]) = rw
        BY <1>6, <1>12
      <4>2. out[b] \in Seq(Int) /\ \A k \in 1 .. Len(out[b]) : out[b][k] = data[(k - 1)*B + b]
        BY <1>6, <1>12
      <4> QED
        BY <4>1, <4>2
    <3>3. /\ out'[b] \in Seq(Int) /\ Len(out'[b]) = rw + W
          /\ \A k \in 1 .. rw + W : out'[b][k] = IF k <= rw THEN out[b][k] ELSE line[k - rw]
      <4>1. PICK old \in Seq(Int), new \in Seq(Int) :
              old = out[b] /\ new = line /\ Len(old) = rw /\ Len(new) = W
        BY <1>10, <3>2
      <4>2. out'[b] = old \o new
        BY <3>1, <4>1
      <4>3. /\ old \o new \in Seq(Int) /\ Len(old \o new) = Len(old) + Len(new)
            /\ \A k \in 1 .. Len(old) + Len(new) :
                 (old \o new)[k] = IF k <= Len(old) THEN old[k] ELSE new[k - Len(old)]
        BY ConcatProperties
      <4> QED
        BY <4>1, <4>2, <4>3
    <3>4. ASSUME NEW k \in 1 .. rw + W PROVE out'[b][k] = data[(k - 1)*B + b]
      <4>1. CASE k <= rw
        BY <3>2, <3>3, <4>1
      <4>2. CASE k > rw
        <5>1. PICK m \in 1 .. W : k = rw + m /\ m = k - rw
          <6>1. k - rw \in 1 .. W
            BY <4>2
          <6> QED
            BY <6>1
        <5>2. out'[b][k] = line[m]
          BY <3>3, <4>2, <5>1
        <5>3. line[m] = data[(((r * W) + m) - 1) * B + b]
          BY <1>10
        <5> QED
          BY <1>11, <5>1, <5>2, <5>3
      <4> QED
        BY <4>1, <4>2
    <3> QED
      BY <2>2, <3>3, <3>4
  <2> QED
    BY <2>1, <2>2
<1>14. out' \in [0 .. B - 1 -> Seq(Int)]
  <2>1. DOMAIN out' = 0 .. B - 1 /\ out' = [c \in 0 .. B - 1 |-> out'[c]]
    BY <1>1, <1>8
  <2> QED
    BY <1>13, <2>1
<1>15. rw + W = (r + 1) * W /\ (r = R - 1 => rw + W = full)
  <2>1. (r + 1) * W = rw + W
    BY <1>11, RowPlace
  <2> QED
    BY <1>11, <2>1
<1>16. /\ bank' \in 0 .. B - 1 /\ row' \in 0 .. R - 1 /\ pc' \in {"write", "done"}
       /\ \A c \in 0 .. B - 1 : Printed(c)' = IF c < b THEN full ELSE IF c = b THEN rw + W ELSE 0
  <2>1. CASE r < R - 1
    <3>1. row' = r + 1 /\ pc' = "write" /\ bank' = b
      BY <1>1, <1>5, <1>6, <2>1 DEF WriteRow, MoreRows
    <3>2. \A c \in 0 .. B - 1 : Printed(c)' = IF c < b THEN full ELSE IF c = b THEN rw + W ELSE 0
      BY <1>3, <1>5, <1>11, <1>15, <3>1 DEF Printed
    <3> QED
      BY <2>1, <3>1, <3>2
  <2>2. CASE r = R - 1 /\ b < B - 1
    <3>1. row' = 0 /\ pc' = "write" /\ bank' = b + 1
      BY <1>1, <1>5, <1>6, <2>2 DEF WriteRow, MoreRows
    <3>2. 0 * W = 0 /\ rw + W = full
      BY <1>15, <2>2
    <3>3. \A c \in 0 .. B - 1 : Printed(c)' = IF c < b THEN full ELSE IF c = b THEN rw + W ELSE 0
      BY <1>3, <1>5, <1>11, <3>1, <3>2 DEF Printed
    <3> QED
      BY <2>2, <3>1, <3>3
  <2>3. CASE r = R - 1 /\ b = B - 1
    <3>1. row' = 0 /\ pc' = "done" /\ bank' = b
      BY <1>1, <1>5, <1>6, <2>3 DEF WriteRow, MoreRows
    <3>2. rw + W = full
      BY <1>15, <2>3
    <3>3. \A c \in 0 .. B - 1 : Printed(c)' = IF c < b THEN full ELSE IF c = b THEN rw + W ELSE 0
      BY <1>3, <1>5, <1>11, <2>3, <3>1, <3>2 DEF Printed
    <3> QED
      BY <3>1, <3>3
  <2> QED
    BY <2>1, <2>2, <2>3
<1>17. PrintInv'
  <2>1. ASSUME NEW c \in 0 .. B - 1
        PROVE  /\ Len(out'[c]) = Printed(c)'
               /\ \A k \in 1 .. Len(out'[c]) : out'[c][k] = data'[(k - 1)*BANKS + c]
    <3>1. Printed(c)' = IF c < b THEN full ELSE IF c = b THEN rw + W ELSE 0
      BY <1>16
    <3>2. Len(out'[c]) = Printed(c)'
      BY <1>13, <3>1
    <3>3. \A k \in 1 .. Len(out'[c]) : out'[c][k] = data[(k - 1)*B + c]
      BY <1>13
    <3>4. data' = data /\ BANKS = B
      BY <1>1, <1>5
    <3> QED
      BY <3>2, <3>3, <3>4
  <2>2. row' \in Nat /\ row' < Rows' /\ pc' \notin {"size", "args", "load"}
    BY <1>3, <1>5, <1>16
  <2> QED
    BY <1>5, <1>14, <1>16, <2>1, <2>2 DEF PrintInv
<1>18. PairsInv'
  BY <1>1, <1>2, <1>3, <1>16 DEF PairsInv
<1>19. TakenInv'
  BY <1>1, <1>2, <1>16 DEF TakenInv, Reading
<1>20. DataInv'
  <2>1. Laid(i)'
    <3>1. Laid(i)
      BY <1>1, <1>2 DEF DataInv, Reading
    <3> QED
      BY <1>1, <1>3, <3>1 DEF Laid, LaidBy, Untouched, Extent
  <2> QED
    BY <1>1, <1>2, <1>3, <1>16, <2>1 DEF DataInv, Reading
<1>21. PcInv'
  BY <1>16 DEF PcInv
<1> QED
  BY <1>17, <1>18, <1>19, <1>20, <1>21 DEF IInv

LEMMA StepIInv == ASSUME Given, IInv, [Next]_vars PROVE IInv'
<1>1. CASE CheckSize
  BY <1>1, CheckSizeStep
<1>2. CASE TakeArgs
  BY <1>2, TakeArgsStep
<1>3. CASE CheckVector
  BY <1>3, CheckVectorStep
<1>4. CASE LoadFile
  BY <1>4, LoadFileStep
<1>5. CASE Loaded
  BY <1>5, LoadedStep
<1>6. CASE WriteRow
  BY <1>6, WriteRowStep
<1>7. CASE UNCHANGED vars
  <2>1. UNCHANGED <<command, pc, i, contents, vector_init, data, bank, row, out>>
    BY <1>7 DEF vars
  <2>2. Size' = Size /\ Addresses' = Addresses /\ Rows' = Rows
    BY <2>1 DEF Size, Addresses, Rows
  <2>3. PcInv' /\ PairsInv' /\ TakenInv'
    BY <2>1, <2>2 DEF IInv, PcInv, PairsInv, TakenInv
  <2>4. Laid(i)' = Laid(i)
    BY <2>1, <2>2 DEF Laid, LaidBy, Untouched, Extent
  <2>5. DataInv'
    BY <2>1, <2>2, <2>4 DEF IInv, DataInv
  <2>6. PrintInv'
    BY <2>1, <2>2 DEF IInv, PrintInv, Printed
  <2> QED
    BY <2>3, <2>5, <2>6 DEF IInv
<1> QED
  BY <1>1, <1>2, <1>3, <1>4, <1>5, <1>6, <1>7 DEF Next

(***************************************************************************)
(* What the invariant implies.                                             *)
(***************************************************************************)
LEMMA InvariantHolds == ASSUME Given PROVE Spec => []IInv
<1>1. Init => IInv
  BY InitStep
<1>2. IInv /\ [Next]_vars => IInv'
  BY StepIInv
<1> QED
  BY <1>1, <1>2, PTL DEF Spec

\* What a processor fetches is what the files left in the RAM.
LEMMA FetchIs ==
  ASSUME Given, IInv, pc = "done"
  PROVE  \A a \in Addresses : Fetch(a) = data[a]
<1>1. command.size \in SIZES
  BY DEF IInv, PairsInv
<1>2. PICK B \in Nat \ {0}, W \in Nat \ {0}, R \in Nat \ {0} :
        B = BANKS /\ W = ROW /\ R = Rows /\ Size = R * (B * W)
  BY <1>1, SizeIs DEF Given
<1>3. ASSUME NEW a \in Addresses PROVE Fetch(a) = data[a]
  <2>1. a \in 0 .. R * (B * W) - 1
    BY <1>2 DEF Addresses
  <2>2. PICK b \in 0 .. B - 1, k \in 1 .. R * W :
          b = a % B /\ k = (a \div B) + 1 /\ (k - 1) * B + b = a
    BY <2>1, FetchPlace
  <2>3. Len(out[b]) = R * W
    BY <1>2, <2>2 DEF IInv, PrintInv, Printed
  <2>4. out[b][k] = data[(k - 1) * B + b]
    BY <1>2, <2>2, <2>3 DEF IInv, PrintInv
  <2> QED
    BY <1>2, <2>2, <2>4 DEF Fetch
<1> QED
  BY <1>3

\* The pairs of the command line are those in contents.
LEMMA AllPairsTaken ==
  ASSUME Given, IInv, pc = "done"
  PROVE  /\ Len(contents) \in Nat \ {0} /\ Len(command.args) \div 2 = Len(contents)
         /\ \A f \in 1 .. Len(contents) :
              Extent(f) = command.args[2*f-1] .. command.args[2*f-1] + Len(command.args[2*f]) - 1
<1>1. PairsInv /\ TakenInv /\ command \in CommandLines
  BY DEF IInv, PairsInv
<1>2. PICK n \in Nat, m \in Nat : n = Len(contents) /\ m = Len(command.args)
  BY <1>1, LenProperties DEF PairsInv, Given, IsCommandLine
<1>3. n # 0
  BY <1>1, <1>2, EmptySeq DEF PairsInv, TakenInv, Reading
<1>4. 2 * n <= m /\ m < 2 * n + 2
  BY <1>1, <1>2 DEF PairsInv, TakenInv, Reading
<1>5. m \div 2 = n
  BY <1>4
<1>6. \A f \in 1 .. n :
        Extent(f) = command.args[2*f-1] .. command.args[2*f-1] + Len(command.args[2*f]) - 1
  BY <1>1, <1>2 DEF PairsInv, Extent
<1> QED
  BY <1>2, <1>3, <1>5, <1>6

LEMMA InvImpliesTypeOK == ASSUME Given, IInv PROVE TypeOK
<1>1. PICK n \in Nat, m \in Nat : n = Len(contents) /\ m = Len(command.args)
  BY LenProperties DEF IInv, PairsInv, Given, IsCommandLine
<1>2. 2 * n <= m /\ i \in 0 .. m /\ vector_init \in Int
  BY <1>1 DEF IInv, PairsInv
<1>3. n <= m \div 2
  BY <1>2
<1>4. /\ bank \in 0 .. BANKS - 1 /\ row \in Nat
      /\ pc \in {"write", "done"} => row < Rows
  BY DEF IInv, PrintInv
<1>5. ASSUME pc \in {"write", "done"}, NEW b \in 0 .. BANKS - 1
      PROVE  Len(out[b]) <= Rows * ROW
  <2>1. command.size \in SIZES
    BY <1>5 DEF IInv, PairsInv
  <2>2. PICK W \in Nat \ {0}, R \in Nat \ {0}, r \in Nat : W = ROW /\ R = Rows /\ r = row /\ r < R
    <3>1. ROW \in Nat \ {0} /\ Rows \in Nat \ {0} /\ row \in Nat /\ row < Rows
      <4>1. ROW \in Nat \ {0} /\ Rows \in Nat \ {0}
        BY <2>1, SizeIs DEF Given
      <4> QED
        BY <1>4, <1>5, <4>1
    <3> QED
      BY <3>1
  <2>3. PICK rw \in Nat, full \in Nat : rw = r * W /\ full = R * W /\ rw <= full
    <3>1. PICK d \in Nat : R = r + d
      <4>1. R - r \in Nat
        BY <2>2
      <4> QED
        BY <4>1
    <3>2. R * W = r * W + d * W /\ r * W \in Nat /\ d * W \in Nat
      BY <2>2, <3>1
    <3> QED
      BY <3>2
  <2>4. Len(out[b]) = Printed(b)
    BY DEF IInv, PrintInv
  <2>5. Len(out[b]) \in {rw, full, 0}
    BY <2>2, <2>3, <2>4 DEF Printed
  <2> QED
    BY <2>2, <2>3, <2>5
<1>6. pc \in {"size", "args", "load", "write", "done", "TypeError", "bad address",
             "NameError", "init vector outside bottom 64k", "IndexError"}
  BY DEF IInv, PcInv
<1>7. Len(contents) <= Len(command.args) \div 2 /\ i \in 0 .. Len(command.args)
  BY <1>1, <1>2, <1>3
<1> QED
  BY <1>2, <1>4, <1>5, <1>6, <1>7 DEF TypeOK

\* Types, and how much of a bank is printed (TypeOK).
THEOREM TypeCorrect == ASSUME Given PROVE Spec => []TypeOK
<1>1. IInv => TypeOK
  BY InvImpliesTypeOK
<1> QED
  BY <1>1, InvariantHolds, PTL

\* Every byte the processor can fetch is that of the last file that covers its
\* address, and zero where there is none (ProcessorSeesTheFiles).
THEOREM FilesAreSeen == ASSUME Given PROVE Spec => []ProcessorSeesTheFiles
<1>1. IInv => ProcessorSeesTheFiles
  <2> SUFFICES ASSUME IInv, pc = "done", NEW a \in Addresses
               PROVE  Fetch(a) = IF Covering(a) = {} THEN 0
                                 ELSE LET f == CHOOSE f \in Covering(a) : \A g \in Covering(a) : g <= f
                                      IN command.args[2*f][a - command.args[2*f-1] + 1]
    BY DEF ProcessorSeesTheFiles
  <2>1. PICK n \in Nat \ {0} : n = Len(contents) /\ Len(command.args) \div 2 = n
    BY AllPairsTaken
  <2>2. Covering(a) = {f \in 1 .. n : a \in Extent(f)}
    BY <2>1, AllPairsTaken DEF Covering
  <2>3. Fetch(a) = data[a]
    BY FetchIs
  <2>4. Laid(n)
    BY <2>1 DEF IInv, DataInv, Reading
  <2>5. CASE Untouched(a, n)
    <3>1. Covering(a) = {} /\ data[a] = 0
      BY <2>2, <2>5 DEF Untouched
    <3> QED
      BY <2>3, <3>1
  <2>6. ASSUME NEW f \in 1 .. n, LaidBy(f, a, n)
        PROVE  Fetch(a) = IF Covering(a) = {} THEN 0
                          ELSE LET h == CHOOSE h \in Covering(a) : \A g \in Covering(a) : g <= h
                               IN command.args[2*h][a - command.args[2*h-1] + 1]
    <3>1. f \in Covering(a)
      BY <2>2, <2>6 DEF LaidBy
    <3>2. ASSUME NEW g \in Covering(a) PROVE g <= f
      <4>1. g \in 1 .. n /\ a \in Extent(g)
        BY <2>2
      <4>2. ~(g \in f + 1 .. n)
        BY <2>6, <4>1 DEF LaidBy
      <4> QED
        BY <4>1, <4>2
    <3>3. \A h \in Covering(a) : (\A g \in Covering(a) : g <= h) => h = f
      <4> TAKE h \in Covering(a)
      <4>1. h \in 1 .. n /\ h <= f
        BY <2>2, <3>2
      <4>2. (\A g \in Covering(a) : g <= h) => f <= h
        BY <3>1
      <4> QED
        BY <4>1, <4>2
    <3>4. (CHOOSE h \in Covering(a) : \A g \in Covering(a) : g <= h) = f
      BY <3>1, <3>2, <3>3
    <3>5. data[a] = contents[f][2][a - contents[f][1] + 1]
      BY <2>6 DEF LaidBy
    <3>6. contents[f][1] = command.args[2*f - 1] /\ contents[f][2] = command.args[2*f]
      BY <2>1 DEF IInv, PairsInv
    <3>7. Covering(a) # {}
      BY <3>1
    <3> QED
      BY <2>3, <3>4, <3>5, <3>6, <3>7
  <2>7. Untouched(a, n) \/ \E f \in 1 .. n : LaidBy(f, a, n)
    BY <2>4 DEF Laid
  <2> QED
    BY <2>5, <2>6, <2>7
<1> QED
  BY <1>1, InvariantHolds, PTL

\* No package is written of files that do not fit, or whose last address, the
\* one execution starts at, is outside the bottom 64k (OnlyGoodLayouts).
THEOREM LayoutsAreGood == ASSUME Given PROVE Spec => []OnlyGoodLayouts
<1>1. IInv => OnlyGoodLayouts
  <2> SUFFICES ASSUME IInv, pc = "done" PROVE OnlyGoodLayouts
    BY DEF OnlyGoodLayouts
  <2>1. Laid(Len(contents))
    BY DEF IInv, DataInv, Reading
  <2>2. contents # <<>> /\ vector_init < LOW /\ vector_init = contents[Len(contents)][1]
    BY DEF IInv, TakenInv, PairsInv, Reading
  <2> QED
    BY <2>1, <2>2 DEF OnlyGoodLayouts, Laid
<1> QED
  BY <1>1, InvariantHolds, PTL

\* The three together: for every command line of files, the types, the memory the
\* processor sees, and no package of files that do not fit.
THEOREM PackageIsRight ==
  ASSUME Given
  PROVE  Spec => [](TypeOK /\ ProcessorSeesTheFiles /\ OnlyGoodLayouts)
BY TypeCorrect, FilesAreSeen, LayoutsAreGood, PTL
=============================================================================
