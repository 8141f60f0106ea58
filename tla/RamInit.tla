------------------------------- MODULE RamInit --------------------------------
(***************************************************************************)
(* np6532_ram_init.py builds the VHDL package with the initial contents of *)
(* the RAM of the np6532, whose bytes are spread over four banks, from     *)
(* binary files given with their addresses.  A step handles one pair of    *)
(* arguments, one file, or one row of the package.                         *)
(***************************************************************************)
EXTENDS Integers, Sequences

CONSTANTS
  BANKS,        \* byte banks, 4
  ROW,          \* bytes printed in a row of the package, 16
  K,            \* bytes in a unit of ram_size, 1024; a RAM is whole rows of all banks
  SIZES,        \* the ram sizes supported: 64, 128 and 256
  LOW,          \* the vector must be below this address, 2**16
  CommandLines  \* the command lines considered: [size, args]

VARIABLES
  command,      \* what the program was called with; args are addresses, each
                \* followed by the bytes of its file
  pc,           \* the part being run, or how the program ended
  i,            \* arguments handled, or files loaded
  contents,     \* pairs of address and file
  vector_init,
  data,         \* the RAM
  bank, row,    \* what is printed next
  out           \* what is printed, per bank
vars == <<command, pc, i, contents, vector_init, data, bank, row, out>>

Size == K * command.size
Addresses == 0 .. Size-1
Rows == Size \div (BANKS * ROW)            \* ram_size*16
NoFile == {}

Init ==
  /\ command \in CommandLines
  /\ pc = "size" /\ i = 0 /\ contents = <<>> /\ vector_init = -1
  /\ data = <<>> /\ bank = 0 /\ row = 0 /\ out = [b \in 0 .. BANKS-1 |-> <<>>]

End(how) == pc' = how /\ UNCHANGED <<command, i, contents, vector_init, data, bank, row, out>>

\* The message for a bad size joins a string and a number: TypeError.
CheckSize == pc = "size" /\ IF command.size \in SIZES THEN End("args") ELSE End("TypeError")

\* while i < len(sys.argv)-1: an address that is the last argument ends the
\* loop, so the message for a missing file name is never printed.
MoreArgs == i < Len(command.args) - 1
TakeArgs ==
  /\ pc = "args" /\ MoreArgs
  /\ LET addr == command.args[i+1] IN
     IF addr < 0 \/ addr >= Size
     THEN pc' = "bad address" /\ vector_init' = addr /\ UNCHANGED <<i, contents>>
     ELSE /\ contents' = Append(contents, <<addr, command.args[i+2]>>)
          /\ vector_init' = addr /\ i' = i + 2
          /\ UNCHANGED pc
  /\ UNCHANGED <<command, data, bank, row, out>>

FirstBelow  == contents[1][1] < LOW       \* the first address looked at
VectorBelow == vector_init < LOW
\* Without a pair vector_init has no value: NameError.
CheckVector ==
  /\ pc = "args" /\ ~MoreArgs
  /\ IF contents = <<>> THEN End("NameError")
     ELSE IF ~VectorBelow THEN End("init vector outside bottom 64k")
     ELSE /\ pc' = "load" /\ i' = 0
          /\ data' = [a \in Addresses |-> 0]
          /\ UNCHANGED <<command, contents, vector_init, bank, row, out>>

\* "load binary file(s)": a file that reaches over the end of the RAM ends the
\* program with an IndexError.
LoadFile ==
  /\ pc = "load" /\ i < Len(contents)
  /\ LET addr == contents[i+1][1]
         bytes == contents[i+1][2] IN
     IF addr + Len(bytes) > Size THEN End("IndexError")
     ELSE /\ data' = [a \in Addresses |->
                        IF a \in addr .. addr+Len(bytes)-1 THEN bytes[a-addr+1] ELSE data[a]]
          /\ i' = i + 1
          /\ UNCHANGED <<command, pc, contents, vector_init, bank, row, out>>
Loaded == pc = "load" /\ i = Len(contents) /\ End("write")

\* row_bytes
RowBytesPacked(b, r) == [k \in 1 .. ROW |-> data[(b*Rows + r)*ROW + k-1]]
RowBytes(b, r) == [k \in 1 .. ROW |-> data[r*BANKS*ROW + (k-1)*BANKS + b]]
MoreRowsLate == row < Rows
MoreRows     == row < Rows-1
WriteRow ==
  /\ pc = "write"
  /\ out' = [out EXCEPT ![bank] = @ \o RowBytes(bank, row)]
  /\ IF MoreRows THEN row' = row + 1 /\ UNCHANGED <<pc, bank>>
     ELSE /\ row' = 0
          /\ IF bank < BANKS-1 THEN bank' = bank + 1 /\ UNCHANGED pc
             ELSE pc' = "done" /\ UNCHANGED bank
  /\ UNCHANGED <<command, i, contents, vector_init, data>>

Next == CheckSize \/ TakeArgs \/ CheckVector \/ LoadFile \/ Loaded \/ WriteRow
Spec == Init /\ [][Next]_vars

\* np6532_ram.vhd: the byte at address a is in the bank of its two low bits.
Fetch(a) == out[a % BANKS][(a \div BANKS) + 1]

------------------------------------------------------------------------------
(* Properties.                                                             *)

TypeOK ==
  /\ pc \in {"size", "args", "load", "write", "done", "TypeError", "bad address",
             "NameError", "init vector outside bottom 64k", "IndexError"}
  /\ i \in 0 .. Len(command.args)
  /\ Len(contents) <= Len(command.args) \div 2
  /\ vector_init \in Int
  /\ bank \in 0 .. BANKS-1 /\ row \in Nat
  /\ pc \in {"write", "done"} => /\ row < Rows
                                /\ \A b \in 0 .. BANKS-1 : Len(out[b]) <= Rows * ROW

\* Every byte the processor can fetch is that of the last file laid over its
\* address, and zero where there is none.
Covering(a) == {f \in 1 .. Len(command.args) \div 2 :
                  a \in command.args[2*f-1] .. command.args[2*f-1] + Len(command.args[2*f]) - 1}
ProcessorSeesTheFiles ==
  pc = "done" => \A a \in Addresses :
    Fetch(a) = IF Covering(a) = {} THEN 0
               ELSE LET f == CHOOSE f \in Covering(a) : \A g \in Covering(a) : g <= f
                    IN command.args[2*f][a - command.args[2*f-1] + 1]

\* No package is written of files that do not fit, or whose last address, the
\* one execution starts at, is outside the bottom 64k.
OnlyGoodLayouts ==
  pc = "done" => /\ \A k \in 1 .. Len(contents) : contents[k][1] + Len(contents[k][2]) <= Size
                 /\ contents[Len(contents)][1] < LOW
=============================================================================
