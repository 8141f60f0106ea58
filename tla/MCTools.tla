------------------------------- MODULE MCTools --------------------------------
(* The programs of the repository that generate tables and decoders, each     *)
(* with inputs of its own.  A behaviour is a run of one of them (tool); the   *)
(* variables of the others are "idle", those of random_1to1.py at its start.  *)
EXTENDS Random1to1

CONSTANTS
  BodyLengths, MaxErrors,                              \* HdmiBch
  BANKS, ROW, K, SIZES, LOW, CommandLines,             \* RamInit
  BYTE, CHARS, Calls,                                  \* CharRom
  Types, Names, Sheet, Encodings,                      \* VideoMode
  OPCODES, LPM_WIDTH, Number, Sheets                   \* Np65Decoder

VARIABLES
  tool,
  D, cnt, tmds, tmds_terc4, tmds_ctrl, tmds_gb, code_pc,
  clock, reg, len, errors, k, q,
  command, ram_pc, ram_i, contents, vector_init, data, bank, row, ram_out,
  call, rom_pc, rgb_fg, c, py, char_data, rom,
  encoding, mode_pc, types, mode_i, mode_j, table, mode, ports,
  sheet, dec_pc, r, dec_i, bfs, bf, mnemonics, fields, words

Code    == INSTANCE TmdsCode WITH pc <- code_pc
Bch     == INSTANCE HdmiBch
Ram     == INSTANCE MCRamInit WITH pc <- ram_pc, i <- ram_i, out <- ram_out
Rom     == INSTANCE MCCharRom WITH pc <- rom_pc
Mode    == INSTANCE MCVideoMode WITH pc <- mode_pc, i <- mode_i, j <- mode_j
Decoder == INSTANCE MCNp65Decoder WITH pc <- dec_pc, i <- dec_i

\* Their inputs, each of an instance that does not have them.
RamInput     == INSTANCE MCRamInit WITH pc <- ram_pc, i <- ram_i, out <- ram_out, CommandLines <- {}
RomInput     == INSTANCE MCCharRom WITH pc <- rom_pc, Calls <- {}
ModeInput    == INSTANCE MCVideoMode WITH pc <- mode_pc, i <- mode_i, j <- mode_j,
                  Types <- {}, Names <- {}, Sheet <- {}
DecoderInput == INSTANCE MCNp65Decoder WITH pc <- dec_pc, i <- dec_i, Number <- {}, Sheets <- {}
RamCommandLines == RamInput!MCCommandLines
RomCalls        == RomInput!MCCalls
ModeTypeRow     == ModeInput!MCTypes
ModeNameRow     == ModeInput!MCNames
ModeSheet       == ModeInput!MCSheet
DecoderNumber   == DecoderInput!MCNumber
DecoderSheets   == DecoderInput!MCSheets

code    == <<D, cnt, tmds, tmds_terc4, tmds_ctrl, tmds_gb, code_pc>>
bch     == <<clock, reg, len, errors, k, q>>
ram     == <<command, ram_pc, ram_i, contents, vector_init, data, bank, row, ram_out>>
romVars == <<call, rom_pc, rgb_fg, c, py, char_data, rom>>
modes   == <<encoding, mode_pc, types, mode_i, mode_j, table, mode, ports>>
decoder == <<sheet, dec_pc, r, dec_i, bfs, bf, mnemonics, fields, words>>
all     == <<tool, vars, code, bch, ram, romVars, modes, decoder>>

idle == "idle"
CodeIdle ==
  /\ D = idle /\ cnt = idle /\ tmds = idle /\ tmds_terc4 = idle /\ tmds_ctrl = idle /\ tmds_gb = idle
  /\ code_pc = idle
BchIdle ==
  clock = idle /\ reg = idle /\ len = idle /\ errors = idle /\ k = idle /\ q = idle
RamIdle ==
  /\ command = idle /\ ram_pc = idle /\ ram_i = idle /\ contents = idle /\ vector_init = idle
  /\ data = idle /\ bank = idle /\ row = idle /\ ram_out = idle
RomIdle ==
  /\ call = idle /\ rom_pc = idle /\ rgb_fg = idle /\ c = idle /\ py = idle
  /\ char_data = idle /\ rom = idle
ModeIdle ==
  /\ encoding = idle /\ mode_pc = idle /\ types = idle /\ mode_i = idle /\ mode_j = idle
  /\ table = idle /\ mode = idle /\ ports = idle
DecoderIdle ==
  /\ sheet = idle /\ dec_pc = idle /\ r = idle /\ dec_i = idle /\ bfs = idle /\ bf = idle
  /\ mnemonics = idle /\ fields = idle /\ words = idle

ToolsInit ==
  /\ tool \in {"random", "code", "bch", "ram", "rom", "mode", "decoder"}
  /\ Init
  /\ IF tool = "code" THEN Code!Init ELSE CodeIdle
  /\ IF tool = "bch" THEN Bch!Init ELSE BchIdle
  /\ IF tool = "ram" THEN Ram!Init ELSE RamIdle
  /\ IF tool = "rom" THEN Rom!Init ELSE RomIdle
  /\ IF tool = "mode" THEN Mode!Init ELSE ModeIdle
  /\ IF tool = "decoder" THEN Decoder!Init ELSE DecoderIdle

ToolsNext ==
  /\ UNCHANGED tool
  /\ \/ tool = "random" /\ Next /\ UNCHANGED <<code, bch, ram, romVars, modes, decoder>>
     \/ tool = "code" /\ Code!Next /\ UNCHANGED <<vars, bch, ram, romVars, modes, decoder>>
     \/ tool = "bch" /\ Bch!Next /\ UNCHANGED <<vars, code, ram, romVars, modes, decoder>>
     \/ tool = "ram" /\ Ram!Next /\ UNCHANGED <<vars, code, bch, romVars, modes, decoder>>
     \/ tool = "rom" /\ Rom!Next /\ UNCHANGED <<vars, code, bch, ram, modes, decoder>>
     \/ tool = "mode" /\ Mode!Next /\ UNCHANGED <<vars, code, bch, ram, romVars, decoder>>
     \/ tool = "decoder" /\ Decoder!Next /\ UNCHANGED <<vars, code, bch, ram, romVars, modes>>

ToolsSpec == ToolsInit /\ [][ToolsNext]_all

------------------------------------------------------------------------------
(* What each program promises, as one invariant of its runs; TableIsRight of  *)
(* Random1to1 is here as it is.                                               *)

\* tmds_enc.py and spec/tmds.py: the bytes noted are what a receiver makes of
\* their characters; the tables of the client are those the generator produces,
\* and overlap in the way the decode of a capture rests on.
CodeTablesAgree ==
  tool = "code" =>
    /\ Code!DecodesBack
    /\ Code!TableIsGenerated
    /\ Code!OtherTablesAgree
    /\ Code!TablesOverlapAsDecoded

\* hdmi_bch_ecc.py and bch_ecc of tmds_cap.py: the equations of the client are
\* those of the shift register, and no header or subpacket with up to MaxErrors
\* damaged bits passes for a sound one.
DamageIsSeen == tool = "bch" => Bch!TypeOK /\ Bch!EquationsAreGenerated /\ Bch!DamageIsSeen

\* np6532_ram_init.py: every byte the processor can fetch is that of the last
\* file laid over its address; and no package is written of files that do not
\* fit, or whose last address is outside the bottom 64k.
ProcessorSeesTheFiles ==
  tool = "ram" => Ram!TypeOK /\ Ram!ProcessorSeesTheFiles /\ Ram!OnlyGoodLayouts

\* char_rom.py: the ROM shows the characters as they are drawn, in reading
\* order, with the rarer colour as ink; and no good image is turned away.
RomShowsTheImage ==
  tool = "rom" => Rom!TypeOK /\ Rom!RomShowsTheImage /\ Rom!GoodImageIsAccepted

\* video_mode.py: a design that selects a mode by its constant gets the row of
\* that name, its ports show what the sheet says of it, and active part,
\* porches and sync fill a line, and a frame.
ModeIsTheSheets ==
  tool = "mode" =>
    /\ Mode!TypeOK
    /\ Mode!PortsShowTheSheet
    /\ Mode!TimingAddsUp
    /\ Mode!ModeConstantsNameTheirRows
    /\ Mode!AggregatesFitTheRecord

\* np65_decoder.py: a decoder is only made of complete substitutions; if the
\* cells fit, its ports show for every opcode the last row the sheet has for
\* it, equal the constant of a value exactly where the row has it, and are the
\* same in the Intel and the Xilinx decoder; the mnemonics differ.
DecoderShowsTheSheet ==
  tool = "decoder" =>
    /\ Decoder!TypeOK
    /\ Decoder!PortsShowTheSheet
    /\ Decoder!ConstantsMeanTheirValues
    /\ Decoder!OnlyCompleteSubstitutions
    /\ Decoder!BuildsAgree
    /\ Decoder!MnemonicsDiffer
===============================================================================
