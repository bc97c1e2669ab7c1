------------------------------- MODULE FrameTx -------------------------------
(***************************************************************************)
(* The sender of well-formed frames that the parser is tested against: the *)
(* test vector generator's encoders (canframe.py for classic frames,       *)
(* ExtCANFDFrame in utils.py for FD frames) as a state machine that puts   *)
(* one bit on the bus per Send. It is written from the encoders, field by  *)
(* field, and shares nothing with the parser but the lengths of CanTypes.  *)
(*                                                                         *)
(* Payload, CRC, stuff count and identifier bits take any value: the model *)
(* sends more frames than the encoders do. Data frames only, as in         *)
(* gen_vhdl_test.py, and at most 8 bytes in a classic frame.               *)
(***************************************************************************)
EXTENDS CanTypes

ASSUME FdCrcAssumption ==       \* 4 + CRC bits: the last group is incomplete
    CrcFdShort % 4 /= 0 /\ CrcFdLong % 4 /= 0

VARIABLES
    field, pos,     \* field that is on the bus next, and which bit of it
    format,         \* [ide, fdf, dlc]: the frame being sent
    id,             \* identifier bits sent so far
    stuff,          \* the stuff bit due next, or NoStuff
    last, run,      \* last bit sent, equal bits in a row up to it
    group           \* stuff count and CRC bits since the last fixed stuff bit

txVars == << field, pos, format, id, stuff, last, run, group >>

NoStuff == 2
Formats == { f \in [ide : Bit, fdf : Bit, dlc : 0 .. 15] :
                f.fdf = 1 \/ f.dlc <= 8 }

ArbitrationFields == IF format.ide = 1
    THEN << "sof", "ida", "srr", "ide", "idb", "rrs" >>
    ELSE << "sof", "ida", "srr", "ide" >>
ControlFields == IF format.fdf = 1 THEN << "fdf", "res", "brs", "esi", "dlc" >>
    ELSE IF format.ide = 1 THEN << "fdf", "res", "dlc" >> ELSE << "fdf", "dlc" >>
CrcFields == IF format.fdf = 1 THEN << "sbc", "crc" >> ELSE << "crc" >>
DataField == IF format.dlc = 0 THEN << >> ELSE << "data" >>
FieldNames == ArbitrationFields \o ControlFields \o DataField \o CrcFields
    \o << "crc_delimiter", "ack", "ack_delimiter", "eof", "ifs", "idle" >>

NextField == LET i == CHOOSE n \in DOMAIN FieldNames : FieldNames[n] = field
             IN  FieldNames[i + 1]

FieldLen ==
    CASE field = "ida"  -> BaseIdBits
      [] field = "idb"  -> ExtIdBits
      [] field \in {"dlc", "sbc"} -> 4
      [] field = "data" -> DataWidth(format.dlc)
      [] field = "crc"  -> CrcWidth(format.dlc, format.fdf)
      [] field = "eof"  -> 7
      [] field = "ifs"  -> 3
      [] OTHER -> 1

\* The values the next bit of the field may have.
FieldBits ==
    CASE field \in {"sof", "rrs", "res"} -> {0}
      [] field \in {"srr", "ide"} -> {format.ide}
      [] field = "fdf" -> {format.fdf}
      [] field = "dlc" -> {(format.dlc \div << 8, 4, 2, 1 >>[pos + 1]) % 2}
      [] field \in {"crc_delimiter", "ack_delimiter", "eof", "ifs"} -> {1}
      [] OTHER -> Bit

FixedStuffed == field = "sbc" \/ (field = "crc" /\ format.fdf = 1)
DynamicStuffed == ~FixedStuffed /\
    field \notin {"crc_delimiter", "ack", "ack_delimiter", "eof", "ifs", "idle"}

LastOfField == pos = FieldLen - 1
\* The last bit before the fixed-stuffed fields of an FD frame.
AtBoundary == LastOfField /\ NextField = "sbc"

RunWith(b) == IF b = last THEN run + 1 ELSE 1

TxInit ==
    /\ field = "idle" /\ pos = 0 /\ id = 0 /\ format \in Formats
    /\ stuff = NoStuff /\ last = 1 /\ run = 1 /\ group = 0

StartFrame ==
    /\ field = "idle"
    /\ field' = "sof" /\ pos' = 0 /\ id' = 0 /\ format' \in Formats
    /\ stuff' = NoStuff /\ last' = 1 /\ run' = 1 /\ group' = 0

SendStuff(b) ==
    /\ stuff = b
    /\ stuff' = NoStuff /\ last' = b /\ run' = 1
    /\ UNCHANGED << field, pos, format, id, group >>

SendFieldBit(b) ==
    /\ field /= "idle" /\ stuff = NoStuff /\ b \in FieldBits
    /\ IF LastOfField THEN field' = NextField /\ pos' = 0
                      ELSE pos' = pos + 1 /\ UNCHANGED field
    /\ id' = IF field \in {"ida", "idb"} THEN (2 * id + b) % IdModulus ELSE id
    /\ last' = b
    /\ \/ /\ DynamicStuffed
          /\ stuff' = IF AtBoundary \/ RunWith(b) = 5 THEN Not(b) ELSE NoStuff
          /\ run' = RunWith(b) /\ group' = 0
       \/ /\ FixedStuffed
          /\ stuff' = IF group = 3 THEN Not(b) ELSE NoStuff
          /\ group' = (group + 1) % 4 /\ run' = 1
       \/ /\ ~DynamicStuffed /\ ~FixedStuffed
          /\ stuff' = NoStuff /\ run' = 1 /\ group' = 0
    /\ UNCHANGED format

Send(b) == SendStuff(b) \/ SendFieldBit(b)
-----------------------------------------------------------------------------
\* The state and the count with which the parser names the bit sent next.
ParserState ==
    CASE field \in {"sof", "ida", "srr", "ide", "idb", "rrs"} -> "ABIT"
      [] field \in {"fdf", "res", "brs", "esi", "dlc"} -> "CTRL"
      [] field = "data" -> "DATA"
      [] field = "sbc" -> "CRC_STF"
      [] field = "crc" -> "CRC"
      [] field \in {"crc_delimiter", "ack", "ack_delimiter", "eof"} -> "EOF"
      [] OTHER -> "SLEEP"
ParserCount == pos +
    CASE field \in {"sof", "fdf", "data", "sbc", "crc", "crc_delimiter"} -> 0
      [] field = "ida" -> 1
      [] field = "srr" -> BaseIdBits + 1
      [] field = "ide" -> BaseIdBits + 2
      [] field = "idb" -> BaseIdBits + 3
      [] field = "rrs" -> BaseIdBits + ExtIdBits + 3
      [] field \in {"res", "ack"} -> 1
      [] field \in {"brs", "ack_delimiter"} -> 2
      [] field \in {"esi", "eof"} -> 3
      [] field = "dlc" -> 4
      [] OTHER -> 0
=============================================================================
