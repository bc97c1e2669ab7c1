----------------------------- MODULE CodecProofs -----------------------------
(***************************************************************************)
(* Lemmas for all who prove something about can_fsm.vhd and its frames,    *)
(* whatever drives the two: one clock edge of the parser and the destuffer *)
(* on any bus; the sender of FrameTx; the parser taking the sender's frame *)
(* apart, for all widths of the fields.                                    *)
(*                                                                         *)
(* On any bus: the type invariant needs GroupOpen for the stuff groups.    *)
(* InStep says what state the destuffer may be in before it has heard of   *)
(* the last bit, and Starting, Following and Done are the three places     *)
(* that a wake-up, a frame and its end put the parser in.                  *)
(*                                                                         *)
(* On a frame: TxInv of the sender alone; Decoding of the parser, which is *)
(* at the bit after the last one at once; Destuffing of the destuffer,     *)
(* which is a bit behind while destuff_strobe is up (Behind) and then      *)
(* knows the sender's run, its group and the stuff bit due (CaughtUp).     *)
(* A frame goes through Entering, Receiving and Leaving.                   *)
(***************************************************************************)
EXTENDS CanFsm, FrameTx, SequenceTheorems, TLAPS

\* The group counter is below 4 while it counts; it reaches 4 only on the edge
\* that switches the destuffer off.
GroupOpen == bs_state = "CRC" => bs_crc_cnt <= 3
-----------------------------------------------------------------------------
(* The operators the model is built from *)

\* The enumeration of sys_config_pkg.vhd as a set.
LEMMA FsmStateNames ==
    FsmStates = {"ABIT", "CTRL", "DATA", "CRC_STF", "CRC", "EOF",
                 "ERRF", "AWAIT_EOF", "RESET", "SLEEP"}
  <1>1. DOMAIN FsmOrder = 1 .. 10
    BY DEF FsmOrder
  <1>2. \A i \in 1 .. 10 : i \in {1, 2, 3, 4, 5, 6, 7, 8, 9, 10}
    OBVIOUS
  <1>. QED
    BY <1>1, <1>2 DEF FsmStates, FsmOrder

\* parse_dlc: a frame has at most 64 bytes, and none only for a DLC of 0.
LEMMA DlcBytesBounds ==
    ASSUME NEW dlc \in 0 .. 15
    PROVE  /\ DlcBytes(dlc) \in 0 .. 64
           /\ dlc /= 0 => DlcBytes(dlc) > 0
  <1>1. CASE dlc <= 8
    BY <1>1 DEF DlcBytes
  <1>2. CASE dlc > 8
    <2>1. dlc - 8 \in {1, 2, 3, 4, 5, 6, 7}
      BY <1>2
    <2>. QED
      BY <1>2, <2>1 DEF DlcBytes
  <1>. QED
    BY <1>1, <1>2

\* The decoded widths fit the counter, and every field that has a bit to count
\* has a width above 0.
LEMMA WidthBounds ==
    ASSUME NEW dlc \in 0 .. 15, NEW fd \in Bit
    PROVE  /\ DataWidth(dlc) \in 0 .. MaxCnt
           /\ dlc /= 0 => DataWidth(dlc) > 0
           /\ CrcWidth(dlc, fd) \in 1 .. MaxCnt
  <1>1. /\ ByteBits \in Nat /\ ByteBits > 0
        /\ \A b \in 0 .. 64 : b * ByteBits \in 0 .. 64 * ByteBits
        /\ \A b \in 1 .. 64 : b * ByteBits > 0
    <2>1. ByteBits \in Nat /\ ByteBits > 0
      BY WidthsAssumption
    <2>. QED
      BY <2>1
  <1>2. DataWidth(dlc) \in 0 .. MaxCnt /\ (dlc /= 0 => DataWidth(dlc) > 0)
    BY <1>1, DlcBytesBounds DEF DataWidth, MaxCnt
  <1>3. CrcWidth(dlc, fd) \in 1 .. MaxCnt
    BY CounterAssumption DEF CrcWidth, Bit
  <1>. QED
    BY <1>2, <1>3

\* Shift registers keep their width.
LEMMA ShiftBounds ==
    ASSUME ParserTypeOK, NEW s \in Bit
    PROVE  ShiftId(s) \in 0 .. IdModulus - 1 /\ ShiftDlc(s) \in 0 .. 15
  <1>1. IdModulus \in Nat /\ IdModulus > 0
    BY WidthsAssumption
  <1>2. 2 * id_buffer + s \in Nat
    BY <1>1 DEF ParserTypeOK, Bit
  <1>3. ShiftId(s) \in 0 .. IdModulus - 1
    BY <1>1, <1>2 DEF ShiftId
  <1>4. ShiftDlc(s) \in 0 .. 15
    BY DEF ShiftDlc, ParserTypeOK, Bit
  <1>. QED
    BY <1>3, <1>4
\* One flag raised, the others down.
LEMMA StatusTypes ==
    ASSUME NEW b \in Bit
    PROVE  /\ NoStatus \in Statuses
           /\ [NoStatus EXCEPT !.eof = b] \in Statuses
           /\ [NoStatus EXCEPT !.brs = b] \in Statuses
           /\ [NoStatus EXCEPT !.crc_del = b] \in Statuses
           /\ [NoStatus EXCEPT !.err = b] \in Statuses
           /\ [NoStatus EXCEPT !.sync = b] \in Statuses
  <1>1. NoStatus \in Statuses
    BY DEF NoStatus, Statuses, Bit
  <1>. QED
    BY <1>1 DEF Statuses
-----------------------------------------------------------------------------
(* Types *)

\* Every branch of parser_fsm keeps the parser's registers in their ranges.
LEMMA ParserTypes ==
    ASSUME ParserTypeOK, NEW strb \in Bit, NEW s \in Bit, NEW sleep \in Bit,
           ParserClock(strb, s, sleep)
    PROVE  ParserTypeOK'
  <1>. USE FsmStateNames, StatusTypes DEF ParserTypeOK, GoTo, TakeSample, Bit
  <1>1. ShiftId(s) \in 0 .. IdModulus - 1 /\ ShiftDlc(s) \in 0 .. 15
    BY ShiftBounds
  <1>2. 0 \in 0 .. IdModulus - 1
    BY WidthsAssumption
  <1>3. CASE ParserSleep(sleep)
    BY <1>2, <1>3 DEF ParserSleep
  <1>4. CASE ParserStuffError(strb, s)
    BY <1>4 DEF ParserStuffError
  <1>5. CASE SkipStuffBit(s)
    BY <1>5 DEF SkipStuffBit
  <1>6. CASE ParseBit(s)
    <2>1. /\ sample_buf' \in Bit /\ sample_ready' \in Bit
          /\ destuff_strobe' \in Bit
      BY <1>6 DEF ParseBit
    <2>2. CASE ArbitrationBit(s)
      BY <1>1, <2>1, <2>2 DEF ArbitrationBit
    <2>3. CASE ArbitrationEnd(s)
      BY <2>1, <2>3 DEF ArbitrationEnd
    <2>4. CASE FdfBit(s) \/ ReservedBit \/ BrsOrEsiBit
      BY <2>1, <2>4 DEF FdfBit, ReservedBit, BrsOrEsiBit
    <2>5. CASE DlcBit(s) \/ LastDlcBit(s)
      BY <1>1, <2>1, <2>5 DEF DlcBit, LastDlcBit, EnterCrc
    <2>6. CASE DataBit
      BY <2>1, <2>6 DEF DataBit, EnterCrc
    <2>7. CASE StuffCountBit \/ CrcBit
      BY <2>1, <2>7 DEF StuffCountBit, CrcBit
    <2>8. CASE TailBit(s) \/ LastTailBit(s)
      BY <2>1, <2>8 DEF TailBit, LastTailBit
    <2>9. CASE ErrorFlagBit(s) \/ AwaitEofBit(s)
      BY <2>1, <2>9 DEF ErrorFlagBit, AwaitEofBit
    <2>. QED
      BY <1>6, <2>2, <2>3, <2>4, <2>5, <2>6, <2>7, <2>8, <2>9 DEF ParseBit
  <1>7. CASE ParserHold
    BY <1>7 DEF ParserHold
  <1>. QED
    BY <1>3, <1>4, <1>5, <1>6, <1>7 DEF ParserClock

\* Every branch of update_bs keeps the destuffer's registers in their ranges;
\* the run of equal bits saturates, the group counter never passes 4.
LEMMA DestuffTypes ==
    ASSUME ParserTypeOK, DestuffTypeOK, GroupOpen,
           NEW strb \in Bit, NEW s \in Bit, NEW sleep \in Bit,
           DestuffClock(strb, s, sleep)
    PROVE  DestuffTypeOK' /\ GroupOpen'
  <1>. USE DEF ParserTypeOK, DestuffTypeOK, GroupOpen, BsStates, BsShiftIn, BsShiftReset,
               Bit
  <1>1. CASE DestuffSleep(sleep) \/ DestuffError \/ DestuffStuck
    BY <1>1 DEF DestuffSleep, DestuffError, DestuffStuck
  <1>2. CASE DestuffMonitor \/ DestuffInsert \/ DestuffDisable
    BY <1>2 DEF DestuffMonitor, DestuffInsert, DestuffDisable
  <1>3. CASE DestuffCrc \/ DestuffCrcInsert
    BY <1>3 DEF DestuffCrc, DestuffCrcInsert
  <1>4. CASE UNCHANGED bsVars
    BY <1>4 DEF bsVars
  <1>. QED
    BY <1>1, <1>2, <1>3, <1>4 DEF DestuffClock

\* parse_dlc loads widths or none.
LEMMA WidthTypes ==
    ASSUME TypeOK, NEW sleep \in Bit, DlcClock(sleep)
    PROVE  data_width' \in Nat /\ crc_width' \in Nat
  <1>1. /\ DataWidth(dlc_buffer) \in Nat
        /\ CrcWidth(dlc_buffer, fd_mode) \in Nat
    <2>1. dlc_buffer \in 0 .. 15 /\ fd_mode \in Bit
      BY DEF TypeOK, ParserTypeOK
    <2>. QED
      BY <2>1, WidthBounds
  <1>. QED
    BY <1>1 DEF DlcClock, dlcVars, TypeOK

\* One clock edge.
LEMMA ClockTypes ==
    ASSUME TypeOK, GroupOpen,
           NEW strb \in Bit, NEW s \in Bit, NEW sleep \in Bit,
           Clock(strb, s, sleep)
    PROVE  TypeOK' /\ GroupOpen'
  BY ParserTypes, DestuffTypes, WidthTypes DEF Clock, TypeOK

\* The reset branch.
LEMMA ResetTypes ==
    ASSUME TypeOK, Reset
    PROVE  TypeOK' /\ GroupOpen'
  <1>1. 0 \in 0 .. IdModulus - 1
    BY WidthsAssumption
  <1>. QED
    BY <1>1, FsmStateNames, StatusTypes
    DEF TypeOK, ParserTypeOK, DestuffTypeOK, GroupOpen, Reset, BsStates, Bit

\* The widths that parse_dlc holds after the edge, while a frame is followed.
LEMMA WidthsLoaded ==
    ASSUME TypeOK, NEW sleep \in Bit, sleep = 0, DlcClock(sleep)
    PROVE  /\ dlc_ready = 1 => /\ data_width' = DataWidth(dlc_buffer)
                               /\ crc_width' = CrcWidth(dlc_buffer, fd_mode)
           /\ dlc_ready = 0 => UNCHANGED << data_width, crc_width >>
           /\ DataWidth(dlc_buffer) \in 0 .. MaxCnt
           /\ dlc_buffer /= 0 => DataWidth(dlc_buffer) > 0
           /\ CrcWidth(dlc_buffer, fd_mode) \in 1 .. MaxCnt
  <1>1. dlc_buffer \in 0 .. 15 /\ fd_mode \in Bit
    BY DEF TypeOK, ParserTypeOK
  <1>2. /\ DataWidth(dlc_buffer) \in 0 .. MaxCnt
        /\ dlc_buffer /= 0 => DataWidth(dlc_buffer) > 0
        /\ CrcWidth(dlc_buffer, fd_mode) \in 1 .. MaxCnt
    BY <1>1, WidthBounds
  <1>. QED
    BY <1>2 DEF DlcClock, dlcVars, Bit
-----------------------------------------------------------------------------
(* Parser and destuffer in step *)

\* Nothing is left of an earlier frame: what FrameStartsClean asks for.
Clean ==
    /\ << id_ready, id_buffer, dlc_ready, dlc_buffer >> = << 0, 0, 0, 0 >>
    /\ << fd_mode, ext_id, bs_disable, bs_crc_mode >> = << 0, 0, 0, 0 >>
    /\ << data_width, crc_width >> = << 0, 0 >> /\ status = NoStatus
    /\ bs_insert = 0 /\ bs_crc_cnt = 0 /\ bs_run = 1 /\ bs_last = 1
    /\ destuff_strobe = 0 /\ sample_buf = 1

\* The destuffer's state for each state of the parser. While destuff_strobe is
\* up it is a bit behind: it has not yet heard of the field just entered.
InStep ==
    /\ bs_insert = 1 <=> bs_state \in {"INSERT", "CRC_INSERT"}
    /\ fsm_state \in {"ABIT", "CTRL", "DATA"} =>
          /\ bs_state \in {"MONITOR", "INSERT"}
          /\ bs_crc_mode = 0 /\ bs_disable = 0
    /\ fsm_state \in {"CRC_STF", "CRC"} =>
          /\ bs_crc_mode = fd_mode /\ bs_disable = 0
          /\ fsm_state = "CRC_STF" => fd_mode = 1
          /\ fd_mode = 0 => bs_state \in {"MONITOR", "INSERT"}
          /\ fd_mode = 1 => \/ bs_state \in {"CRC", "CRC_INSERT"}
                            \/ bs_state = "MONITOR" /\ destuff_strobe = 1
    /\ fsm_state = "EOF" =>
          /\ bs_crc_mode = 0 /\ bs_disable = 1
          /\ \/ bs_state = "DISABLE"
             \/ bs_state = "INSERT" /\ fd_mode = 0 /\ fsm_cnt = 0
             \/ /\ bs_state = (IF fd_mode = 1 THEN "CRC" ELSE "MONITOR")
                /\ fsm_cnt = 0 /\ destuff_strobe = 1
    /\ fsm_state \in {"ERRF", "AWAIT_EOF"} =>
          bs_state = "BS_ERROR" \/ (bs_state = "DISABLE" /\ bs_disable = 1)

\* An active timer unit finds the parser about to start, done, or in a frame.
Starting == fsm_state = "SLEEP" /\ bs_state = "SLEEP" /\ Clean
Done == fsm_state = "SLEEP" /\ status.eof = 1
Following ==
    /\ fsm_state \notin {"SLEEP", "RESET"} /\ status.eof = 0
    /\ InStep
    /\ fsm_state = "ABIT" /\ fsm_cnt = 0 => Clean /\ bs_state = "MONITOR"

\* A parsed bit. The destuffer has heard of the bit before and predicts none.
LEMMA PhaseOfParsedBit ==
    ASSUME TypeOK, Following, destuff_strobe = 0, NEW s \in Bit, ParseBit(s),
           UNCHANGED bsVars
    PROVE  (fsm_state' = "SLEEP" /\ status'.eof = 1) \/ Following'
  <1>. USE DEF TypeOK, ParserTypeOK, Following, InStep, bsVars, GoTo, ParseBit,
               TakeSample, NoStatus, Bit
  <1>1. CASE ArbitrationBit(s)
    BY <1>1 DEF ArbitrationBit
  <1>2. CASE ArbitrationEnd(s)
    BY <1>2 DEF ArbitrationEnd
  <1>3. CASE FdfBit(s) \/ ReservedBit \/ BrsOrEsiBit \/ DlcBit(s)
    BY <1>3 DEF FdfBit, ReservedBit, BrsOrEsiBit, DlcBit
  <1>4. CASE LastDlcBit(s)
    BY <1>4 DEF LastDlcBit, EnterCrc
  <1>5. CASE DataBit
    BY <1>5 DEF DataBit, EnterCrc
  <1>6. CASE StuffCountBit \/ CrcBit
    BY <1>6 DEF StuffCountBit, CrcBit
  <1>7. CASE TailBit(s) \/ LastTailBit(s)
    BY <1>7 DEF TailBit, LastTailBit
  <1>8. CASE ErrorFlagBit(s) \/ AwaitEofBit(s)
    BY <1>8 DEF ErrorFlagBit, AwaitEofBit
  <1>. QED
    BY <1>1, <1>2, <1>3, <1>4, <1>5, <1>6, <1>7, <1>8

\* The sample point of a frame: a stuff error, a stuff bit, or a parsed bit.
LEMMA PhaseOfSample ==
    ASSUME TypeOK, Following, destuff_strobe = 0, NEW s \in Bit, Clock(1, s, 0)
    PROVE  (fsm_state' = "SLEEP" /\ status'.eof = 1) \/ Following'
  <1>1. ParserClock(1, s, 0) /\ DestuffClock(1, s, 0) /\ ~Asleep(0)
    BY DEF Clock, Following, Asleep
  <1>2. bs_state /= "SLEEP"
    BY FsmStateNames DEF Following, InStep, TypeOK, ParserTypeOK, Bit
  <1>3. CASE StuffError(1, s)
    <2>1. ParserStuffError(1, s) /\ DestuffError
      BY <1>1, <1>2, <1>3 DEF ParserClock, ParserSleep, DestuffClock, DestuffSleep
    <2>2. fsm_state /= "ERRF"
      BY <1>3 DEF StuffError, Following, InStep
    <2>. QED
      BY <2>1, <2>2 DEF ParserStuffError, DestuffError, GoTo, TakeSample, NoStatus,
         Following, InStep
  <1>4. CASE ~StuffError(1, s)
    <2>1. UNCHANGED bsVars
      BY <1>1, <1>2, <1>4 DEF DestuffClock, DestuffSleep
    <2>2. SkipStuffBit(s) \/ ParseBit(s)
      BY <1>1, <1>4 DEF ParserClock, ParserSleep, ParserStuffError
    <2>3. CASE SkipStuffBit(s)
      BY <2>1, <2>3 DEF SkipStuffBit, TakeSample, bsVars, NoStatus, Following,
         InStep, Clean
    <2>. QED
      BY <2>1, <2>2, <2>3, PhaseOfParsedBit
  <1>. QED
    BY <1>3, <1>4

\* Any other edge of a frame: the destuffer catches up with the parser.
LEMMA PhaseOfEdge ==
    ASSUME TypeOK, Following, NEW s \in Bit, Clock(0, s, 0)
    PROVE  Following' /\ destuff_strobe' = 0
  <1>1. /\ ParserHold /\ DestuffClock(0, s, 0) /\ DlcClock(0)
        /\ ~StuffError(0, s)
    BY DEF Clock, ParserClock, ParserSleep, ParserStuffError, Following, Asleep,
       StuffError
  <1>2. bs_state /= "SLEEP"
    BY FsmStateNames DEF Following, InStep, TypeOK, ParserTypeOK, Bit
  <1>3. Clean => UNCHANGED dlcVars
    BY <1>1 DEF Clean, DlcClock
  <1>4. CASE destuff_strobe = 0
    <2>1. UNCHANGED bsVars
      BY <1>1, <1>2, <1>4 DEF DestuffClock, DestuffSleep
    <2>. QED
      BY <1>1, <1>3, <1>4, <2>1
      DEF ParserHold, bsVars, dlcVars, Following, InStep, Clean
  <1>5. CASE destuff_strobe = 1
    <2>. USE <1>1, <1>5 DEF ParserHold, Following, InStep, Clean, TypeOK,
                            ParserTypeOK, Bit
    <2>1. \/ DestuffMonitor \/ DestuffInsert \/ DestuffCrc
          \/ DestuffCrcInsert \/ DestuffDisable \/ DestuffStuck
      BY <1>2 DEF DestuffClock, DestuffSleep
    <2>2. CASE DestuffMonitor
      BY <2>2, FsmStateNames DEF DestuffMonitor, BsShiftIn
    <2>3. CASE DestuffInsert
      BY <2>3, FsmStateNames DEF DestuffInsert, BsShiftIn
    <2>4. CASE DestuffCrc \/ DestuffCrcInsert
      BY <2>4, FsmStateNames DEF DestuffCrc, DestuffCrcInsert, BsShiftIn
    <2>5. CASE DestuffDisable \/ DestuffStuck
      BY <2>5, FsmStateNames DEF DestuffDisable, DestuffStuck, BsShiftReset
    <2>. QED
      BY <2>1, <2>2, <2>3, <2>4, <2>5
  <1>. QED
    BY <1>4, <1>5 DEF TypeOK, ParserTypeOK, Bit

\* The first edge after a wake-up lets both processes out of their sleep.
LEMMA PhaseOfStart ==
    ASSUME Starting, NEW s \in Bit, Clock(0, s, 0)
    PROVE  Following' /\ destuff_strobe' = 0
  <1>1. /\ ParserSleep(0) /\ DestuffSleep(0) /\ UNCHANGED dlcVars
    BY DEF Starting, Clean, Clock, ParserClock, Asleep, DestuffClock, DlcClock
  <1>. QED
    BY <1>1 DEF Starting, Clean, ParserSleep, DestuffSleep, BsShiftReset, dlcVars,
       GoTo, NoStatus, Following, InStep

\* The edge of the wake-up itself still finds everything in its sleep branch.
LEMMA PhaseOfWakeUp ==
    ASSUME NEW s \in Bit, Clock(0, s, 1)
    PROVE  Starting'
  <1>1. /\ ParserSleep(1) /\ DestuffSleep(1)
        /\ data_width' = 0 /\ crc_width' = 0
    BY DEF Clock, ParserClock, Asleep, DestuffClock, DlcClock
  <1>. QED
    BY <1>1 DEF ParserSleep, DestuffSleep, BsShiftReset, GoTo, NoStatus, Starting,
       Clean

\* A clock edge without a sample takes the strobe back.
LEMMA StrobeFalls ==
    ASSUME NEW s, NEW sleep, Clock(0, s, sleep)
    PROVE  destuff_strobe' = 0
  BY DEF Clock, ParserClock, ParserSleep, ParserStuffError, StuffError, ParserHold
-----------------------------------------------------------------------------
(* The sender: the order of the fields, and what it holds before every bit *)

ToIde == {"sof", "ida", "srr", "ide"}
ToRrs == ToIde \cup {"idb", "rrs"}
ToFdf == ToRrs \cup {"fdf"}
ToEsi == ToFdf \cup {"res", "brs", "esi"}
ToDlc == ToEsi \cup {"dlc"}
TailFields == {"crc_delimiter", "ack", "ack_delimiter", "eof"}
Fields == ToDlc \cup {"data", "sbc", "crc"} \cup TailFields \cup {"ifs", "idle"}

\* The fields that a frame of this format has.
Present ==
    /\ field \in Fields
    /\ field \in {"idb", "rrs"} => format.ide = 1
    /\ field = "res" => format.ide = 1 \/ format.fdf = 1
    /\ field \in {"brs", "esi", "sbc"} => format.fdf = 1
    /\ field = "data" => format.dlc /= 0

\* The field after this one, format by format.
Successor ==
    CASE field = "sof" -> "ida"
      [] field = "ida" -> "srr"
      [] field = "srr" -> "ide"
      [] field = "ide" -> IF format.ide = 1 THEN "idb" ELSE "fdf"
      [] field = "idb" -> "rrs"
      [] field = "rrs" -> "fdf"
      [] field = "fdf" -> IF format.ide = 1 \/ format.fdf = 1 THEN "res" ELSE "dlc"
      [] field = "res" -> IF format.fdf = 1 THEN "brs" ELSE "dlc"
      [] field = "brs" -> "esi"
      [] field = "esi" -> "dlc"
      [] field = "dlc" -> IF format.dlc /= 0 THEN "data"
                          ELSE IF format.fdf = 1 THEN "sbc" ELSE "crc"
      [] field = "data" -> IF format.fdf = 1 THEN "sbc" ELSE "crc"
      [] field = "sbc" -> "crc"
      [] field = "crc" -> "crc_delimiter"
      [] field = "crc_delimiter" -> "ack"
      [] field = "ack" -> "ack_delimiter"
      [] field = "ack_delimiter" -> "eof"
      [] field = "eof" -> "ifs"
      [] OTHER -> "idle"
-----------------------------------------------------------------------------
(* The order of the fields *)

EndFields == << "crc_delimiter", "ack", "ack_delimiter", "eof", "ifs", "idle" >>

\* Each part of the frame by itself.
LEMMA FrameParts ==
    /\ ArbitrationFields \in Seq(Fields) /\ ControlFields \in Seq(Fields)
    /\ DataField \in Seq(Fields) /\ CrcFields \in Seq(Fields)
    /\ EndFields \in Seq(Fields) /\ Len(EndFields) = 6
    /\ Len(ArbitrationFields) = IF format.ide = 1 THEN 6 ELSE 4
    /\ Len(ControlFields) = IF format.fdf = 1 THEN 5 ELSE IF format.ide = 1 THEN 3 ELSE 2
    /\ Len(DataField) = IF format.dlc = 0 THEN 0 ELSE 1
    /\ Len(CrcFields) = IF format.fdf = 1 THEN 2 ELSE 1
<1> USE DEF Fields, ToDlc, ToEsi, ToFdf, ToRrs, ToIde, TailFields
<1>1. ArbitrationFields \in Seq(Fields)
  <2>1. CASE format.ide = 1
    BY <2>1 DEF ArbitrationFields
  <2>2. CASE format.ide /= 1
    BY <2>2 DEF ArbitrationFields
  <2> QED
    BY <2>1, <2>2
<1>2. ControlFields \in Seq(Fields)
  <2>1. CASE format.fdf = 1
    BY <2>1 DEF ControlFields
  <2>2. CASE format.fdf /= 1 /\ format.ide = 1
    BY <2>2 DEF ControlFields
  <2>3. CASE format.fdf /= 1 /\ format.ide /= 1
    BY <2>3 DEF ControlFields
  <2> QED
    BY <2>1, <2>2, <2>3
<1>3. DataField \in Seq(Fields)
  <2>1. CASE format.dlc = 0
    BY <2>1 DEF DataField
  <2>2. CASE format.dlc /= 0
    BY <2>2 DEF DataField
  <2> QED
    BY <2>1, <2>2
<1>4. CrcFields \in Seq(Fields)
  <2>1. CASE format.fdf = 1
    BY <2>1 DEF CrcFields
  <2>2. CASE format.fdf /= 1
    BY <2>2 DEF CrcFields
  <2> QED
    BY <2>1, <2>2
<1>5. EndFields \in Seq(Fields) /\ Len(EndFields) = 6
  BY DEF EndFields
<1> HIDE DEF Fields
<1>6. Len(ArbitrationFields) = IF format.ide = 1 THEN 6 ELSE 4
  BY DEF ArbitrationFields
<1>7. Len(ControlFields) = IF format.fdf = 1 THEN 5 ELSE IF format.ide = 1 THEN 3 ELSE 2
  BY DEF ControlFields
<1>8. Len(DataField) = IF format.dlc = 0 THEN 0 ELSE 1
  BY DEF DataField
<1>9. Len(CrcFields) = IF format.fdf = 1 THEN 2 ELSE 1
  BY DEF CrcFields
<1> QED
  BY <1>1, <1>2, <1>3, <1>4, <1>5, <1>6, <1>7, <1>8, <1>9

\* Concatenation, with the lengths as they are counted below.
Appends(u, s, t, m, n) ==
    /\ u \in Seq(Fields) /\ Len(u) = n
    /\ \A i \in 1 .. n : u[i] = IF i <= m THEN s[i] ELSE t[i - m]

LEMMA Appended ==
    ASSUME NEW s \in Seq(Fields), NEW t \in Seq(Fields)
    PROVE  Appends(s \o t, s, t, Len(s), Len(s) + Len(t))
  BY ConcatProperties DEF Appends

\* Where each part is found in the frame.
LEMMA PartsInFrame ==
    LET a == Len(ArbitrationFields)
        c == a + Len(ControlFields)
        d == c + Len(DataField)
        k == d + Len(CrcFields)
    IN  /\ DOMAIN FieldNames = 1 .. k + 6
        /\ \A n \in 1 .. a : FieldNames[n] = ArbitrationFields[n]
        /\ \A n \in a + 1 .. c : FieldNames[n] = ControlFields[n - a]
        /\ \A n \in c + 1 .. d : FieldNames[n] = DataField[n - c]
        /\ \A n \in d + 1 .. k : FieldNames[n] = CrcFields[n - d]
        /\ \A n \in k + 1 .. k + 6 : FieldNames[n] = EndFields[n - k]
<1> DEFINE s2 == ArbitrationFields \o ControlFields
           s3 == s2 \o DataField
           s4 == s3 \o CrcFields
           a == Len(ArbitrationFields)
           c == a + Len(ControlFields)
           d == c + Len(DataField)
           k == d + Len(CrcFields)
<1>1. /\ a \in Nat /\ c \in Nat /\ d \in Nat /\ k \in Nat
      /\ a <= c /\ c <= d /\ d <= k
  BY FrameParts
<1>2. Appends(s2, ArbitrationFields, ControlFields, a, c)
  BY FrameParts, Appended
<1>3. Appends(s3, s2, DataField, c, d)
  <2>1. Appends(s3, s2, DataField, Len(s2), Len(s2) + Len(DataField))
    BY <1>2, FrameParts, Appended DEF Appends
  <2> QED
    BY <1>2, <2>1 DEF Appends
<1>4. Appends(s4, s3, CrcFields, d, k)
  <2>1. Appends(s4, s3, CrcFields, Len(s3), Len(s3) + Len(CrcFields))
    BY <1>3, FrameParts, Appended DEF Appends
  <2> QED
    BY <1>3, <2>1 DEF Appends
<1>5. Appends(FieldNames, s4, EndFields, k, k + 6)
  <2>1. Appends(FieldNames, s4, EndFields, Len(s4), Len(s4) + Len(EndFields))
    BY <1>4, FrameParts, Appended DEF Appends, FieldNames, EndFields
  <2> QED
    BY <1>4, <2>1, FrameParts DEF Appends
<1> HIDE DEF s2, s3, s4, a, c, d, k
<1> USE DEF Appends
<1>6. DOMAIN FieldNames = 1 .. k + 6
  BY <1>5
<1>7. \A n \in 1 .. a : FieldNames[n] = ArbitrationFields[n]
  BY <1>1, <1>2, <1>3, <1>4, <1>5
<1>8. \A n \in a + 1 .. c : FieldNames[n] = ControlFields[n - a]
  BY <1>1, <1>2, <1>3, <1>4, <1>5
<1>9. \A n \in c + 1 .. d : FieldNames[n] = DataField[n - c]
  BY <1>1, <1>3, <1>4, <1>5
<1>10. \A n \in d + 1 .. k : FieldNames[n] = CrcFields[n - d]
  BY <1>1, <1>4, <1>5
<1>11. \A n \in k + 1 .. k + 6 : FieldNames[n] = EndFields[n - k]
  BY <1>1, <1>5
<1> QED
  BY <1>6, <1>7, <1>8, <1>9, <1>10, <1>11 DEF a, c, d, k

\* The order of the fields is that of the table, for every format.
LEMMA FieldOrder ==
    ASSUME Present, field /= "idle"
    PROVE  NextField = Successor
<1> DEFINE a == Len(ArbitrationFields)
           c == a + Len(ControlFields)
           d == c + Len(DataField)
           k == d + Len(CrcFields)
<1>1. /\ DOMAIN FieldNames = 1 .. k + 6
      /\ \A n \in 1 .. a : FieldNames[n] = ArbitrationFields[n]
      /\ \A n \in a + 1 .. c : FieldNames[n] = ControlFields[n - a]
      /\ \A n \in c + 1 .. d : FieldNames[n] = DataField[n - c]
      /\ \A n \in d + 1 .. k : FieldNames[n] = CrcFields[n - d]
      /\ \A n \in k + 1 .. k + 6 : FieldNames[n] = EndFields[n - k]
  BY PartsInFrame
<1>2. /\ a = IF format.ide = 1 THEN 6 ELSE 4
      /\ c = a + IF format.fdf = 1 THEN 5 ELSE IF format.ide = 1 THEN 3 ELSE 2
      /\ d = IF format.dlc = 0 THEN c ELSE c + 1
      /\ k = IF format.fdf = 1 THEN d + 2 ELSE d + 1
      /\ a \in Nat /\ c \in Nat /\ d \in Nat /\ k \in Nat
  BY FrameParts
<1> HIDE DEF a, c, d, k
<1> DEFINE At(n, f) == FieldNames[n] = f
<1>3. /\ At(1, "sof") /\ At(2, "ida") /\ At(3, "srr") /\ At(4, "ide")
      /\ format.ide = 1 => At(5, "idb") /\ At(6, "rrs")
  BY <1>1, <1>2 DEF ArbitrationFields
<1>4. /\ At(a + 1, "fdf") /\ At(c, "dlc")
      /\ format.ide = 1 \/ format.fdf = 1 => At(a + 2, "res")
      /\ format.fdf = 1 => At(a + 3, "brs") /\ At(a + 4, "esi")
  <2>1. CASE format.fdf = 1
    <3>1. ControlFields = << "fdf", "res", "brs", "esi", "dlc" >> /\ c = a + 5
      BY <1>2, <2>1 DEF ControlFields
    <3> QED
      BY <1>1, <1>2, <2>1, <3>1
  <2>2. CASE format.fdf /= 1 /\ format.ide = 1
    <3>1. ControlFields = << "fdf", "res", "dlc" >> /\ c = a + 3
      BY <1>2, <2>2 DEF ControlFields
    <3> QED
      BY <1>1, <1>2, <2>2, <3>1
  <2>3. CASE format.fdf /= 1 /\ format.ide /= 1
    <3>1. ControlFields = << "fdf", "dlc" >> /\ c = a + 2
      BY <1>2, <2>3 DEF ControlFields
    <3> QED
      BY <1>1, <1>2, <2>3, <3>1
  <2> QED
    BY <2>1, <2>2, <2>3
<1>5. format.dlc /= 0 => At(d, "data")
  BY <1>1, <1>2 DEF DataField
<1>6. At(k, "crc") /\ (format.fdf = 1 => At(d + 1, "sbc"))
  <2>1. CASE format.fdf = 1
    <3>1. CrcFields = << "sbc", "crc" >> /\ k = d + 2
      BY <1>2, <2>1 DEF CrcFields
    <3> QED
      BY <1>1, <1>2, <2>1, <3>1
  <2>2. CASE format.fdf /= 1
    <3>1. CrcFields = << "crc" >> /\ k = d + 1
      BY <1>2, <2>2 DEF CrcFields
    <3> QED
      BY <1>1, <1>2, <2>2, <3>1
  <2> QED
    BY <2>1, <2>2
<1>7. /\ At(k + 1, "crc_delimiter") /\ At(k + 2, "ack") /\ At(k + 3, "ack_delimiter")
      /\ At(k + 4, "eof") /\ At(k + 5, "ifs") /\ At(k + 6, "idle")
  <2>1. (k + 1) - k = 1 /\ (k + 2) - k = 2 /\ (k + 3) - k = 3 /\ (k + 4) - k = 4
        /\ (k + 5) - k = 5 /\ (k + 6) - k = 6
    BY <1>2
  <2>2. {k + 1, k + 2, k + 3, k + 4, k + 5, k + 6} \subseteq k + 1 .. k + 6
    BY <1>2
  <2>3. /\ EndFields[1] = "crc_delimiter" /\ EndFields[2] = "ack"
        /\ EndFields[3] = "ack_delimiter" /\ EndFields[4] = "eof"
        /\ EndFields[5] = "ifs" /\ EndFields[6] = "idle"
    BY DEF EndFields
  <2> QED
    BY <1>1, <2>1, <2>2, <2>3
<1>8. ASSUME NEW n \in 1 .. k + 5, FieldNames[n] = field
      PROVE  FieldNames[n + 1] = Successor
  <2>1. CASE n <= a
    <3>1. n \in {1, 2, 3, 4} \/ (format.ide = 1 /\ n \in {5, 6})
      BY <1>2, <2>1
    <3> QED
      BY <1>2, <1>3, <1>4, <1>8, <3>1 DEF Successor
  <2>2. CASE n > a /\ n <= c
    <3>1. CASE format.fdf = 1
      <4>1. n \in {a + 1, a + 2, a + 3, a + 4} \/ n = c
        BY <1>2, <2>2, <3>1
      <4> QED
        BY <1>2, <1>4, <1>5, <1>6, <1>8, <3>1, <4>1 DEF Successor
    <3>2. CASE format.fdf /= 1
      <4>1. n = a + 1 \/ (format.ide = 1 /\ n = a + 2) \/ n = c
        BY <1>2, <2>2, <3>2
      <4> QED
        BY <1>2, <1>4, <1>5, <1>6, <1>8, <3>2, <4>1 DEF Successor
    <3> QED
      BY <3>1, <3>2
  <2>3. CASE n > c /\ n <= k
    <3>1. (format.dlc /= 0 /\ n = d) \/ (format.fdf = 1 /\ n = d + 1) \/ n = k
      BY <1>2, <2>3
    <3> QED
      BY <1>2, <1>5, <1>6, <1>7, <1>8, <3>1 DEF Successor
  <2>4. CASE n > k
    <3>1. n \in {k + 1, k + 2, k + 3, k + 4, k + 5}
      BY <1>2, <2>4
    <3> QED
      BY <1>2, <1>7, <1>8, <3>1 DEF Successor
  <2> QED
    BY <1>2, <2>1, <2>2, <2>3, <2>4
<1>9. \E n \in 1 .. k + 5 : FieldNames[n] = field
  <2>1. CASE field \in ToRrs
    BY <1>2, <1>3, <2>1 DEF Present, ToRrs, ToIde
  <2>2. CASE field \in {"fdf", "res", "brs", "esi", "dlc"}
    BY <1>2, <1>4, <2>2 DEF Present
  <2>3. CASE field \in {"data", "sbc", "crc"}
    BY <1>2, <1>5, <1>6, <2>3 DEF Present
  <2>4. CASE field \in TailFields \cup {"ifs"}
    BY <1>2, <1>7, <2>4 DEF TailFields
  <2> QED
    BY <2>1, <2>2, <2>3, <2>4 DEF Present, Fields, ToDlc, ToEsi, ToFdf
<1> DEFINE i == CHOOSE n \in DOMAIN FieldNames : FieldNames[n] = field
<1>10. i \in 1 .. k + 5 /\ FieldNames[i] = field
  <2>1. \A n \in DOMAIN FieldNames : FieldNames[n] = field => n \in 1 .. k + 5
    BY <1>1, <1>2, <1>7
  <2>2. i \in DOMAIN FieldNames /\ FieldNames[i] = field
    BY <1>1, <1>2, <1>9
  <2> QED
    BY <2>1, <2>2
<1>11. NextField = FieldNames[i + 1]
  BY DEF NextField
<1> HIDE DEF i
<1> QED
  BY <1>8, <1>10, <1>11
-----------------------------------------------------------------------------
(* What the sender holds before every bit *)

TxTypeOK ==
    /\ format \in Formats /\ Present
    /\ pos \in 0 .. FieldLen - 1 /\ id \in 0 .. IdModulus - 1
    /\ stuff \in {0, 1, NoStuff} /\ last \in Bit
    /\ run \in 1 .. 5 /\ group \in 0 .. 3

\* A stuff bit is due after five equal bits, or after a group of four.
StuffDue ==
    /\ stuff \in {NoStuff, Not(last)}
    /\ stuff = NoStuff => run <= 4
    /\ FixedStuffed => group = pos % 4
    /\ stuff /= NoStuff =>
          /\ DynamicStuffed \/ FixedStuffed \/ (field = "crc_delimiter" /\ format.fdf = 0)
          /\ FixedStuffed => group = 0

\* No stuff bit parts the FDF bit of an FD frame from its BRS bit: the bit
\* before FDF is 0.
NoStuffBeforeBrs ==
    /\ field = "fdf" => last = 0 \/ run = 1
    /\ field = "res" /\ format.fdf = 1 => stuff = NoStuff /\ last = 1
    /\ field = "brs" => stuff = NoStuff

TxInv == TxTypeOK /\ StuffDue /\ NoStuffBeforeBrs

LEMMA FormatTypes ==
    ASSUME format \in Formats
    PROVE  /\ format.ide \in {0, 1} /\ format.fdf \in {0, 1} /\ format.dlc \in 0 .. 15
           /\ format.fdf = 1 \/ format.dlc <= 8
  BY DEF Formats, Bit

LEMMA FormatWidths ==
    ASSUME format \in Formats
    PROVE  /\ CrcWidth(format.dlc, format.fdf) \in Nat \ {0}
           /\ DataWidth(format.dlc) \in Nat
           /\ format.dlc /= 0 => DataWidth(format.dlc) > 0
           /\ format.fdf = 1 => CrcWidth(format.dlc, format.fdf) % 4 /= 0
<1>1. format.dlc \in 0 .. 15 /\ format.fdf \in Bit
  BY FormatTypes DEF Bit
<1>2. /\ CrcWidth(format.dlc, format.fdf) \in 1 .. MaxCnt
      /\ DataWidth(format.dlc) \in 0 .. MaxCnt
      /\ format.dlc /= 0 => DataWidth(format.dlc) > 0
  BY <1>1, WidthBounds
<1>3. format.fdf = 1 => CrcWidth(format.dlc, format.fdf) % 4 /= 0
  BY FdCrcAssumption DEF CrcWidth
<1> QED
  BY <1>2, <1>3

\* Where the next bit is.
LEMMA Advance ==
    ASSUME TxTypeOK, NEW b \in Bit, SendFieldBit(b)
    PROVE  /\ ~LastOfField => field' = field /\ pos' = pos + 1
           /\ LastOfField => field' = Successor /\ pos' = 0
           /\ format' = format /\ Present' /\ pos' \in 0 .. FieldLen' - 1
<1>1. field /= "idle" /\ format' = format /\ format \in Formats /\ Present
      /\ pos \in 0 .. FieldLen - 1
  BY DEF SendFieldBit, TxTypeOK
<1>2. NextField = Successor
  BY <1>1, FieldOrder
<1>3. CASE LastOfField
  <2>1. field' = Successor /\ pos' = 0
    BY <1>2, <1>3 DEF SendFieldBit
  <2>2. Present'
    <3>1. field' \in Fields
      BY <2>1 DEF Successor, Fields, ToDlc, ToEsi, ToFdf, ToRrs, ToIde, TailFields
    <3>2. /\ field' \in {"idb", "rrs"} => format.ide = 1
          /\ field' = "res" => format.ide = 1 \/ format.fdf = 1
          /\ field' \in {"brs", "esi", "sbc"} => format.fdf = 1
          /\ field' = "data" => format.dlc /= 0
      BY <1>1, <2>1 DEF Successor, Present
    <3> QED
      BY <1>1, <3>1, <3>2 DEF Present
  <2>3. FieldLen' \in Nat \ {0}
    <3>1. CASE field' = "data"
      <4>1. FieldLen' = DataWidth(format.dlc) /\ format.dlc /= 0
        BY <1>1, <2>2, <3>1 DEF FieldLen, Present
      <4> QED
        BY <1>1, <4>1, FormatWidths
    <3>2. CASE field' = "crc"
      <4>1. FieldLen' = CrcWidth(format.dlc, format.fdf)
        BY <1>1, <3>2 DEF FieldLen
      <4> QED
        BY <1>1, <4>1, FormatWidths
    <3>3. CASE field' \notin {"data", "crc"}
      BY <3>3, WidthsAssumption DEF FieldLen
    <3> QED
      BY <3>1, <3>2, <3>3
  <2>4. \A n \in Nat \ {0} : 0 \in 0 .. n - 1
    OBVIOUS
  <2> QED
    BY <1>1, <1>3, <2>1, <2>2, <2>3, <2>4
<1>4. CASE ~LastOfField
  <2>1. field' = field /\ pos' = pos + 1
    BY <1>4 DEF SendFieldBit
  <2>2. Present' /\ FieldLen' = FieldLen
    BY <1>1, <2>1 DEF Present, FieldLen
  <2>3. FieldLen \in Nat
    BY <1>1, FormatWidths, WidthsAssumption DEF FieldLen
  <2> QED
    BY <1>1, <1>4, <2>1, <2>2, <2>3 DEF LastOfField
<1> QED
  BY <1>3, <1>4

\* A field bit keeps what is due in step with the run and the group.
LEMMA StuffDueNext ==
    ASSUME TxInv, NEW b \in Bit, SendFieldBit(b)
    PROVE  TxTypeOK' /\ StuffDue'
<1>1. /\ format \in Formats /\ Present /\ pos \in 0 .. FieldLen - 1
      /\ id \in 0 .. IdModulus - 1 /\ last \in {0, 1} /\ b \in {0, 1}
      /\ run \in 1 .. 5 /\ group \in 0 .. 3
      /\ stuff = NoStuff /\ run <= 4 /\ (FixedStuffed => group = pos % 4)
  BY DEF TxInv, TxTypeOK, StuffDue, SendFieldBit, Bit
<1>2. /\ ~LastOfField => field' = field /\ pos' = pos + 1
      /\ LastOfField => field' = Successor /\ pos' = 0
      /\ format' = format /\ Present' /\ pos' \in 0 .. FieldLen' - 1
  BY Advance DEF TxInv
<1>3. /\ id' \in 0 .. IdModulus - 1 /\ last' = b
      /\ Not(b) \in {0, 1} /\ Not(last)' = Not(b) /\ NoStuff \notin {0, 1}
      /\ RunWith(b) \in 1 .. 5
  <2>1. IdModulus \in Nat \ {0} /\ 2 * id + b \in Nat
    BY <1>1, WidthsAssumption
  <2>2. (2 * id + b) % IdModulus \in 0 .. IdModulus - 1
    BY <2>1
  <2> QED
    BY <1>1, <2>2 DEF SendFieldBit, Not, RunWith, NoStuff
<1>4. FieldLen = 4 \/ field /= "sbc"
  BY DEF FieldLen
<1>5. CASE DynamicStuffed
  <2>1. /\ stuff' = IF AtBoundary \/ RunWith(b) = 5 THEN Not(b) ELSE NoStuff
        /\ run' = RunWith(b) /\ group' = 0
    BY <1>5 DEF SendFieldBit, DynamicStuffed
  <2>2. TxTypeOK'
    BY <1>1, <1>2, <1>3, <2>1 DEF TxTypeOK, Bit
  <2>3. FixedStuffed' => field' = "sbc" /\ pos' = 0
    BY <1>1, <1>2, <1>5, FormatTypes DEF DynamicStuffed, FixedStuffed, Successor, Present
  <2>4. DynamicStuffed' \/ FixedStuffed' \/ (field' = "crc_delimiter" /\ format.fdf = 0)
    <3>1. field \in ToDlc \cup {"data"} \/ (field = "crc" /\ format.fdf = 0)
      BY <1>1, <1>5, FormatTypes DEF DynamicStuffed, FixedStuffed, Present, Fields, TailFields
    <3>2. CASE LastOfField
      <4>1. field' = Successor /\ format' = format
        BY <1>2, <3>2
      <4> QED
        BY <1>1, <3>1, <4>1, FormatTypes
        DEF DynamicStuffed, FixedStuffed, Successor, ToDlc, ToEsi, ToFdf, ToRrs, ToIde
    <3>3. CASE ~LastOfField
      BY <1>2, <1>5, <3>3 DEF DynamicStuffed, FixedStuffed
    <3> QED
      BY <3>2, <3>3
  <2>5. stuff' = NoStuff => run' <= 4
    BY <1>3, <2>1
  <2>6. FixedStuffed' => group' = pos' % 4
    BY <2>1, <2>3
  <2> QED
    BY <1>2, <1>3, <2>1, <2>2, <2>4, <2>5, <2>6 DEF StuffDue
<1>6. CASE FixedStuffed
  <2>1. /\ stuff' = IF group = 3 THEN Not(b) ELSE NoStuff
        /\ group' = (group + 1) % 4 /\ run' = 1
    BY <1>6 DEF SendFieldBit, DynamicStuffed
  <2>2. TxTypeOK'
    BY <1>1, <1>2, <1>3, <2>1 DEF TxTypeOK, Bit
  <2>3. CASE ~LastOfField
    <3>1. group' = pos' % 4 /\ FixedStuffed'
      BY <1>1, <1>2, <1>6, <2>1, <2>3 DEF FixedStuffed
    <3>2. stuff' /= NoStuff => group' = 0
      BY <2>1
    <3> QED
      BY <1>2, <1>3, <2>1, <2>2, <3>1, <3>2 DEF StuffDue
  <2>4. CASE LastOfField /\ field = "sbc"
    <3>1. field' = "crc" /\ pos' = 0 /\ group = 3 /\ group' = 0 /\ FixedStuffed'
      BY <1>1, <1>2, <1>4, <1>6, <2>1, <2>4
      DEF LastOfField, Successor, FixedStuffed, Present
    <3> QED
      BY <1>2, <1>3, <2>1, <2>2, <3>1 DEF StuffDue
  <2>5. CASE LastOfField /\ field = "crc"
    <3>1. pos = CrcWidth(format.dlc, format.fdf) - 1 /\ format.fdf = 1
      BY <1>6, <2>5 DEF LastOfField, FieldLen, FixedStuffed
    <3>2. group /= 3
      BY <1>1, <1>6, <3>1, FormatWidths
    <3>3. field' = "crc_delimiter" /\ ~FixedStuffed'
      BY <1>2, <2>5 DEF Successor, FixedStuffed
    <3> QED
      BY <1>2, <1>3, <2>1, <2>2, <3>2, <3>3 DEF StuffDue
  <2> QED
    BY <1>6, <2>3, <2>4, <2>5 DEF FixedStuffed
<1>7. CASE ~DynamicStuffed /\ ~FixedStuffed
  <2>1. stuff' = NoStuff /\ run' = 1 /\ group' = 0 /\ ~FixedStuffed'
    BY <1>2, <1>7 DEF SendFieldBit, DynamicStuffed, FixedStuffed, Successor
  <2>2. TxTypeOK'
    BY <1>1, <1>2, <1>3, <2>1 DEF TxTypeOK, Bit
  <2> QED
    BY <2>1, <2>2 DEF StuffDue, NoStuff
<1> QED
  BY <1>5, <1>6, <1>7

\* FDF is 1 after a 0, so neither it nor the 0 after it ends a run of five.
LEMMA SyncUnstuffed ==
    ASSUME TxInv, NEW b \in Bit, SendFieldBit(b)
    PROVE  NoStuffBeforeBrs'
<1>1. /\ format \in Formats /\ Present /\ last \in {0, 1} /\ b \in {0, 1}
      /\ stuff = NoStuff /\ field /= "idle" /\ b \in FieldBits
      /\ run \in 1 .. 5 /\ NoStuffBeforeBrs
      /\ format.ide \in {0, 1} /\ format.fdf \in {0, 1}
  BY FormatTypes DEF TxInv, TxTypeOK, SendFieldBit, Bit
<1>2. /\ format' = format /\ last' = b
      /\ FieldLen = 1 => LastOfField
      /\ ~LastOfField => field' = field
      /\ LastOfField => field' = Successor
  <2>1. pos \in 0 .. FieldLen - 1 /\ last' = b
    BY DEF TxInv, TxTypeOK, SendFieldBit
  <2>2. FieldLen = 1 => LastOfField
    BY <2>1 DEF LastOfField
  <2> QED
    BY <2>1, <2>2, Advance DEF TxInv
<1>3. field' \in {"fdf", "res", "brs"} => field' = Successor
  BY <1>2 DEF FieldLen
<1>4. ASSUME field' = "fdf"
      PROVE  last' = 0
  <2>1. (field = "ide" /\ format.ide /= 1) \/ field = "rrs"
    BY <1>1, <1>3, <1>4 DEF Successor, Present, Fields, ToDlc, ToEsi, ToFdf, ToRrs,
       ToIde, TailFields
  <2> QED
    BY <1>1, <1>2, <2>1 DEF FieldBits
<1>5. ASSUME field' \in {"res", "brs"}
      PROVE  /\ DynamicStuffed /\ ~AtBoundary
             /\ field' = "res" => field = "fdf" /\ b = format.fdf
             /\ field' = "brs" => field = "res" /\ b = 0 /\ format.fdf = 1
  <2>1. /\ field' = "res" => field = "fdf"
        /\ field' = "brs" => field = "res" /\ format.fdf = 1
    BY <1>1, <1>3, <1>5 DEF Successor, Present, Fields, ToDlc, ToEsi, ToFdf, ToRrs,
       ToIde, TailFields
  <2>2. DynamicStuffed /\ b = IF field = "fdf" THEN format.fdf ELSE 0
    BY <1>1, <1>5, <2>1 DEF DynamicStuffed, FixedStuffed, FieldBits
  <2>3. NextField /= "sbc"
    BY <1>1, <1>3, <1>5, FieldOrder
  <2> QED
    BY <1>5, <2>1, <2>2, <2>3 DEF AtBoundary
<1>6. ASSUME field' \in {"res", "brs"}
      PROVE  stuff' = IF RunWith(b) = 5 THEN Not(b) ELSE NoStuff
  BY <1>5, <1>6 DEF SendFieldBit, DynamicStuffed
<1>7. field' = "res" /\ format.fdf = 1 => RunWith(b) /= 5
  BY <1>1, <1>5 DEF RunWith, NoStuffBeforeBrs
<1>8. field' = "brs" => RunWith(b) /= 5
  BY <1>1, <1>5 DEF RunWith, NoStuffBeforeBrs
<1> QED
  BY <1>2, <1>4, <1>5, <1>6, <1>7, <1>8 DEF NoStuffBeforeBrs

\* Whatever the sender puts on the bus, the next bit is due as TxInv says.
LEMMA SenderSteps ==
    ASSUME TxInv, NEW b \in Bit, Send(b)
    PROVE  TxInv'
<1>1. CASE SendFieldBit(b)
  BY <1>1, StuffDueNext, SyncUnstuffed DEF TxInv
<1>2. CASE SendStuff(b)
  <2>1. /\ stuff' = NoStuff /\ last' = b /\ run' = 1 /\ stuff = b /\ stuff /= NoStuff
        /\ UNCHANGED << field, pos, format, id, group >>
    BY <1>2 DEF SendStuff, NoStuff, Bit
  <2>2. Present' /\ (FixedStuffed' <=> FixedStuffed) /\ (DynamicStuffed' <=> DynamicStuffed)
    BY <2>1 DEF TxInv, TxTypeOK, Present, FixedStuffed, DynamicStuffed
  <2>3. FieldLen' = FieldLen
    BY <2>1 DEF FieldLen
  <2>4. TxTypeOK'
    BY <2>1, <2>2, <2>3 DEF TxInv, TxTypeOK
  <2>5. StuffDue'
    BY <2>1, <2>2 DEF TxInv, StuffDue
  <2>6. NoStuffBeforeBrs'
    BY <2>1 DEF TxInv, NoStuffBeforeBrs
  <2> QED
    BY <2>4, <2>5, <2>6 DEF TxInv
<1> QED
  BY <1>1, <1>2 DEF Send

\* The sender starts a frame from idle, whatever the last one left.
LEMMA SenderStarts ==
    /\ TxInit => TxInv
    /\ StartFrame => TxInv'
<1>1. 0 \in 0 .. IdModulus - 1
  BY WidthsAssumption
<1>2. TxInit => TxInv
  BY <1>1 DEF TxInit, TxInv, TxTypeOK, StuffDue, NoStuffBeforeBrs, Present, Fields,
     ToDlc, ToEsi, ToFdf, ToRrs, ToIde, TailFields, FieldLen, FixedStuffed,
     DynamicStuffed, NoStuff, Bit
<1>3. StartFrame => TxInv'
  BY <1>1 DEF StartFrame, TxInv, TxTypeOK, StuffDue, NoStuffBeforeBrs, Present, Fields,
     ToDlc, ToEsi, ToFdf, ToRrs, ToIde, TailFields, FieldLen, FixedStuffed,
     DynamicStuffed, NoStuff, Bit
<1> QED
  BY <1>2, <1>3
-----------------------------------------------------------------------------
(* The parser *)

\* The registers that take the frame apart, from the start of the frame to the
\* interframe space.
Decoding ==
    /\ id_buffer = id
    /\ id_ready = (IF field \in ToRrs THEN 0 ELSE 1)
    /\ ext_id = (IF field \in ToIde THEN 0 ELSE format.ide)
    /\ fd_mode = (IF field \in ToFdf THEN 0 ELSE format.fdf)
    /\ dlc_buffer = (IF field \in ToEsi THEN 0
                     ELSE IF field = "dlc" THEN format.dlc \div << 16, 8, 4, 2 >>[pos + 1]
                     ELSE format.dlc)
    /\ dlc_ready = 1 => field \notin ToDlc
    /\ field \notin ToDlc /\ dlc_ready = 0 =>
          /\ data_width = DataWidth(format.dlc)
          /\ crc_width = CrcWidth(format.dlc, format.fdf)

Aligned ==
    /\ field \notin {"ifs", "idle"} /\ ~(field = "eof" /\ pos = 6)
    /\ fsm_state = ParserState /\ fsm_cnt = ParserCount

Announcing ==
    /\ status.brs = 1 <=> field = "brs"
    /\ status.sync = 1 <=> field = "res" /\ format.fdf = 1
    /\ format.fdf = 1 => (status.crc_del = 1 <=> field = "crc_delimiter")
    /\ status.err = 0
-----------------------------------------------------------------------------
(* The destuffer *)

CaughtUp ==
    /\ bs_insert = 1 <=> stuff /= NoStuff
    /\ bs_state \notin {"DISABLE"} => bs_last = last
    /\ bs_state = "MONITOR" => bs_run = run
    /\ bs_state = "CRC" => bs_crc_cnt = group

\* The destuffer holds what it knew before the bit that is in sample_buf.
Behind ==
    /\ sample_buf = last
    /\ bs_insert = 1 =>
          /\ bs_last = Not(last) /\ stuff = NoStuff /\ run = 1
          /\ bs_state = "CRC_INSERT" => group = 0
    /\ bs_state = "MONITOR" =>
          /\ bs_run <= 4 /\ run = (IF last = bs_last THEN bs_run + 1 ELSE 1)
          /\ stuff /= NoStuff <=> bs_crc_mode = 1 \/ run = 5
    /\ bs_state = "CRC" =>
          /\ group = (bs_crc_cnt + 1) % 4
          /\ stuff /= NoStuff <=> bs_crc_cnt = 3 /\ bs_disable = 0
    /\ bs_state = "DISABLE" => stuff = NoStuff

Destuffing == IF destuff_strobe = 1 THEN Behind ELSE CaughtUp
-----------------------------------------------------------------------------
(* The invariant *)

\* A wake-up finds the sender at the start of a frame, and the parser about to
\* leave its sleep.
Entering ==
    /\ Starting
    /\ field = "sof" /\ pos = 0 /\ id = 0 /\ stuff = NoStuff /\ last = 1 /\ run = 1

Receiving == Following /\ Aligned /\ Announcing /\ Decoding /\ Destuffing

\* The parser is done one bit before the end of EOF.
Leaving == Done /\ field = "eof" /\ pos = 6 /\ stuff = NoStuff /\ Decoding

Away ==
    /\ field \in {"ifs", "idle"} \/ (field = "eof" /\ pos = 6)
    /\ stuff = NoStuff /\ fsm_state \in {"SLEEP", "ABIT"}

-----------------------------------------------------------------------------
(* A parsed bit, field by field *)

\* The branch of parser_fsm for each of its states in a frame.
LEMMA Branches ==
    ASSUME NEW b, ParseBit(b)
    PROVE  /\ fsm_state = "ABIT" => ArbitrationBit(b) \/ ArbitrationEnd(b)
           /\ fsm_state = "CTRL" =>
                 \/ FdfBit(b) \/ ReservedBit \/ BrsOrEsiBit \/ DlcBit(b) \/ LastDlcBit(b)
           /\ fsm_state = "DATA" => DataBit
           /\ fsm_state = "CRC_STF" => StuffCountBit
           /\ fsm_state = "CRC" => CrcBit
           /\ fsm_state = "EOF" => TailBit(b) \/ LastTailBit(b)
  BY DEF ParseBit, ArbitrationBit, ArbitrationEnd, FdfBit, ReservedBit, BrsOrEsiBit,
     DlcBit, LastDlcBit, DataBit, StuffCountBit, CrcBit, TailBit, LastTailBit,
     ErrorFlagBit, AwaitEofBit

\* What is known of the bit: the parser's and the sender's view of one place.
CommonBit(b) ==
    /\ TypeOK /\ TxInv /\ Aligned /\ Decoding
    /\ dlc_ready = 0 /\ UNCHANGED << data_width, crc_width >>
    /\ ParseBit(b) /\ SendFieldBit(b)

\* The same place one bit on.
Follows == Aligned' /\ Announcing' /\ Decoding'

LEMMA ArbitrationFollows ==
    ASSUME NEW b \in Bit, CommonBit(b), field \in ToRrs
    PROVE  Follows
<1> USE DEF Bit
<1>1. /\ ArbitrationBit(b) \/ ArbitrationEnd(b)
      /\ fsm_state = "ABIT" /\ fsm_cnt = ParserCount
  BY Branches DEF CommonBit, Aligned, ParserState, ToRrs, ToIde
<1>2. /\ BaseIdBits \in Nat \ {0} /\ ExtIdBits \in Nat \ {0}
      /\ pos \in 0 .. FieldLen - 1 /\ b \in FieldBits
      /\ format.ide \in {0, 1} /\ format.fdf \in {0, 1}
      /\ format' = format /\ dlc_ready' = 0
      /\ id' = IF field \in {"ida", "idb"} THEN ShiftId(b) ELSE id
      /\ id_buffer = id /\ id_ready = 0 /\ fd_mode = 0 /\ dlc_buffer = 0
      /\ ext_id = (IF field \in ToIde THEN 0 ELSE format.ide)
  BY <1>1, WidthsAssumption, FormatTypes
  DEF CommonBit, TxInv, TxTypeOK, SendFieldBit, Decoding, ShiftId, ToEsi, ToFdf,
      ArbitrationBit, ArbitrationEnd
<1>3. /\ ~LastOfField => field' = field /\ pos' = pos + 1
      /\ LastOfField => field' = Successor /\ pos' = 0
  BY Advance DEF CommonBit, TxInv
<1>4. status' = NoStatus /\ fd_mode' = 0 /\ dlc_buffer' = 0
  BY <1>1, <1>2 DEF ArbitrationBit, ArbitrationEnd
<1>5. CASE field \in {"sof", "srr", "ida", "idb"}
  <2>1. fsm_cnt /= LastRtrPos /\ fsm_cnt /= IdePos
        /\ (fsm_cnt \in IdPositions <=> field \in {"ida", "idb"})
    BY <1>1, <1>2, <1>5 DEF ParserCount, FieldLen, LastRtrPos, IdePos, IdPositions,
       LastBaseId, LastExtId
  <2>2. /\ id_buffer' = id' /\ id_ready' = 0 /\ ext_id' = ext_id
        /\ fsm_state' = "ABIT" /\ fsm_cnt' = fsm_cnt + 1
    BY <1>1, <1>2, <2>1 DEF ArbitrationBit, ArbitrationEnd, GoTo
  <2>3. /\ fsm_cnt' = ParserCount' /\ field' \in ToRrs
        /\ field' \in ToIde <=> field \in ToIde
    BY <1>1, <1>2, <1>3, <1>5, <2>2 DEF ParserCount, FieldLen, LastOfField, Successor,
       ToRrs, ToIde
  <2> QED
    BY <1>2, <1>4, <2>2, <2>3 DEF Follows, Aligned, Announcing, Decoding, ParserState,
       NoStatus, ToDlc, ToEsi, ToFdf, ToRrs, ToIde
<1>6. CASE field \in {"ide", "rrs"}
  <2>1. LastOfField
    BY <1>2, <1>6 DEF FieldLen, LastOfField
  <2>2. CASE field = "ide" /\ format.ide = 1
    <3>1. b = 1 /\ fsm_cnt = IdePos /\ fsm_cnt /= LastRtrPos /\ fsm_cnt \notin IdPositions
      BY <1>1, <1>2, <2>1, <2>2 DEF FieldBits, ParserCount, LastOfField, FieldLen, IdePos,
         LastRtrPos, IdPositions, LastBaseId, LastExtId
    <3>2. /\ id_buffer' = id' /\ id_ready' = 0 /\ ext_id' = 1
          /\ fsm_state' = "ABIT" /\ fsm_cnt' = fsm_cnt + 1
      BY <1>1, <1>2, <2>2, <3>1 DEF ArbitrationBit, ArbitrationEnd, GoTo
    <3>3. field' = "idb" /\ pos' = 0 /\ fsm_cnt' = ParserCount'
      BY <1>2, <1>3, <2>1, <2>2, <3>1, <3>2 DEF Successor, ParserCount, IdePos
    <3> QED
      BY <1>2, <1>4, <2>2, <3>2, <3>3 DEF Follows, Aligned, Announcing, Decoding,
         ParserState, NoStatus, ToDlc, ToEsi, ToFdf, ToRrs, ToIde
  <2>3. CASE field = "rrs" \/ format.ide = 0
    <3>1. fsm_cnt = LastRtrPos \/ (fsm_cnt = IdePos /\ b = 0)
      BY <1>1, <1>2, <1>6, <2>1, <2>3 DEF FieldBits, ParserCount, LastOfField, FieldLen,
         IdePos, LastRtrPos
    <3>2. /\ id_buffer' = id' /\ id_ready' = 1 /\ ext_id' = format.ide
          /\ fsm_state' = "CTRL" /\ fsm_cnt' = 0
      BY <1>1, <1>2, <1>6, <2>3, <3>1
      DEF ArbitrationBit, ArbitrationEnd, GoTo, ToIde
    <3>3. field' = "fdf" /\ pos' = 0 /\ fsm_cnt' = ParserCount'
      BY <1>2, <1>3, <1>6, <2>1, <2>3, <3>2 DEF Successor, ParserCount
    <3> QED
      BY <1>2, <1>4, <3>2, <3>3 DEF Follows, Aligned, Announcing, Decoding, ParserState,
         NoStatus, ToDlc, ToEsi, ToFdf, ToRrs, ToIde
  <2> QED
    BY <1>2, <1>6, <2>2, <2>3
<1> QED
  BY <1>5, <1>6 DEF ToRrs, ToIde

\* The DLC shifts in from the left: after the bit at pos it is what the next
\* place asks for.
LEMMA DlcShifted ==
    ASSUME NEW dlc \in 0 .. 15, NEW p \in 0 .. 3
    PROVE  LET before == dlc \div << 16, 8, 4, 2 >>[p + 1]
               b == (dlc \div << 8, 4, 2, 1 >>[p + 1]) % 2
           IN  (2 * before + b) % 16 =
                   (IF p = 3 THEN dlc ELSE dlc \div << 16, 8, 4, 2 >>[p + 2])
<1>1. CASE p = 0
  BY <1>1
<1>2. CASE p = 1
  BY <1>2
<1>3. CASE p = 2
  BY <1>3
<1>4. CASE p = 3
  BY <1>4
<1> QED
  BY <1>1, <1>2, <1>3, <1>4

LEMMA ControlFollows ==
    ASSUME NEW b \in Bit, CommonBit(b), field \in {"fdf", "res", "brs", "esi"}
    PROVE  Follows
<1> USE DEF Bit
<1>1. /\ FdfBit(b) \/ ReservedBit \/ BrsOrEsiBit \/ DlcBit(b) \/ LastDlcBit(b)
      /\ fsm_state = "CTRL" /\ fsm_cnt = ParserCount
  BY Branches DEF CommonBit, Aligned, ParserState
<1>2. /\ pos = 0 /\ LastOfField /\ b \in FieldBits
      /\ format.ide \in {0, 1} /\ format.fdf \in {0, 1} /\ Present
      /\ format' = format /\ id' = id /\ UNCHANGED << id_buffer, id_ready, ext_id, dlc_buffer >>
      /\ id_buffer = id /\ id_ready = 1 /\ dlc_buffer = 0 /\ ext_id = format.ide
      /\ fd_mode = (IF field = "fdf" THEN 0 ELSE format.fdf)
  <2>1. /\ b \in FieldBits /\ Present /\ format' = format /\ id' = id
        /\ pos \in 0 .. FieldLen - 1 /\ FieldLen = 1
    BY DEF CommonBit, TxInv, TxTypeOK, SendFieldBit, FieldLen
  <2>2. /\ id_buffer = id /\ id_ready = 1 /\ dlc_buffer = 0 /\ ext_id = format.ide
        /\ fd_mode = (IF field = "fdf" THEN 0 ELSE format.fdf)
    BY DEF CommonBit, Decoding, ToEsi, ToFdf, ToRrs, ToIde
  <2>3. fsm_cnt \in {0, 1, 2, 3}
    BY <1>1, <2>1 DEF ParserCount
  <2>4. UNCHANGED << id_buffer, id_ready, ext_id, dlc_buffer >>
    BY <1>1, <2>3 DEF FdfBit, ReservedBit, BrsOrEsiBit, DlcBit, LastDlcBit
  <2> QED
    BY <2>1, <2>2, <2>4, FormatTypes DEF CommonBit, TxInv, TxTypeOK, LastOfField
<1>3. field' = Successor /\ pos' = 0
  BY <1>2, Advance DEF CommonBit, TxInv
<1>4. CASE field = "fdf"
  <2>1. b = format.fdf /\ fsm_cnt = 0
    BY <1>1, <1>2, <1>4 DEF FieldBits, ParserCount
  <2>2. /\ fd_mode' = format.fdf /\ status' = [NoStatus EXCEPT !.sync = format.fdf]
        /\ fsm_state' = "CTRL" /\ dlc_ready' = 0
        /\ fsm_cnt' = IF format.fdf = 0 /\ format.ide = 0 THEN 4 ELSE 1
    BY <1>1, <1>2, <2>1
    DEF FdfBit, ReservedBit, BrsOrEsiBit, DlcBit, LastDlcBit, GoTo
  <2>3. CASE format.fdf = 0 /\ format.ide = 0
    <3>1. field' = "dlc" /\ dlc_buffer' = format'.dlc \div << 16, 8, 4, 2 >>[pos' + 1]
      BY <1>2, <1>3, <1>4, <2>3, FormatTypes DEF Successor, CommonBit, TxInv, TxTypeOK
    <3> QED
      BY <1>2, <1>3, <2>2, <2>3, <3>1
      DEF Follows, Aligned, Announcing, Decoding, ParserState, ParserCount, NoStatus,
          ToDlc, ToEsi, ToFdf, ToRrs, ToIde
  <2>4. CASE ~(format.fdf = 0 /\ format.ide = 0)
    <3>1. field' = "res"
      BY <1>2, <1>3, <1>4, <2>4 DEF Successor
    <3> QED
      BY <1>2, <1>3, <2>2, <2>4, <3>1
      DEF Follows, Aligned, Announcing, Decoding, ParserState, ParserCount, NoStatus,
          ToDlc, ToEsi, ToFdf, ToRrs, ToIde
  <2> QED
    BY <2>3, <2>4
<1>5. CASE field = "res"
  <2>1. fsm_cnt = 1 /\ (format.fdf = 0 => format.ide = 1)
    BY <1>1, <1>2, <1>5 DEF ParserCount, Present
  <2>2. /\ status' = [NoStatus EXCEPT !.brs = format.fdf]
        /\ fsm_state' = "CTRL" /\ dlc_ready' = 0 /\ fd_mode' = fd_mode
        /\ fsm_cnt' = IF format.fdf = 0 THEN 4 ELSE 2
    BY <1>1, <1>2, <1>5, <2>1
    DEF FdfBit, ReservedBit, BrsOrEsiBit, DlcBit, LastDlcBit, GoTo
  <2>3. CASE format.fdf = 0
    <3>1. field' = "dlc" /\ dlc_buffer' = format'.dlc \div << 16, 8, 4, 2 >>[pos' + 1]
      BY <1>2, <1>3, <1>5, <2>3, FormatTypes DEF Successor, CommonBit, TxInv, TxTypeOK
    <3> QED
      BY <1>2, <1>3, <1>5, <2>2, <2>3, <3>1
      DEF Follows, Aligned, Announcing, Decoding, ParserState, ParserCount, NoStatus,
          ToDlc, ToEsi, ToFdf, ToRrs, ToIde
  <2>4. CASE format.fdf = 1
    <3>1. field' = "brs"
      BY <1>2, <1>3, <1>5, <2>4 DEF Successor
    <3> QED
      BY <1>2, <1>3, <1>5, <2>2, <2>4, <3>1
      DEF Follows, Aligned, Announcing, Decoding, ParserState, ParserCount, NoStatus,
          ToDlc, ToEsi, ToFdf, ToRrs, ToIde
  <2> QED
    BY <1>2, <2>3, <2>4
<1>6. CASE field \in {"brs", "esi"}
  <2>1. fsm_cnt = IF field = "brs" THEN 2 ELSE 3
    BY <1>1, <1>2, <1>6 DEF ParserCount
  <2>2. /\ status' = NoStatus /\ fsm_state' = "CTRL" /\ dlc_ready' = 0
        /\ fd_mode' = fd_mode /\ fsm_cnt' = fsm_cnt + 1
    BY <1>1, <1>6, <2>1 DEF FdfBit, ReservedBit, BrsOrEsiBit, DlcBit, LastDlcBit, GoTo
  <2>3. field' = IF field = "brs" THEN "esi" ELSE "dlc"
    BY <1>3, <1>6 DEF Successor
  <2>4. field' = "dlc" => dlc_buffer' = format'.dlc \div << 16, 8, 4, 2 >>[pos' + 1]
    BY <1>2, <1>3, FormatTypes DEF CommonBit, TxInv, TxTypeOK
  <2> QED
    BY <1>2, <1>3, <1>6, <2>1, <2>2, <2>3, <2>4
    DEF Follows, Aligned, Announcing, Decoding, ParserState, ParserCount, NoStatus,
        ToDlc, ToEsi, ToFdf, ToRrs, ToIde
<1> QED
  BY <1>4, <1>5, <1>6

LEMMA DlcFollows ==
    ASSUME NEW b \in Bit, CommonBit(b), field = "dlc"
    PROVE  Follows
<1> USE DEF Bit
<1>1. /\ FdfBit(b) \/ ReservedBit \/ BrsOrEsiBit \/ DlcBit(b) \/ LastDlcBit(b)
      /\ fsm_state = "CTRL" /\ fsm_cnt = pos + 4
  BY Branches DEF CommonBit, Aligned, ParserState, ParserCount
<1>2. /\ pos \in 0 .. 3 /\ (LastOfField <=> pos = 3)
      /\ format.ide \in {0, 1} /\ format.fdf \in {0, 1} /\ format.dlc \in 0 .. 15
      /\ format' = format /\ id' = id
      /\ id_buffer = id /\ id_ready = 1 /\ ext_id = format.ide /\ fd_mode = format.fdf
      /\ dlc_buffer = format.dlc \div << 16, 8, 4, 2 >>[pos + 1]
      /\ b = (format.dlc \div << 8, 4, 2, 1 >>[pos + 1]) % 2
      /\ bs_crc_mode \in {0, 1}
  <2>1. /\ b \in FieldBits /\ format' = format /\ id' = id
        /\ pos \in 0 .. FieldLen - 1 /\ FieldLen = 4
    BY DEF CommonBit, TxInv, TxTypeOK, SendFieldBit, FieldLen
  <2>2. /\ id_buffer = id /\ id_ready = 1 /\ ext_id = format.ide /\ fd_mode = format.fdf
        /\ dlc_buffer = format.dlc \div << 16, 8, 4, 2 >>[pos + 1]
    BY DEF CommonBit, Decoding, ToEsi, ToFdf, ToRrs, ToIde
  <2> QED
    BY <2>1, <2>2, FormatTypes
    DEF CommonBit, TxInv, TxTypeOK, LastOfField, FieldBits, TypeOK, ParserTypeOK
<1>3. /\ ~LastOfField => field' = field /\ pos' = pos + 1
      /\ LastOfField => field' = Successor /\ pos' = 0
  BY Advance DEF CommonBit, TxInv
<1>4. ShiftDlc(b) = IF pos = 3 THEN format.dlc ELSE format.dlc \div << 16, 8, 4, 2 >>[pos + 2]
  BY <1>2, DlcShifted DEF ShiftDlc
<1>5. CASE pos /= 3
  <2>1. /\ dlc_buffer' = ShiftDlc(b) /\ status' = NoStatus /\ dlc_ready' = 0
        /\ fsm_state' = "CTRL" /\ fsm_cnt' = fsm_cnt + 1
        /\ UNCHANGED << id_buffer, id_ready, ext_id, fd_mode >>
    BY <1>1, <1>2, <1>5 DEF FdfBit, ReservedBit, BrsOrEsiBit, DlcBit, LastDlcBit, GoTo
  <2>2. field' = "dlc" /\ pos' = pos + 1 /\ (pos + 1) + 1 = pos + 2
    BY <1>2, <1>3, <1>5
  <2>3. dlc_buffer' = format'.dlc \div << 16, 8, 4, 2 >>[pos' + 1]
    BY <1>2, <1>4, <1>5, <2>1, <2>2
  <2> QED
    BY <1>1, <1>2, <2>1, <2>2, <2>3
    DEF Follows, Aligned, Announcing, Decoding, ParserState, ParserCount, NoStatus,
        ToDlc, ToEsi, ToFdf, ToRrs, ToIde
<1>6. CASE pos = 3
  <2>1. /\ dlc_buffer' = format.dlc /\ status' = NoStatus /\ dlc_ready' = 1
        /\ IF format.dlc = 0 THEN EnterCrc ELSE GoTo("DATA", 1)
        /\ UNCHANGED << id_buffer, id_ready, ext_id, fd_mode >>
    BY <1>1, <1>2, <1>4, <1>6 DEF FdfBit, ReservedBit, BrsOrEsiBit, DlcBit, LastDlcBit
  <2>2. /\ fsm_state' = IF format.dlc /= 0 THEN "DATA"
                        ELSE IF format.fdf = 1 THEN "CRC_STF" ELSE "CRC"
        /\ fsm_cnt' = 0
    BY <1>1, <1>2, <2>1 DEF EnterCrc, GoTo
  <2>3. /\ field' = IF format.dlc /= 0 THEN "data"
                    ELSE IF format.fdf = 1 THEN "sbc" ELSE "crc"
        /\ pos' = 0
    BY <1>2, <1>3, <1>6 DEF Successor
  <2> QED
    BY <1>2, <2>1, <2>2, <2>3
    DEF Follows, Aligned, Announcing, Decoding, ParserState, ParserCount, NoStatus,
        ToDlc, ToEsi, ToFdf, ToRrs, ToIde
<1> QED
  BY <1>5, <1>6

\* The fields whose length the parser counts by the DLC, and the stuff count.
LEMMA CountedFollows ==
    ASSUME NEW b \in Bit, CommonBit(b), field \in {"data", "sbc", "crc"}
    PROVE  Follows
<1> USE DEF Bit
<1>1. /\ field = "data" => DataBit /\ fsm_state = "DATA"
      /\ field = "sbc" => StuffCountBit /\ fsm_state = "CRC_STF"
      /\ field = "crc" => CrcBit /\ fsm_state = "CRC"
      /\ fsm_cnt = ParserCount
  BY Branches DEF CommonBit, Aligned, ParserState
<1>2. /\ pos \in 0 .. FieldLen - 1 /\ FieldLen \in Nat /\ fsm_cnt = pos /\ pos \in Nat
      /\ format.ide \in {0, 1} /\ format.fdf \in {0, 1}
      /\ format' = format /\ id' = id
      /\ id_buffer = id /\ id_ready = 1 /\ ext_id = format.ide /\ fd_mode = format.fdf
      /\ dlc_buffer = format.dlc
      /\ FieldLen = (IF field = "data" THEN data_width
                     ELSE IF field = "sbc" THEN 4 ELSE crc_width)
      /\ data_width = DataWidth(format.dlc) /\ crc_width = CrcWidth(format.dlc, format.fdf)
      /\ UNCHANGED << data_width, crc_width >>
  <2>1. /\ format' = format /\ id' = id /\ format \in Formats
        /\ pos \in 0 .. FieldLen - 1
    BY DEF CommonBit, TxInv, TxTypeOK, SendFieldBit
  <2>2. /\ id_buffer = id /\ id_ready = 1 /\ ext_id = format.ide /\ fd_mode = format.fdf
        /\ dlc_buffer = format.dlc
        /\ data_width = DataWidth(format.dlc) /\ crc_width = CrcWidth(format.dlc, format.fdf)
    BY DEF CommonBit, Decoding, ToDlc, ToEsi, ToFdf, ToRrs, ToIde
  <2>3. FieldLen = (IF field = "data" THEN data_width
                    ELSE IF field = "sbc" THEN 4 ELSE crc_width)
    BY <2>2 DEF FieldLen
  <2>4. FieldLen \in Nat
    BY <2>3 DEF CommonBit, TypeOK
  <2>5. fsm_cnt = pos
    BY <1>1, <2>1, <2>4 DEF ParserCount
  <2> QED
    BY <2>1, <2>2, <2>3, <2>4, <2>5, FormatTypes DEF CommonBit
<1>3. /\ ~LastOfField => field' = field /\ pos' = pos + 1
      /\ LastOfField => field' = Successor /\ pos' = 0
  BY Advance DEF CommonBit, TxInv
<1>4. /\ dlc_ready' = 0
      /\ UNCHANGED << id_buffer, id_ready, ext_id, fd_mode, dlc_buffer >>
  BY <1>1 DEF DataBit, StuffCountBit, CrcBit
<1>5. CASE field = "data"
  <2>1. /\ status' = NoStatus
        /\ fsm_state' = IF ~LastOfField THEN "DATA"
                        ELSE IF format.fdf = 1 THEN "CRC_STF" ELSE "CRC"
        /\ fsm_cnt' = IF ~LastOfField THEN pos + 1 ELSE 0
    BY <1>1, <1>2, <1>5 DEF DataBit, EnterCrc, GoTo, LastOfField
  <2>2. /\ field' = IF ~LastOfField THEN "data"
                    ELSE IF format.fdf = 1 THEN "sbc" ELSE "crc"
        /\ pos' = IF ~LastOfField THEN pos + 1 ELSE 0
    BY <1>3, <1>5 DEF Successor
  <2> QED
    BY <1>2, <1>4, <2>1, <2>2
    DEF Follows, Aligned, Announcing, Decoding, ParserState, ParserCount, NoStatus,
        ToDlc, ToEsi, ToFdf, ToRrs, ToIde
<1>6. CASE field = "sbc"
  <2>1. /\ status' = NoStatus
        /\ fsm_state' = IF ~LastOfField THEN "CRC_STF" ELSE "CRC"
        /\ fsm_cnt' = IF ~LastOfField THEN pos + 1 ELSE 0
    BY <1>1, <1>2, <1>6 DEF StuffCountBit, GoTo, LastOfField
  <2>2. /\ field' = IF ~LastOfField THEN "sbc" ELSE "crc"
        /\ pos' = IF ~LastOfField THEN pos + 1 ELSE 0
    BY <1>3, <1>6 DEF Successor
  <2> QED
    BY <1>2, <1>4, <2>1, <2>2
    DEF Follows, Aligned, Announcing, Decoding, ParserState, ParserCount, NoStatus,
        ToDlc, ToEsi, ToFdf, ToRrs, ToIde
<1>7. CASE field = "crc"
  <2>1. /\ status' = IF ~LastOfField THEN NoStatus ELSE [NoStatus EXCEPT !.crc_del = 1]
        /\ fsm_state' = IF ~LastOfField THEN "CRC" ELSE "EOF"
        /\ fsm_cnt' = IF ~LastOfField THEN pos + 1 ELSE 0
    BY <1>1, <1>2, <1>7 DEF CrcBit, GoTo, LastOfField
  <2>2. /\ field' = IF ~LastOfField THEN "crc" ELSE "crc_delimiter"
        /\ pos' = IF ~LastOfField THEN pos + 1 ELSE 0
    BY <1>3, <1>7 DEF Successor
  <2> QED
    BY <1>2, <1>4, <2>1, <2>2
    DEF Follows, Aligned, Announcing, Decoding, ParserState, ParserCount, NoStatus,
        ToDlc, ToEsi, ToFdf, ToRrs, ToIde
<1> QED
  BY <1>5, <1>6, <1>7

\* In the tail the parser counts one bit after the other; with the last but
\* one bit of EOF it is done.
LEMMA TailFollows ==
    ASSUME NEW b \in Bit, CommonBit(b), field \in TailFields
    PROVE  \/ Follows
           \/ /\ fsm_state' = "SLEEP" /\ status'.eof = 1 /\ Decoding'
              /\ field' = "eof" /\ pos' = 6
<1> USE DEF Bit, TailFields
<1>1. /\ TailBit(b) \/ LastTailBit(b)
      /\ fsm_state = "EOF" /\ fsm_cnt = ParserCount
  BY Branches DEF CommonBit, Aligned, ParserState
<1>2. /\ field /= "eof" => pos = 0 /\ LastOfField
      /\ field = "eof" => pos \in 0 .. 5 /\ ~LastOfField
      /\ field \in {"crc_delimiter", "ack_delimiter", "eof"} => b = 1
      /\ format' = format /\ id' = id
      /\ id_buffer = id /\ id_ready = 1 /\ ext_id = format.ide /\ fd_mode = format.fdf
      /\ dlc_buffer = format.dlc
      /\ data_width = DataWidth(format.dlc) /\ crc_width = CrcWidth(format.dlc, format.fdf)
      /\ UNCHANGED << data_width, crc_width >>
  <2>1. /\ format' = format /\ id' = id /\ b \in FieldBits
        /\ pos \in 0 .. FieldLen - 1 /\ FieldLen = (IF field = "eof" THEN 7 ELSE 1)
        /\ ~(field = "eof" /\ pos = 6)
    BY DEF CommonBit, TxInv, TxTypeOK, SendFieldBit, FieldLen, Aligned
  <2>2. /\ id_buffer = id /\ id_ready = 1 /\ ext_id = format.ide /\ fd_mode = format.fdf
        /\ dlc_buffer = format.dlc
        /\ data_width = DataWidth(format.dlc) /\ crc_width = CrcWidth(format.dlc, format.fdf)
    BY DEF CommonBit, Decoding, ToDlc, ToEsi, ToFdf, ToRrs, ToIde
  <2>3. field \in {"crc_delimiter", "ack_delimiter", "eof"} => b = 1
    BY <2>1 DEF FieldBits
  <2> QED
    BY <2>1, <2>2, <2>3 DEF CommonBit, LastOfField
<1>3. /\ ~LastOfField => field' = field /\ pos' = pos + 1
      /\ LastOfField => field' = Successor /\ pos' = 0
  BY Advance DEF CommonBit, TxInv
<1>4. /\ dlc_ready' = 0
      /\ UNCHANGED << id_buffer, id_ready, ext_id, fd_mode, dlc_buffer >>
  BY <1>1 DEF TailBit, LastTailBit
<1>5. CASE field /= "eof"
  <2>1. /\ fsm_cnt = (IF field = "crc_delimiter" THEN 0 ELSE IF field = "ack" THEN 1 ELSE 2)
        /\ field' = (IF field = "crc_delimiter" THEN "ack"
                     ELSE IF field = "ack" THEN "ack_delimiter" ELSE "eof")
        /\ pos' = 0
    BY <1>1, <1>2, <1>3, <1>5 DEF ParserCount, Successor
  <2>2. status' = NoStatus /\ fsm_state' = "EOF" /\ fsm_cnt' = fsm_cnt + 1
    BY <1>1, <1>2, <1>5, <2>1 DEF TailBit, LastTailBit, GoTo
  <2> QED
    BY <1>2, <1>4, <1>5, <2>1, <2>2
    DEF Follows, Aligned, Announcing, Decoding, ParserState, ParserCount, NoStatus,
        ToDlc, ToEsi, ToFdf, ToRrs, ToIde
<1>6. CASE field = "eof"
  <2>1. fsm_cnt = pos + 3 /\ field' = "eof" /\ pos' = pos + 1 /\ b = 1
    BY <1>1, <1>2, <1>3, <1>6 DEF ParserCount
  <2>2. CASE pos /= 5
    <3>1. status' = NoStatus /\ fsm_state' = "EOF" /\ fsm_cnt' = fsm_cnt + 1 /\ pos' /= 6
      BY <1>1, <1>2, <1>6, <2>1, <2>2 DEF TailBit, LastTailBit, GoTo
    <3> QED
      BY <1>2, <1>4, <1>6, <2>1, <3>1
      DEF Follows, Aligned, Announcing, Decoding, ParserState, ParserCount, NoStatus,
          ToDlc, ToEsi, ToFdf, ToRrs, ToIde
  <2>3. CASE pos = 5
    <3>1. status' = [NoStatus EXCEPT !.eof = 1] /\ fsm_state' = "SLEEP" /\ pos' = 6
      BY <1>1, <2>1, <2>3 DEF TailBit, LastTailBit, GoTo
    <3> QED
      BY <1>2, <1>4, <2>1, <3>1
      DEF Decoding, NoStatus, ToDlc, ToEsi, ToFdf, ToRrs, ToIde
  <2> QED
    BY <2>2, <2>3
<1> QED
  BY <1>5, <1>6
-----------------------------------------------------------------------------
(* A sample point *)

\* Sender and destuffer stuff alike.
LEMMA SameStuffing ==
    ASSUME TypeOK, TxInv, Following, Aligned, Decoding, destuff_strobe = 0
    PROVE  /\ bs_insert = 1 <=> bs_state \in {"INSERT", "CRC_INSERT"}
           /\ bs_state = "MONITOR" => DynamicStuffed
           /\ bs_state \in {"CRC", "CRC_INSERT"} => FixedStuffed
           /\ bs_state = "DISABLE" => ~DynamicStuffed /\ ~FixedStuffed
           /\ bs_state \in {"MONITOR", "INSERT", "CRC", "CRC_INSERT", "DISABLE"}
<1>1. /\ Present /\ format.fdf \in {0, 1} /\ bs_insert \in {0, 1} /\ bs_disable \in {0, 1}
  BY FormatTypes DEF TypeOK, DestuffTypeOK, ParserTypeOK, TxInv, TxTypeOK, Bit
<1>2. CASE field \in ToDlc \cup {"data"}
  <2>1. fsm_state \in {"ABIT", "CTRL", "DATA"}
    BY <1>2 DEF Aligned, ParserState, ToDlc, ToEsi, ToFdf, ToRrs, ToIde
  <2>2. bs_state \in {"MONITOR", "INSERT"}
    BY <2>1 DEF Following, InStep
  <2> QED
    BY <1>2, <2>2 DEF Following, InStep, DynamicStuffed, FixedStuffed,
       ToDlc, ToEsi, ToFdf, ToRrs, ToIde
<1>3. CASE field \in {"sbc", "crc"}
  <2>1. fsm_state \in {"CRC_STF", "CRC"} /\ fd_mode = format.fdf
    BY <1>3 DEF Aligned, ParserState, Decoding, ToDlc, ToEsi, ToFdf, ToRrs, ToIde
  <2>2. IF format.fdf = 1 THEN bs_state \in {"CRC", "CRC_INSERT"}
                          ELSE bs_state \in {"MONITOR", "INSERT"}
    BY <1>1, <2>1 DEF Following, InStep
  <2> QED
    BY <1>1, <1>3, <2>2 DEF Following, InStep, DynamicStuffed, FixedStuffed, Present
<1>4. CASE field \in TailFields
  <2>1. fsm_state = "EOF"
    BY <1>4 DEF Aligned, ParserState, TailFields
  <2>2. bs_state \in {"DISABLE", "INSERT"}
    BY <2>1 DEF Following, InStep
  <2> QED
    BY <1>4, <2>2 DEF Following, InStep, DynamicStuffed, FixedStuffed, TailFields
<1> QED
  BY <1>1, <1>2, <1>3, <1>4 DEF Present, Fields, Aligned

\* The stuff bit is taken for one, and the announcements are down again
\* before it.
LEMMA StuffBitSampled ==
    ASSUME TypeOK, TxInv, Receiving, destuff_strobe = 0, dlc_ready = 0,
           NEW b \in Bit, SendStuff(b), SkipStuffBit(b), Following',
           UNCHANGED << bsVars, dlcVars >>
    PROVE  Receiving'
<1>1. /\ Following /\ Aligned /\ Announcing /\ Decoding /\ CaughtUp
  BY DEF Receiving, Destuffing
<1>2. /\ stuff = b /\ stuff' = NoStuff /\ last' = b /\ run' = 1 /\ stuff /= NoStuff
      /\ stuff = Not(last) /\ last \in {0, 1} /\ b \in {0, 1}
      /\ UNCHANGED << field, pos, format, id, group >>
  BY DEF SendStuff, TxInv, TxTypeOK, StuffDue, NoStuff, Bit
<1>3. /\ sample_buf' = b /\ destuff_strobe' = 1 /\ dlc_ready' = 0 /\ status' = NoStatus
      /\ UNCHANGED << fsm_state, fsm_cnt, fd_mode, ext_id, id_ready, id_buffer, dlc_buffer >>
      /\ UNCHANGED << bs_insert, bs_state, bs_last, data_width, crc_width >>
  BY DEF SkipStuffBit, TakeSample, bsVars, dlcVars
<1>4. Aligned'
  BY <1>1, <1>2, <1>3 DEF Aligned, ParserState, ParserCount
<1>5. Announcing'
  <2>1. /\ field /= "brs" /\ ~(field = "res" /\ format.fdf = 1)
        /\ format.fdf = 1 => field /= "crc_delimiter"
    BY <1>2 DEF TxInv, NoStuffBeforeBrs, StuffDue, DynamicStuffed, FixedStuffed
  <2> QED
    BY <1>2, <1>3, <2>1 DEF Announcing, NoStatus
<1>6. Decoding'
  BY <1>1, <1>2, <1>3 DEF Decoding
<1>7. Behind'
  <2>1. bs_insert = 1 /\ bs_state \in {"INSERT", "CRC_INSERT"} /\ bs_last = last
        /\ (bs_state = "CRC_INSERT" => FixedStuffed)
    BY <1>1, <1>2, SameStuffing DEF CaughtUp
  <2>2. bs_state = "CRC_INSERT" => group = 0
    BY <1>2, <2>1 DEF TxInv, StuffDue
  <2>3. last = Not(b)
    BY <1>2 DEF Not
  <2>4. Not(last') = Not(b)
    BY <1>2
  <2>5. Not(last)' = Not(last')
    BY DEF Not
  <2> QED
    BY <1>2, <1>3, <2>1, <2>2, <2>3, <2>4, <2>5 DEF Behind
<1> QED
  BY <1>3, <1>4, <1>5, <1>6, <1>7 DEF Receiving, Destuffing

\* What the destuffer will find when it hears of the bit.
LEMMA BehindParsedBit ==
    ASSUME TypeOK, TxInv, Receiving, destuff_strobe = 0,
           NEW b \in Bit, SendFieldBit(b), sample_buf' = b, Following', Follows,
           UNCHANGED bsVars
    PROVE  Behind'
<1>1. /\ Following /\ Aligned /\ Decoding /\ CaughtUp
      /\ Following' /\ Aligned' /\ Decoding'
  BY DEF Receiving, Destuffing, Follows
<1>2. /\ stuff = NoStuff /\ last' = b /\ last \in {0, 1} /\ b \in {0, 1} /\ run <= 4
      /\ run \in 1 .. 5 /\ group \in 0 .. 3 /\ Present /\ pos \in 0 .. FieldLen - 1
      /\ field /= "idle" /\ format.fdf \in {0, 1} /\ format \in Formats
      /\ Not(b) /= NoStuff
  BY FormatTypes DEF SendFieldBit, TxInv, TxTypeOK, StuffDue, Bit, Not, NoStuff
<1>3. /\ ~LastOfField => field' = field /\ pos' = pos + 1
      /\ LastOfField => field' = Successor /\ pos' = 0
      /\ format' = format /\ NextField = Successor
  BY <1>2, Advance, FieldOrder DEF TxInv
<1>4. /\ bs_insert = 0 /\ UNCHANGED << bs_state, bs_last, bs_run, bs_crc_cnt, bs_insert >>
  BY <1>1, <1>2 DEF CaughtUp, bsVars, TypeOK, DestuffTypeOK, Bit
<1>5. /\ bs_state \in {"MONITOR", "CRC", "DISABLE"}
      /\ bs_state = "MONITOR" => DynamicStuffed
      /\ bs_state = "CRC" => FixedStuffed
      /\ bs_state = "DISABLE" => ~DynamicStuffed /\ ~FixedStuffed
  BY <1>1, <1>4, SameStuffing
<1>6. ASSUME bs_state = "MONITOR"
      PROVE  /\ bs_run <= 4 /\ run' = (IF b = bs_last THEN bs_run + 1 ELSE 1)
             /\ stuff' /= NoStuff <=> bs_crc_mode' = 1 \/ run' = 5
  <2>1. /\ run' = RunWith(b) /\ DynamicStuffed /\ bs_run = run /\ bs_last = last
        /\ stuff' = IF AtBoundary \/ RunWith(b) = 5 THEN Not(b) ELSE NoStuff
    BY <1>1, <1>5, <1>6 DEF SendFieldBit, DynamicStuffed, CaughtUp
  <2>2. ASSUME AtBoundary
        PROVE  bs_crc_mode' = 1
    <3>1. field' = "sbc"
      BY <1>3, <2>2 DEF AtBoundary
    <3>2. fsm_state' = "CRC_STF"
      BY <1>1, <3>1 DEF Aligned, ParserState
    <3> QED
      BY <1>1, <3>2 DEF Following, InStep
  <2>3. ASSUME bs_crc_mode' = 1
        PROVE  AtBoundary
    <3>1. field' \in {"sbc", "crc"} /\ fd_mode' = 1
      <4>1. field' \notin ToDlc \cup {"data"} \cup TailFields
        <5>1. fsm_state' \notin {"ABIT", "CTRL", "DATA", "EOF"}
          BY <1>1, <2>3 DEF Following, InStep
        <5> QED
          BY <1>1, <5>1
          DEF Aligned, ParserState, ToDlc, ToEsi, ToFdf, ToRrs, ToIde, TailFields
      <4>2. field' \in Fields
        BY Advance DEF TxInv, Present
      <4>3. field' \in {"sbc", "crc"}
        BY <1>1, <4>1, <4>2 DEF Fields, Aligned
      <4>4. fsm_state' \in {"CRC_STF", "CRC"}
        BY <1>1, <4>3 DEF Aligned, ParserState
      <4> QED
        BY <1>1, <2>3, <4>3, <4>4 DEF Following, InStep
    <3>2. format.fdf = 1
      BY <1>1, <1>3, <3>1 DEF Decoding, ToFdf, ToRrs, ToIde
    <3>3. field \notin {"sbc", "crc"}
      BY <2>1, <3>2 DEF DynamicStuffed, FixedStuffed
    <3>4. LastOfField /\ Successor \in {"sbc", "crc"}
      BY <1>3, <3>1, <3>3
    <3> QED
      BY <1>3, <3>2, <3>3, <3>4 DEF AtBoundary, Successor
  <2>4. bs_run <= 4 /\ run' = (IF b = bs_last THEN bs_run + 1 ELSE 1)
    BY <1>2, <2>1 DEF RunWith
  <2> QED
    BY <1>2, <2>1, <2>2, <2>3, <2>4
<1>7. ASSUME bs_state = "CRC"
      PROVE  /\ group' = (bs_crc_cnt + 1) % 4
             /\ stuff' /= NoStuff <=> bs_crc_cnt = 3 /\ bs_disable' = 0
  <2>1. /\ FixedStuffed /\ group' = (group + 1) % 4 /\ bs_crc_cnt = group
        /\ stuff' = IF group = 3 THEN Not(b) ELSE NoStuff
    BY <1>1, <1>5, <1>7 DEF SendFieldBit, DynamicStuffed, CaughtUp
  <2>2. ASSUME group = 3
        PROVE  bs_disable' = 0
    <3>1. ~(field = "crc" /\ LastOfField)
      <4>1. SUFFICES ASSUME field = "crc", LastOfField PROVE FALSE
        OBVIOUS
      <4>2. pos = CrcWidth(format.dlc, format.fdf) - 1 /\ format.fdf = 1 /\ group = pos % 4
        BY <2>1, <4>1 DEF LastOfField, FieldLen, FixedStuffed, TxInv, StuffDue
      <4>3. CrcWidth(format.dlc, format.fdf) \in Nat \ {0}
            /\ CrcWidth(format.dlc, format.fdf) % 4 /= 0
        BY <1>2, <4>2, FormatWidths
      <4> QED
        BY <2>2, <4>2, <4>3
    <3>2. field' \in {"sbc", "crc"}
      BY <1>3, <2>1, <3>1 DEF FixedStuffed, Successor
    <3>3. fsm_state' \in {"CRC_STF", "CRC"}
      BY <1>1, <3>2 DEF Aligned, ParserState
    <3> QED
      BY <1>1, <3>3 DEF Following, InStep
  <2> QED
    BY <1>2, <2>1, <2>2
<1>8. ASSUME bs_state = "DISABLE"
      PROVE  stuff' = NoStuff
  BY <1>5, <1>8 DEF SendFieldBit
<1> QED
  BY <1>2, <1>4, <1>5, <1>6, <1>7, <1>8 DEF Behind

\* A sample point of a frame.
LEMMA SampleReceived ==
    ASSUME TypeOK, TxInv, Receiving, destuff_strobe = 0, dlc_ready = 0,
           NEW b \in Bit, Send(b), Clock(1, b, 0)
    PROVE  Receiving' \/ Leaving'
<1>1. /\ Following /\ Aligned /\ Announcing /\ Decoding /\ CaughtUp
  BY DEF Receiving, Destuffing
<1>2. bs_insert = 1 <=> bs_state \in {"INSERT", "CRC_INSERT"}
  BY <1>1, SameStuffing
<1>3. bs_insert \in {0, 1} /\ last \in {0, 1} /\ b \in {0, 1}
      /\ stuff \in {NoStuff, Not(last)}
  BY DEF TypeOK, DestuffTypeOK, TxInv, TxTypeOK, StuffDue, Bit
<1>4. IF stuff /= NoStuff THEN SendStuff(b) ELSE SendFieldBit(b)
  BY <1>3 DEF Send, SendStuff, SendFieldBit, NoStuff
<1>5. ~StuffError(1, b)
  <2>1. SUFFICES ASSUME StuffError(1, b) PROVE FALSE
    OBVIOUS
  <2>2. bs_state \in {"INSERT", "CRC_INSERT"} /\ bs_last = b /\ stuff /= NoStuff
    BY <1>1, <1>2, <2>1 DEF StuffError, CaughtUp
  <2>3. bs_last = last /\ stuff = b /\ stuff = Not(last)
    BY <1>1, <1>3, <1>4, <2>2 DEF CaughtUp, SendStuff
  <2> QED
    BY <1>3, <2>2, <2>3 DEF Not
<1>6. /\ SkipStuffBit(b) \/ ParseBit(b)
      /\ UNCHANGED << bsVars, dlcVars >>
  <2>1. ParserClock(1, b, 0) /\ DestuffClock(1, b, 0) /\ DlcClock(0) /\ ~Asleep(0)
    BY <1>1 DEF Clock, Following, Asleep
  <2>2. SkipStuffBit(b) \/ ParseBit(b)
    BY <1>5, <2>1 DEF ParserClock, ParserSleep, ParserStuffError
  <2>3. bs_state /= "SLEEP"
    BY <1>1, SameStuffing
  <2>4. UNCHANGED bsVars
    BY <1>5, <2>1, <2>3 DEF DestuffClock, DestuffSleep
  <2>5. UNCHANGED dlcVars
    BY <2>1 DEF DlcClock
  <2> QED
    BY <2>2, <2>4, <2>5
<1>7. (fsm_state' = "SLEEP" /\ status'.eof = 1) \/ Following'
  BY <1>1, PhaseOfSample
<1>8. CASE stuff /= NoStuff
  <2>1. SkipStuffBit(b) /\ SendStuff(b)
    BY <1>1, <1>4, <1>6, <1>8 DEF CaughtUp, ParseBit
  <2>2. fsm_state' /= "SLEEP"
    BY <1>1, <2>1 DEF SkipStuffBit, Following
  <2> QED
    BY <1>6, <1>7, <2>1, <2>2, StuffBitSampled
<1>9. CASE stuff = NoStuff
  <2>1. ParseBit(b) /\ SendFieldBit(b)
    BY <1>1, <1>4, <1>6, <1>9 DEF CaughtUp, SkipStuffBit
  <2>2. UNCHANGED << data_width, crc_width >>
    BY <1>6 DEF dlcVars
  <2>3. CommonBit(b)
    BY <1>1, <2>1, <2>2 DEF CommonBit
  <2>4. \/ Follows
        \/ /\ fsm_state' = "SLEEP" /\ status'.eof = 1 /\ Decoding'
           /\ field' = "eof" /\ pos' = 6
    <3>1. field \in ToRrs \/ field \in {"fdf", "res", "brs", "esi"} \/ field = "dlc"
          \/ field \in {"data", "sbc", "crc"} \/ field \in TailFields
      BY <1>1 DEF TxInv, TxTypeOK, Present, Fields, Aligned, ToDlc, ToEsi, ToFdf
    <3> QED
      BY <2>3, <3>1, ArbitrationFollows, ControlFollows, DlcFollows, CountedFollows,
         TailFollows
  <2>5. sample_buf' = b /\ destuff_strobe' = 1
    <3>1. fsm_state /= "ERRF"
      BY <1>1 DEF Aligned, ParserState
    <3> QED
      BY <2>1, <3>1 DEF ParseBit, TakeSample
  <2>6. CASE Follows
    <3>1. fsm_state' /= "SLEEP"
      <4>1. field' \in Fields
        BY <2>1, Advance DEF TxInv, Present
      <4> QED
        BY <2>6, <4>1 DEF Follows, Aligned, ParserState, Fields, TailFields, ToDlc, ToEsi,
           ToFdf, ToRrs, ToIde
    <3>2. Following'
      BY <1>7, <3>1
    <3>3. Behind'
      BY <1>6, <2>1, <2>5, <2>6, <3>2, BehindParsedBit
    <3> QED
      BY <2>5, <2>6, <3>2, <3>3 DEF Receiving, Destuffing, Follows
  <2>7. CASE /\ fsm_state' = "SLEEP" /\ status'.eof = 1 /\ Decoding'
             /\ field' = "eof" /\ pos' = 6
    <3>1. TxInv'
      BY SenderSteps
    <3>2. stuff' = NoStuff
      BY <2>7, <3>1 DEF TxInv, StuffDue, DynamicStuffed, FixedStuffed
    <3> QED
      BY <2>7, <3>2 DEF Leaving, Done
  <2> QED
    BY <2>4, <2>6, <2>7
<1> QED
  BY <1>8, <1>9
-----------------------------------------------------------------------------
(* The other edges *)

\* The destuffer hears of the last bit and finds what the sender has due.
LEMMA CatchingUp ==
    ASSUME TypeOK, GroupOpen, Following, Aligned, Behind, destuff_strobe = 1,
           Present, last \in {0, 1}, Clock(0, 1, 0), UNCHANGED txVars
    PROVE  CaughtUp'
<1>1. /\ ParserHold /\ DestuffClock(0, 1, 0) /\ ~StuffError(0, 1)
  BY DEF Clock, ParserClock, ParserSleep, ParserStuffError, Following, Asleep, StuffError
<1>2. /\ bs_insert = 1 <=> bs_state \in {"INSERT", "CRC_INSERT"}
      /\ bs_state \in {"MONITOR", "INSERT", "CRC", "CRC_INSERT", "DISABLE"}
      /\ bs_state = "DISABLE" => bs_disable = 1
      /\ bs_run \in 1 .. 5 /\ bs_crc_cnt \in 0 .. 4 /\ (bs_state = "CRC" => bs_crc_cnt <= 3)
      /\ bs_last \in {0, 1} /\ bs_disable \in {0, 1} /\ bs_crc_mode \in {0, 1}
      /\ fd_mode \in {0, 1}
  <2>1. fsm_state \in {"ABIT", "CTRL", "DATA", "CRC_STF", "CRC", "EOF"}
    BY DEF Aligned, ParserState, Present, Fields, TailFields, ToDlc, ToEsi, ToFdf, ToRrs, ToIde
  <2>2. /\ bs_run \in 1 .. 5 /\ bs_crc_cnt \in 0 .. 4 /\ (bs_state = "CRC" => bs_crc_cnt <= 3)
        /\ bs_last \in {0, 1} /\ bs_disable \in {0, 1} /\ bs_crc_mode \in {0, 1}
        /\ fd_mode \in {0, 1}
    BY DEF TypeOK, ParserTypeOK, DestuffTypeOK, GroupOpen, Bit
  <2> QED
    BY <2>1, <2>2 DEF Following, InStep
<1>3. UNCHANGED << stuff, last, run, group >> /\ sample_buf = last
  BY DEF txVars, Behind
<1>4. \/ DestuffMonitor \/ DestuffInsert \/ DestuffCrc
      \/ DestuffCrcInsert \/ DestuffDisable
  BY <1>1, <1>2 DEF DestuffClock, DestuffSleep, DestuffStuck
<1>5. CASE DestuffMonitor
  <2>1. FiveEqual <=> run = 5
    BY <1>2, <1>3, <1>5 DEF DestuffMonitor, Behind, FiveEqual
  <2>2. /\ bs_insert' = 1 <=> stuff /= NoStuff
        /\ bs_last' = last /\ bs_state' /= "CRC"
    BY <1>2, <1>3, <1>5, <2>1 DEF DestuffMonitor, Behind, BsShiftIn
  <2>3. bs_state' = "MONITOR" => bs_run' = run
    BY <1>2, <1>3, <1>5, <2>1 DEF DestuffMonitor, Behind, BsShiftIn, FiveEqual
  <2> QED
    BY <1>3, <2>2, <2>3 DEF CaughtUp
<1>6. CASE DestuffInsert
  BY <1>2, <1>3, <1>6 DEF DestuffInsert, Behind, BsShiftIn, CaughtUp, Not
<1>7. CASE DestuffCrc
  <2>1. /\ bs_insert' = 1 <=> stuff /= NoStuff
        /\ bs_last' = last /\ bs_state' /= "MONITOR"
        /\ bs_state' = "CRC" => bs_crc_cnt' = bs_crc_cnt + 1 /\ bs_crc_cnt <= 2
        /\ group = (bs_crc_cnt + 1) % 4
    BY <1>2, <1>3, <1>7 DEF DestuffCrc, Behind, BsShiftIn
  <2>2. bs_state' = "CRC" => bs_crc_cnt' = group
    BY <1>2, <2>1
  <2> QED
    BY <1>3, <2>1, <2>2 DEF CaughtUp
<1>8. CASE DestuffCrcInsert
  BY <1>2, <1>3, <1>8 DEF DestuffCrcInsert, Behind, BsShiftIn, CaughtUp
<1>9. CASE DestuffDisable
  BY <1>2, <1>3, <1>9 DEF DestuffDisable, Behind, CaughtUp
<1> QED
  BY <1>4, <1>5, <1>6, <1>7, <1>8, <1>9

\* An edge between two sample points of a frame.
LEMMA EdgeReceived ==
    ASSUME TypeOK, GroupOpen, TxInv, Receiving, Clock(0, 1, 0), UNCHANGED txVars
    PROVE  Receiving'
<1>1. /\ Following /\ Aligned /\ Announcing /\ Decoding
      /\ IF destuff_strobe = 1 THEN Behind ELSE CaughtUp
  BY DEF Receiving, Destuffing
<1>2. Following' /\ destuff_strobe' = 0
  BY <1>1, PhaseOfEdge DEF Bit
<1>3. ParserHold /\ DestuffClock(0, 1, 0) /\ DlcClock(0) /\ ~StuffError(0, 1)
  BY <1>1 DEF Clock, ParserClock, ParserSleep, ParserStuffError, Following, Asleep,
     StuffError
<1>4. UNCHANGED << field, pos, format, id, stuff, last, run, group >>
  BY DEF txVars
<1>5. Aligned'
  BY <1>1, <1>3, <1>4 DEF Aligned, ParserHold, ParserState, ParserCount
<1>6. Announcing'
  BY <1>1, <1>3, <1>4 DEF Announcing, ParserHold
<1>7. Decoding'
  <2>1. /\ dlc_ready \in {0, 1}
        /\ dlc_ready = 1 => /\ data_width' = DataWidth(dlc_buffer)
                            /\ crc_width' = CrcWidth(dlc_buffer, fd_mode)
        /\ dlc_ready = 0 => UNCHANGED << data_width, crc_width >>
    BY <1>3, WidthsLoaded DEF Bit, TypeOK, ParserTypeOK
  <2>2. field \notin ToDlc => dlc_buffer = format.dlc /\ fd_mode = format.fdf
    BY <1>1 DEF Decoding, ToDlc, ToEsi, ToFdf
  <2>3. field \notin ToDlc => data_width' = DataWidth(format.dlc)
                              /\ crc_width' = CrcWidth(format.dlc, format.fdf)
    BY <1>1, <2>1, <2>2 DEF Decoding
  <2> QED
    BY <1>1, <1>3, <1>4, <2>3 DEF Decoding, ParserHold
<1>8. CaughtUp'
  <2>1. CASE destuff_strobe = 1
    BY <1>1, <2>1, CatchingUp DEF TxInv, TxTypeOK, Bit
  <2>2. CASE destuff_strobe = 0
    <3>1. bs_state /= "SLEEP"
      BY <1>1, <2>2, SameStuffing
    <3>2. UNCHANGED bsVars
      BY <1>3, <2>2, <3>1 DEF DestuffClock, DestuffSleep
    <3> QED
      BY <1>1, <1>4, <2>2, <3>2 DEF CaughtUp, bsVars
  <2> QED
    BY <2>1, <2>2 DEF TypeOK, ParserTypeOK, Bit
<1> QED
  BY <1>2, <1>5, <1>6, <1>7, <1>8 DEF Receiving, Destuffing

\* The first edge after the wake-up: parser and destuffer are where SOF comes.
LEMMA FrameEntered ==
    ASSUME Entering, Clock(0, 1, 0), UNCHANGED txVars
    PROVE  Receiving'
<1>1. Following' /\ destuff_strobe' = 0
  BY PhaseOfStart DEF Entering, Bit
<1>2. ParserSleep(0) /\ DestuffSleep(0)
  BY DEF Entering, Starting, Clock, ParserClock, Asleep, DestuffClock
<1>3. /\ field' = "sof" /\ pos' = 0 /\ id' = 0 /\ stuff' = NoStuff /\ last' = 1 /\ run' = 1
  BY DEF txVars, Entering
<1>4. fsm_state' = "ABIT" /\ fsm_cnt' = 0
  BY <1>2 DEF Entering, Starting, ParserSleep, GoTo
<1>5. Aligned'
  BY <1>3, <1>4 DEF Aligned, ParserState, ParserCount
<1>6. Announcing' /\ Decoding'
  BY <1>2, <1>3 DEF Announcing, Decoding, ParserSleep, NoStatus, ToDlc, ToEsi, ToFdf,
     ToRrs, ToIde
<1>7. CaughtUp'
  BY <1>2, <1>3 DEF CaughtUp, DestuffSleep, BsShiftReset
<1> QED
  BY <1>1, <1>5, <1>6, <1>7 DEF Receiving, Destuffing

\* While the timer unit is asleep the parser is; the edge on which it falls
\* asleep still lets the parser out for one edge.
LEMMA AwayEdge ==
    ASSUME Clock(0, 1, 1)
    PROVE  fsm_state' = "SLEEP"
  BY DEF Clock, ParserClock, ParserSleep, Asleep, GoTo

LEMMA DoneEdge ==
    ASSUME fsm_state = "SLEEP", Clock(0, 1, 0)
    PROVE  fsm_state' = "ABIT"
  BY DEF Clock, ParserClock, ParserSleep, Asleep, GoTo

\* The rest of EOF and the interframe space go by unsampled.
LEMMA UnsampledBit ==
    ASSUME TxInv, Away, Send(1)
    PROVE  /\ field' \in {"ifs", "idle"} \/ (field' = "eof" /\ pos' = 6)
           /\ stuff' = NoStuff
<1>1. SendFieldBit(1) /\ field \in {"eof", "ifs"} /\ stuff = NoStuff
      /\ (field = "eof" => pos = 6)
  BY DEF Away, Send, SendStuff, SendFieldBit, NoStuff
<1>2. stuff' = NoStuff
  BY <1>1 DEF SendFieldBit, DynamicStuffed, FixedStuffed
<1>3. /\ ~LastOfField => field' = field /\ pos' = pos + 1
      /\ LastOfField => field' = Successor
  BY <1>1, Advance DEF TxInv, Bit
<1>4. field = "eof" => LastOfField
  BY <1>1 DEF LastOfField, FieldLen
<1> QED
  BY <1>1, <1>2, <1>3, <1>4 DEF Successor
=============================================================================
