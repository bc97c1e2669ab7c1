------------------------------- MODULE CanFsm -------------------------------
(***************************************************************************)
(* can_fsm.vhd: the bit stream parser (parser_fsm), the destuffer          *)
(* (update_bs with its error gate bs_gate) and the DLC decoder (parse_dlc).*)
(*                                                                         *)
(* One step is one rising clock edge. Each VHDL process is an action of    *)
(* its own whose disjuncts are the branches of the process, in the order   *)
(* of their priority; Clock is their conjunction, because all registers    *)
(* are written at the same edge from their old values. The inputs of an    *)
(* edge are strb (sample_strb_i), s (sample_i) and sleep (sleep_i).        *)
(*                                                                         *)
(* Abstractions. bs_shift_r is kept as its newest bit bs_last and the      *)
(* length bs_run of the run of equal bits that ends in it (at most 5),     *)
(* which is all the unit ever asks of it. id_buffer_r keeps the low bits   *)
(* that IdModulus leaves. can_bit_type_r and the test bench buffers feed   *)
(* nothing and are left out.                                               *)
(***************************************************************************)
EXTENDS CanTypes

VARIABLES
    fsm_state, fsm_cnt,                 \* parser state and bit counter
    fd_mode, ext_id,                    \* frame format
    id_ready, id_buffer,                \* to the memory unit
    dlc_ready, dlc_buffer,
    bs_disable, bs_crc_mode,            \* parser to destuffer
    sample_buf, sample_ready,           \* registered sample
    destuff_strobe,
    status,                             \* the five flags for the timer unit
    data_width, crc_width,              \* decoded DLC
    bs_state, bs_insert, bs_last, bs_run, bs_crc_cnt

parserVars == << fsm_state, fsm_cnt, fd_mode, ext_id, id_ready, id_buffer,
                 dlc_ready, dlc_buffer, bs_disable, bs_crc_mode, sample_buf,
                 sample_ready, destuff_strobe, status >>
dlcVars == << data_width, crc_width >>
bsVars  == << bs_state, bs_insert, bs_last, bs_run, bs_crc_cnt >>
fsmVars == << parserVars, dlcVars, bsVars >>

\* Positions of the bits of the arbitration field that the parser looks for.
LastBaseId == BaseIdBits
IdePosEarly == BaseIdBits + 1           \* mutant: no RTR/SRR bit
IdePos     == BaseIdBits + 2
LastExtId  == BaseIdBits + ExtIdBits + 2
LastRtrPos == BaseIdBits + ExtIdBits + 3
IdPositionsShort == (1 .. LastBaseId) \cup (IdePos + 1 .. LastExtId - 1) \* mutant
IdPositions == (1 .. LastBaseId) \cup (IdePos + 1 .. LastExtId)

MaxCnt == 64 * ByteBits                 \* integer range 0 to 512

ASSUME CounterAssumption ==             \* arbitration and CRC fit the counter
    /\ LastRtrPos <= MaxCnt
    /\ {CrcClassic, CrcFdShort, CrcFdLong} \subseteq 1 .. MaxCnt

Statuses == [eof : Bit, brs : Bit, crc_del : Bit, err : Bit, sync : Bit]
NoStatus == [eof |-> 0, brs |-> 0, crc_del |-> 0, err |-> 0, sync |-> 0]

ParserTypeOK ==
    /\ fsm_state \in FsmStates /\ fsm_cnt \in Nat
    /\ fd_mode \in Bit /\ ext_id \in Bit
    /\ id_ready \in Bit /\ id_buffer \in 0 .. IdModulus - 1
    /\ dlc_ready \in Bit /\ dlc_buffer \in 0 .. 15
    /\ bs_disable \in Bit /\ bs_crc_mode \in Bit
    /\ sample_buf \in Bit /\ sample_ready \in Bit /\ destuff_strobe \in Bit
    /\ status \in Statuses
DestuffTypeOK ==
    /\ bs_state \in BsStates /\ bs_insert \in Bit /\ bs_last \in Bit
    /\ bs_run \in 1 .. 5 /\ bs_crc_cnt \in 0 .. 4
TypeOK ==
    /\ ParserTypeOK /\ DestuffTypeOK
    /\ data_width \in Nat /\ crc_width \in Nat

\* Power-up: the registers of the reset branch have their reset values, the
\* others the value 0 that the FPGA configuration gives a register.
Init ==
    /\ fsm_state = "SLEEP" /\ fsm_cnt = 0
    /\ fd_mode = 0 /\ ext_id = 0 /\ id_ready = 0 /\ id_buffer = 0
    /\ dlc_ready = 0 /\ dlc_buffer = 0
    /\ bs_disable = 0 /\ bs_crc_mode = 0
    /\ sample_buf = 0 /\ sample_ready = 0 /\ destuff_strobe = 0
    /\ status = NoStatus
    /\ data_width = 0 /\ crc_width = 0
    /\ bs_state = "SLEEP" /\ bs_insert = 0
    /\ bs_last = 0 /\ bs_run = 1 /\ bs_crc_cnt = 0      \* "01010"

\* The reset branch of clock_reg_assign: what it does not name keeps its
\* value, stale or not.
Reset ==
    /\ fsm_state' = "SLEEP" /\ bs_state' = "SLEEP"
    /\ bs_insert' = 0 /\ bs_crc_cnt' = 0 /\ bs_last' = 0 /\ bs_run' = 1
    /\ destuff_strobe' = 0 /\ data_width' = 0 /\ crc_width' = 0
    /\ status' = NoStatus /\ id_buffer' = 0 /\ dlc_buffer' = 0
    /\ UNCHANGED << fsm_cnt, fd_mode, ext_id, id_ready, dlc_ready,
                    bs_disable, bs_crc_mode, sample_buf, sample_ready >>
-----------------------------------------------------------------------------
(* Helpers of parser_fsm *)

Asleep(sleep) == fsm_state = "SLEEP" \/ sleep = 1

\* bs_gate: the bit that should be a stuff bit repeats its predecessor.
StuffError(strb, s) ==
    strb = 1 /\ bs_state \in {"INSERT", "CRC_INSERT"} /\ bs_last = s

GoToKeepsCount(next, delta) ==          \* mutant: the counter never restarts
    fsm_state' = next /\ fsm_cnt' = fsm_cnt + delta

\* The counter restarts on every state change.
GoTo(next, delta) ==
    /\ fsm_state' = next
    /\ fsm_cnt' = IF next = fsm_state THEN fsm_cnt + delta ELSE 0

ShiftDlc(s) == (2 * dlc_buffer + s) % 16
ShiftId(s)  == (2 * id_buffer + s) % IdModulus

EnterCrcUnannounced ==                  \* mutant: the destuffer is not told
    /\ GoTo(IF fd_mode = 1 THEN "CRC_STF" ELSE "CRC", 1)
    /\ UNCHANGED bs_crc_mode

\* The field after CTRL or DATA; in FD mode the fixed stuffing starts with it.
EnterCrc ==
    /\ GoTo(IF fd_mode = 1 THEN "CRC_STF" ELSE "CRC", 1)
    /\ bs_crc_mode' = fd_mode

\* What every sampled bit does to the sample registers.
TakeSample(s) == sample_buf' = s /\ sample_ready' = 1
-----------------------------------------------------------------------------
(* parser_fsm *)

ParserSleep(sleep) ==
    /\ Asleep(sleep)
    /\ GoTo(IF sleep = 0 THEN "ABIT" ELSE "SLEEP", 0)
    /\ id_ready' = 0 /\ dlc_ready' = 0 /\ id_buffer' = 0 /\ dlc_buffer' = 0
    /\ fd_mode' = 0 /\ ext_id' = 0 /\ bs_disable' = 0 /\ bs_crc_mode' = 0
    /\ status' = NoStatus /\ destuff_strobe' = 0
    /\ sample_buf' = 1 /\ sample_ready' = 0

ParserStuffError(strb, s) ==
    /\ StuffError(strb, s)
    /\ TakeSample(s)
    /\ GoTo("ERRF", 0)
    /\ status' = [NoStatus EXCEPT !.err = 1]
    /\ destuff_strobe' = 0 /\ dlc_ready' = 0
    /\ UNCHANGED << fd_mode, ext_id, id_ready, id_buffer, dlc_buffer,
                    bs_disable, bs_crc_mode >>

SkipStuffBit(s) ==
    /\ bs_insert = 1
    /\ TakeSample(s)
    /\ destuff_strobe' = 1 /\ dlc_ready' = 0 /\ status' = NoStatus
    /\ UNCHANGED << fsm_state, fsm_cnt, fd_mode, ext_id, id_ready, id_buffer,
                    dlc_buffer, bs_disable, bs_crc_mode >>

ArbitrationBitEager(s) ==               \* mutant: ready after the base identifier
    /\ fsm_state = "ABIT" /\ fsm_cnt /= LastRtrPos
    /\ fsm_cnt = IdePos => s = 1
    /\ id_buffer' = IF fsm_cnt \in IdPositions THEN ShiftId(s) ELSE id_buffer
    /\ ext_id' = IF fsm_cnt = IdePos THEN 1 ELSE ext_id
    /\ id_ready' = IF fsm_cnt = LastBaseId THEN 1 ELSE id_ready
    /\ GoTo("ABIT", 1)
    /\ status' = NoStatus /\ dlc_ready' = 0
    /\ UNCHANGED << fd_mode, dlc_buffer, bs_disable, bs_crc_mode >>

\* ABIT, all but the bits that end the field: SOF, identifier, RTR, an IDE
\* of 1.
ArbitrationBit(s) ==
    /\ fsm_state = "ABIT" /\ fsm_cnt /= LastRtrPos
    /\ fsm_cnt = IdePos => s = 1
    /\ id_buffer' = IF fsm_cnt \in IdPositions THEN ShiftId(s) ELSE id_buffer
    /\ ext_id' = IF fsm_cnt = IdePos THEN 1 ELSE ext_id
    /\ GoTo("ABIT", 1)
    /\ status' = NoStatus /\ dlc_ready' = 0
    /\ UNCHANGED << fd_mode, id_ready, dlc_buffer, bs_disable, bs_crc_mode >>

\* An IDE of 0, or the RTR bit of an extended identifier: the id is complete.
ArbitrationEnd(s) ==
    /\ fsm_state = "ABIT"
    /\ fsm_cnt = LastRtrPos \/ (fsm_cnt = IdePos /\ s = 0)
    /\ id_ready' = 1
    /\ GoTo("CTRL", 1)
    /\ status' = NoStatus /\ dlc_ready' = 0
    /\ UNCHANGED << fd_mode, ext_id, id_buffer, dlc_buffer, bs_disable,
                    bs_crc_mode >>

FdfBit(s) ==
    /\ fsm_state = "CTRL" /\ fsm_cnt = 0
    /\ fd_mode' = s
    /\ status' = [NoStatus EXCEPT !.sync = s]
    /\ GoTo("CTRL", IF s = 0 /\ ext_id = 0 THEN 4 ELSE 1)
    /\ dlc_ready' = 0
    /\ UNCHANGED << ext_id, id_ready, id_buffer, dlc_buffer, bs_disable,
                    bs_crc_mode >>

ReservedBitAlwaysBrs ==                 \* mutant: classic frames announce BRS
    /\ fsm_state = "CTRL" /\ fsm_cnt = 1
    /\ GoTo("CTRL", IF fd_mode = 0 /\ ext_id = 1 THEN 3 ELSE 1)
    /\ status' = [NoStatus EXCEPT !.brs = 1] /\ dlc_ready' = 0
    /\ UNCHANGED << fd_mode, ext_id, id_ready, id_buffer, dlc_buffer,
                    bs_disable, bs_crc_mode >>

ReservedBit ==
    /\ fsm_state = "CTRL" /\ fsm_cnt = 1
    /\ LET classic == fd_mode = 0 /\ ext_id = 1
       IN  /\ GoTo("CTRL", IF classic THEN 3 ELSE 1)
           /\ status' = [NoStatus EXCEPT !.brs = IF classic THEN 0 ELSE 1]
    /\ dlc_ready' = 0
    /\ UNCHANGED << fd_mode, ext_id, id_ready, id_buffer, dlc_buffer,
                    bs_disable, bs_crc_mode >>

BrsOrEsiBit ==
    /\ fsm_state = "CTRL" /\ fsm_cnt \in {2, 3}
    /\ GoTo("CTRL", 1)
    /\ status' = NoStatus /\ dlc_ready' = 0
    /\ UNCHANGED << fd_mode, ext_id, id_ready, id_buffer, dlc_buffer,
                    bs_disable, bs_crc_mode >>

DlcBit(s) ==
    /\ fsm_state = "CTRL" /\ fsm_cnt \in 4 .. 6
    /\ dlc_buffer' = ShiftDlc(s)
    /\ GoTo("CTRL", 1)
    /\ status' = NoStatus /\ dlc_ready' = 0
    /\ UNCHANGED << fd_mode, ext_id, id_ready, id_buffer, bs_disable,
                    bs_crc_mode >>

LastDlcBitNoSkip(s) ==                  \* mutant: DATA although there is none
    /\ fsm_state = "CTRL" /\ fsm_cnt = 7
    /\ dlc_buffer' = ShiftDlc(s) /\ dlc_ready' = 1
    /\ GoTo("DATA", 1) /\ UNCHANGED bs_crc_mode
    /\ status' = NoStatus
    /\ UNCHANGED << fd_mode, ext_id, id_ready, id_buffer, bs_disable >>

LastDlcBit(s) ==
    /\ fsm_state = "CTRL" /\ fsm_cnt = 7
    /\ dlc_buffer' = ShiftDlc(s) /\ dlc_ready' = 1
    /\ IF ShiftDlc(s) = 0
       THEN EnterCrc
       ELSE GoTo("DATA", 1) /\ UNCHANGED bs_crc_mode
    /\ status' = NoStatus
    /\ UNCHANGED << fd_mode, ext_id, id_ready, id_buffer, bs_disable >>

DataBit ==
    /\ fsm_state = "DATA"
    /\ IF fsm_cnt = data_width - 1
       THEN EnterCrc
       ELSE GoTo("DATA", 1) /\ UNCHANGED bs_crc_mode
    /\ status' = NoStatus /\ dlc_ready' = 0
    /\ UNCHANGED << fd_mode, ext_id, id_ready, id_buffer, dlc_buffer,
                    bs_disable >>

StuffCountBit ==
    /\ fsm_state = "CRC_STF"
    /\ GoTo(IF fsm_cnt >= 3 THEN "CRC" ELSE "CRC_STF", 1)
    /\ status' = NoStatus /\ dlc_ready' = 0
    /\ UNCHANGED << fd_mode, ext_id, id_ready, id_buffer, dlc_buffer,
                    bs_disable, bs_crc_mode >>

\* The last CRC bit switches the destuffer off and announces the delimiter.
CrcBit ==
    /\ fsm_state = "CRC"
    /\ IF fsm_cnt = crc_width - 1
       THEN /\ GoTo("EOF", 1)
            /\ bs_crc_mode' = 0 /\ bs_disable' = 1
            /\ status' = [NoStatus EXCEPT !.crc_del = 1]
       ELSE /\ GoTo("CRC", 1)
            /\ status' = NoStatus
            /\ UNCHANGED << bs_crc_mode, bs_disable >>
    /\ dlc_ready' = 0
    /\ UNCHANGED << fd_mode, ext_id, id_ready, id_buffer, dlc_buffer >>

TailBitNoAck(s) ==                      \* mutant: no bit for the ACK slot
    /\ fsm_state = "EOF" /\ fsm_cnt < 8
    /\ GoTo(IF fsm_cnt >= 3 /\ s = 0 THEN "ERRF" ELSE "EOF",
            IF fsm_cnt = 0 THEN 2 ELSE 1)
    /\ status' = NoStatus /\ dlc_ready' = 0
    /\ UNCHANGED << fd_mode, ext_id, id_ready, id_buffer, dlc_buffer,
                    bs_disable, bs_crc_mode >>

\* The tail: CRC delimiter and ACK whatever they are, then ACK delimiter and
\* EOF bits that must be recessive.
TailBit(s) ==
    /\ fsm_state = "EOF" /\ fsm_cnt < 8
    /\ GoTo(IF fsm_cnt >= 2 /\ s = 0 THEN "ERRF" ELSE "EOF", 1)
    /\ status' = NoStatus /\ dlc_ready' = 0
    /\ UNCHANGED << fd_mode, ext_id, id_ready, id_buffer, dlc_buffer,
                    bs_disable, bs_crc_mode >>

LastTailBitMute(s) ==                   \* mutant: eof_stat is not raised
    /\ fsm_state = "EOF" /\ fsm_cnt = 8
    /\ GoTo(IF s = 0 THEN "ERRF" ELSE "SLEEP", 1)
    /\ status' = NoStatus /\ dlc_ready' = 0
    /\ UNCHANGED << fd_mode, ext_id, id_ready, id_buffer, dlc_buffer,
                    bs_disable, bs_crc_mode >>

LastTailBit(s) ==
    /\ fsm_state = "EOF" /\ fsm_cnt = 8
    /\ GoTo(IF s = 0 THEN "ERRF" ELSE "SLEEP", 1)
    /\ status' = [NoStatus EXCEPT !.eof = s]
    /\ dlc_ready' = 0
    /\ UNCHANGED << fd_mode, ext_id, id_ready, id_buffer, dlc_buffer,
                    bs_disable, bs_crc_mode >>

ErrorFlagBit(s) ==
    /\ fsm_state = "ERRF"
    /\ GoTo(IF s = 1 \/ fsm_cnt >= 6 THEN "AWAIT_EOF" ELSE "ERRF", 1)
    /\ status' = NoStatus /\ dlc_ready' = 0
    /\ UNCHANGED << fd_mode, ext_id, id_ready, id_buffer, dlc_buffer,
                    bs_disable, bs_crc_mode >>

AwaitEofBitLow(s) ==                    \* mutant: waits for a low bus
    /\ fsm_state = "AWAIT_EOF"
    /\ IF fsm_cnt = 6
       THEN GoTo("SLEEP", 0) /\ status' = [NoStatus EXCEPT !.eof = 1]
       ELSE /\ GoTo("AWAIT_EOF", IF sample_buf = 0 /\ s = 0 THEN 1 ELSE 0)
            /\ status' = NoStatus
    /\ dlc_ready' = 0
    /\ UNCHANGED << fd_mode, ext_id, id_ready, id_buffer, dlc_buffer,
                    bs_disable, bs_crc_mode >>

\* Counts pairs of recessive samples. The branch meant to count down starts
\* from a variable that was just set to 0, so it never does.
AwaitEofBit(s) ==
    /\ fsm_state = "AWAIT_EOF"
    /\ IF fsm_cnt = 6
       THEN GoTo("SLEEP", 0) /\ status' = [NoStatus EXCEPT !.eof = 1]
       ELSE /\ GoTo("AWAIT_EOF", IF sample_buf = 1 /\ s = 1 THEN 1 ELSE 0)
            /\ status' = NoStatus
    /\ dlc_ready' = 0
    /\ UNCHANGED << fd_mode, ext_id, id_ready, id_buffer, dlc_buffer,
                    bs_disable, bs_crc_mode >>

\* The bit is parsed; every state but ERRF passes it on to the destuffer.
ParseBit(s) ==
    /\ bs_insert = 0
    /\ TakeSample(s)
    /\ destuff_strobe' = IF fsm_state = "ERRF" THEN 0 ELSE 1
    /\ \/ ArbitrationBit(s) \/ ArbitrationEnd(s)
       \/ FdfBit(s) \/ ReservedBit \/ BrsOrEsiBit \/ DlcBit(s) \/ LastDlcBit(s)
       \/ DataBit \/ StuffCountBit \/ CrcBit
       \/ TailBit(s) \/ LastTailBit(s)
       \/ ErrorFlagBit(s) \/ AwaitEofBit(s)

ParserHold ==
    /\ sample_ready' = 0 /\ destuff_strobe' = 0 /\ dlc_ready' = 0
    /\ UNCHANGED << fsm_state, fsm_cnt, fd_mode, ext_id, id_ready, id_buffer,
                    dlc_buffer, bs_disable, bs_crc_mode, sample_buf, status >>

ParserClock(strb, s, sleep) ==
    \/ ParserSleep(sleep)
    \/ /\ ~Asleep(sleep)
       /\ \/ ParserStuffError(strb, s)
          \/ strb = 1 /\ ~StuffError(strb, s) /\ (SkipStuffBit(s) \/ ParseBit(s))
          \/ strb = 0 /\ ParserHold
-----------------------------------------------------------------------------
(* update_bs: works on the sample that the parser registered one edge ago *)

BsShiftIn ==
    /\ bs_last' = sample_buf
    /\ bs_run' = IF sample_buf /= bs_last THEN 1
                 ELSE IF bs_run < 5 THEN bs_run + 1 ELSE 5
BsShiftReset == bs_last' = 1 /\ bs_run' = 1         \* "10101"
FiveEqual == sample_buf = bs_last /\ bs_run >= 4    \* after the shift

DestuffSleepKeepsGroup(sleep) ==        \* mutant: bs_crc_cnt is not reset
    /\ bs_state = "SLEEP" \/ sleep = 1
    /\ bs_state' = IF sleep = 0 THEN "MONITOR" ELSE "SLEEP"
    /\ bs_insert' = 0 /\ BsShiftReset /\ UNCHANGED bs_crc_cnt

DestuffSleep(sleep) ==
    /\ bs_state = "SLEEP" \/ sleep = 1
    /\ bs_state' = IF sleep = 0 THEN "MONITOR" ELSE "SLEEP"
    /\ bs_insert' = 0 /\ bs_crc_cnt' = 0 /\ BsShiftReset

DestuffError ==
    /\ bs_state' = "BS_ERROR" /\ bs_insert' = 0 /\ BsShiftReset
    /\ UNCHANGED bs_crc_cnt

\* In fixed-stuffing mode the first fixed stuff bit replaces the dynamic one.
DestuffMonitor ==
    /\ bs_state = "MONITOR"
    /\ BsShiftIn
    /\ bs_state' = IF bs_crc_mode = 1 THEN "CRC_INSERT"
                   ELSE IF FiveEqual THEN "INSERT"
                   ELSE IF bs_disable = 1 THEN "DISABLE" ELSE "MONITOR"
    /\ bs_insert' = IF bs_crc_mode = 1 \/ FiveEqual THEN 1 ELSE 0
    /\ UNCHANGED bs_crc_cnt

DestuffInsert ==
    /\ bs_state = "INSERT"
    /\ BsShiftIn
    /\ bs_state' = IF bs_disable = 1 THEN "DISABLE" ELSE "MONITOR"
    /\ bs_insert' = 0
    /\ UNCHANGED bs_crc_cnt

DestuffCrc ==
    /\ bs_state = "CRC"
    /\ BsShiftIn
    /\ LET group == bs_disable = 0 /\ bs_crc_cnt = 3
       IN  /\ bs_state' = IF bs_disable = 1 THEN "DISABLE"
                          ELSE IF group THEN "CRC_INSERT" ELSE "CRC"
           /\ bs_insert' = IF group THEN 1 ELSE 0
           /\ bs_crc_cnt' = IF group THEN 0 ELSE bs_crc_cnt + 1

DestuffCrcInsert ==
    /\ bs_state = "CRC_INSERT"
    /\ BsShiftIn
    /\ bs_state' = "CRC" /\ bs_insert' = 0 /\ bs_crc_cnt' = 0

DestuffDisable ==
    /\ bs_state = "DISABLE"
    /\ BsShiftReset
    /\ bs_state' = IF bs_disable = 0 THEN "MONITOR" ELSE "DISABLE"
    /\ bs_insert' = 0
    /\ UNCHANGED bs_crc_cnt

DestuffStuck ==
    /\ bs_state = "BS_ERROR" /\ bs_insert' = 0
    /\ UNCHANGED << bs_state, bs_last, bs_run, bs_crc_cnt >>

DestuffClock(strb, s, sleep) ==
    \/ DestuffSleep(sleep)
    \/ /\ bs_state /= "SLEEP" /\ sleep = 0
       /\ \/ StuffError(strb, s) /\ DestuffError
          \/ /\ ~StuffError(strb, s) /\ destuff_strobe = 1
             /\ \/ DestuffMonitor \/ DestuffInsert \/ DestuffCrc
                \/ DestuffCrcInsert \/ DestuffDisable \/ DestuffStuck
          \/ /\ ~StuffError(strb, s) /\ destuff_strobe = 0
             /\ UNCHANGED bsVars
-----------------------------------------------------------------------------
(* parse_dlc *)

DlcClockNotZero(sleep) ==               \* mutant: a DLC of 0 loads nothing
    \/ sleep = 1 /\ data_width' = 0 /\ crc_width' = 0
    \/ /\ sleep = 0 /\ dlc_ready = 1 /\ dlc_buffer /= 0
       /\ data_width' = DataWidth(dlc_buffer)
       /\ crc_width' = CrcWidth(dlc_buffer, fd_mode)
    \/ /\ sleep = 0 /\ (dlc_ready = 0 \/ dlc_buffer = 0)
       /\ UNCHANGED dlcVars

DlcClock(sleep) ==
    \/ sleep = 1 /\ data_width' = 0 /\ crc_width' = 0
    \/ /\ sleep = 0 /\ dlc_ready = 1
       /\ data_width' = DataWidth(dlc_buffer)
       /\ crc_width' = CrcWidth(dlc_buffer, fd_mode)
    \/ sleep = 0 /\ dlc_ready = 0 /\ UNCHANGED dlcVars
-----------------------------------------------------------------------------
Clock(strb, s, sleep) ==
    /\ ParserClock(strb, s, sleep)
    /\ DestuffClock(strb, s, sleep)
    /\ DlcClock(sleep)
=============================================================================
