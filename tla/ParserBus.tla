------------------------------ MODULE ParserBus ------------------------------
(***************************************************************************)
(* The parser on an arbitrary bus: any bit at any sample point, frames cut *)
(* short by cfg_en or glitch rejection, resets at any edge. Nothing is     *)
(* assumed of the other nodes but, for liveness, that the bus goes quiet.  *)
(***************************************************************************)
EXTENDS CanFsm, BitClock

VARIABLES
    quiet,          \* 1 once every node stays recessive for good
    recessive       \* ghost: recessive samples in a row of this frame, to 7

busVars == << fsmVars, clockVars, quiet, recessive >>

\* The registers with a range of their own (can_fsm.vhd:84, 94, 96).
BusTypeOK ==
    /\ TypeOK /\ ClockTypeOK
    /\ fsm_cnt \in 0 .. MaxCnt /\ data_width \in 0 .. MaxCnt
    /\ crc_width \in {0, CrcClassic, CrcFdShort, CrcFdLong}
    /\ quiet \in Bit /\ recessive \in 0 .. 7

BusInit == Init /\ ClockInit /\ quiet = 0 /\ recessive = 0

SampleBit(s) ==
    /\ s = 1 \/ quiet = 0
    /\ Strobed(status.eof)
    /\ Clock(1, s, Sleep)
    /\ recessive' = IF s = 0 THEN 0
                    ELSE IF recessive < 7 THEN recessive + 1 ELSE 7
    /\ UNCHANGED quiet

Idle ==
    /\ Ticked(status.eof)
    /\ Clock(0, 1, Sleep)
    /\ UNCHANGED << quiet, recessive >>

WakeUp ==
    /\ quiet = 0
    /\ Woken
    /\ Clock(0, 1, Sleep)
    /\ recessive' = 0
    /\ UNCHANGED quiet

Abort ==
    /\ Aborted
    /\ Clock(0, 1, Sleep)
    /\ UNCHANGED << quiet, recessive >>

ResetEdge ==
    /\ Reset
    /\ awake' = 0 /\ since' = 0
    /\ UNCHANGED << quiet, recessive >>

FallSilent == quiet = 0 /\ quiet' = 1 /\ UNCHANGED << fsmVars, clockVars, recessive >>

BusNext ==
    \/ \E s \in Bit : SampleBit(s)
    \/ Idle \/ WakeUp \/ Abort \/ ResetEdge \/ FallSilent

BusSpec == BusInit /\ [][BusNext]_busVars

\* The clock runs, and the timer unit keeps sampling while it is active.
BusFairness ==
    /\ WF_busVars(Idle)
    /\ WF_busVars(\E s \in Bit : SampleBit(s))
BusFairSpec == BusSpec /\ BusFairness
-----------------------------------------------------------------------------
(* Properties *)

Settled == destuff_strobe = 0 /\ dlc_ready = 0

\* Every field has a last bit and the counter never gets past it. The parser
\* leaves a field on "counter = last bit" (can_fsm.vhd:489, 509, 545, 593): a
\* counter that slipped by would never match and the parser would hang until
\* the next sleep. In DATA and CRC the bound is a register that is loaded only
\* two edges after the last DLC bit.
CounterInField ==
    /\ fsm_state = "ABIT"    => fsm_cnt <= LastRtrPos
    /\ fsm_state = "CTRL"    => fsm_cnt <= 7
    /\ fsm_state = "DATA"    => \/ fsm_cnt < data_width
                                \/ fsm_cnt = 0 /\ dlc_ready = 1
    /\ fsm_state = "CRC_STF" => fsm_cnt <= 3
    /\ fsm_state = "CRC"     => \/ fsm_cnt < crc_width
                                \/ fsm_cnt = 0 /\ dlc_ready = 1
    /\ fsm_state = "EOF"     => fsm_cnt <= 8
    /\ fsm_state \in {"ERRF", "AWAIT_EOF"} => fsm_cnt <= 6
    /\ fsm_cnt < MaxCnt \/ fsm_cnt <= LastRtrPos

\* A bit of the payload or the CRC is never counted against the widths of an
\* earlier frame: from the edge after dlc_ready on, the width registers are
\* those of the DLC and the format of the frame on the bus.
WidthsFresh ==
    fsm_state \in {"DATA", "CRC_STF", "CRC"} /\ dlc_ready = 0 =>
        /\ data_width = DataWidth(dlc_buffer)
        /\ crc_width = CrcWidth(dlc_buffer, fd_mode)

\* Parser and destuffer agree on the phase of the frame although they change
\* it on different edges: fixed stuffing is on in the FD CRC fields only, the
\* destuffer is dead exactly while the parser sits out an error or the tail.
StufferInStep ==
    Settled /\ awake = 1 =>
        /\ fsm_state \in {"ABIT", "CTRL", "DATA"} =>
              bs_state \in {"MONITOR", "INSERT"}
        /\ fsm_state \in {"CRC_STF", "CRC"} =>
              bs_state \in (IF fd_mode = 1 THEN {"CRC", "CRC_INSERT"}
                                           ELSE {"MONITOR", "INSERT"})
        /\ fsm_state = "EOF" =>
              bs_state \in {"DISABLE"} \cup
                           (IF fd_mode = 0 /\ fsm_cnt = 0 THEN {"INSERT"} ELSE {})
        /\ fsm_state \in {"ERRF", "AWAIT_EOF"} =>
              bs_state \in {"BS_ERROR", "DISABLE"}

\* The identifier the memory unit matches does not change between id_ready
\* and the end of the frame, nor do, once they are parsed, the frame format
\* and the DLC that the override unit and the width decoder work with.
IdStable ==
    [][ id_ready = 1 /\ id_ready' = 1 /\ fsm_state' /= "SLEEP" =>
          /\ UNCHANGED << id_buffer, ext_id >>
          /\ fsm_state /= "CTRL" \/ fsm_cnt > 0 => UNCHANGED fd_mode
          /\ fsm_state /= "CTRL" => UNCHANGED dlc_buffer ]_busVars

\* Nothing of an earlier frame, whichever way it ended (EOF, error, abort,
\* reset), is left when the parser takes a SOF: can_fsm.vhd resets most of its
\* registers only by passing through SLEEP, and each process does it on its own.
FrameStartsClean ==
    /\ StrobeReady => fsm_state \notin {"RESET", "SLEEP"} /\ bs_state /= "SLEEP"
    /\ StrobeReady /\ fsm_state = "ABIT" /\ fsm_cnt = 0 =>
          /\ << id_ready, id_buffer, dlc_ready, dlc_buffer >> = << 0, 0, 0, 0 >>
          /\ << fd_mode, ext_id, bs_disable, bs_crc_mode >> = << 0, 0, 0, 0 >>
          /\ << data_width, crc_width >> = << 0, 0 >> /\ status = NoStatus
          /\ bs_state = "MONITOR" /\ bs_insert = 0 /\ bs_crc_cnt = 0
          /\ bs_run = 1 /\ bs_last = 1 /\ destuff_strobe = 0 /\ sample_buf = 1

\* Whatever was sampled before, a silent bus gets the parser and the timer
\* unit back to sleep: no field, no error path waits for ever.
SilentBusReleases == quiet = 1 ~> [](awake = 0 /\ fsm_state = "SLEEP")
=============================================================================
