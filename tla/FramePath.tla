------------------------------ MODULE FramePath ------------------------------
(***************************************************************************)
(* Parser and destuffer fed by the encoder: every bit the sender puts on   *)
(* the bus is sampled once, with any number of clock edges between two     *)
(* sample points. The question is whether the parser takes the frame apart *)
(* as the sender put it together.                                          *)
(***************************************************************************)
EXTENDS CanFsm, BitClock, FrameTx

pathVars == << fsmVars, clockVars, txVars >>

PathInit == Init /\ ClockInit /\ TxInit

\* The falling edge of SOF wakes the timer unit.
Begin ==
    /\ StartFrame
    /\ Woken
    /\ Clock(0, 1, Sleep)

SampleSent(b) ==
    /\ Send(b)
    /\ Strobed(status.eof)
    /\ Clock(1, b, Sleep)

ClockEdge ==
    /\ Ticked(status.eof)
    /\ Clock(0, 1, Sleep)
    /\ UNCHANGED txVars

\* The end of the frame goes by while the timer unit is asleep already.
SendUnsampled ==
    /\ awake = 0
    /\ Send(1)
    /\ Ticked(0)
    /\ Clock(0, 1, Sleep)

PathNext ==
    \/ Begin
    \/ \E b \in Bit : SampleSent(b)
    \/ SendUnsampled
    \/ ClockEdge

PathSpec == PathInit /\ [][PathNext]_pathVars
-----------------------------------------------------------------------------
(* Properties *)

Framed == field \notin {"idle", "ifs"}

\* At every sample point the parser is at the bit the sender is about to
\* send: same field, same position, through dynamic stuffing, the switch to
\* fixed stuffing, the jumps of the control field and every DLC; and it
\* expects a stuff bit exactly when one comes.
ParserAligned ==
    StrobeReady =>
        /\ Framed
        /\ fsm_state = ParserState /\ fsm_cnt = ParserCount
        /\ bs_insert = 1 <=> stuff /= NoStuff

\* What the parser hands to the memory unit and the override unit is what was
\* sent: identifier and format from id_ready on, the DLC from dlc_ready on.
Decoded ==
    awake = 1 /\ Framed =>
        /\ id_ready = 1 => id_buffer = id /\ ext_id = format.ide
        /\ dlc_ready = 1 => dlc_buffer = format.dlc /\ fd_mode = format.fdf

\* The announcements reach the timer unit for the very bit they announce, no
\* stuff bit between: the flag is up at the sample point where the rate
\* changes, and at no other (shift_speed samples it there; hard_sync_req
\* acts on the edge into the reserved bit).
AnnouncedInTime ==
    StrobeReady =>
        /\ status.brs = 1 <=> field = "brs"
        /\ status.sync = 1 <=> field = "res" /\ format.fdf = 1
        /\ format.fdf = 1 =>
              (status.crc_del = 1 <=> field = "crc_delimiter")
        /\ status.err = 0

\* The parser lets go of the frame within its own EOF field, in time for the
\* SOF that may follow the interframe space.
ReleasedInTime == field \in {"ifs", "idle"} => fsm_state \in {"SLEEP", "ABIT"} /\ awake = 0
=============================================================================
