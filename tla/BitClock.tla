------------------------------ MODULE BitClock ------------------------------
(***************************************************************************)
(* What the parser and the override unit rely on from the timer unit:      *)
(* whether a frame is being followed (tu_active_r; sleep_i is its          *)
(* negation) and how far apart the sample strobes are.                     *)
(*                                                                         *)
(* state_mgmt of timer_unit.vhd leaves ACTIVE one edge after eof_stat, and *)
(* at any edge for a rejected glitch or a rising cfg_en; it enters ACTIVE  *)
(* on a falling edge of the bus. Two sample points are MinGap edges apart: *)
(* the time quantum counter has to leave end_val_ph1 - 1 and come back to  *)
(* it, which takes as long as the shortest bit of the configuration does.  *)
(* TimerBus is the timer unit in detail and checked to implement this.     *)
(***************************************************************************)
EXTENDS Integers

CONSTANT MinGap     \* edges from one sample strobe to the next, at least

ASSUME MinGapAssumption == MinGap \in Nat /\ MinGap >= 2

VARIABLES
    awake,          \* tu_active_r
    since           \* edges since the last strobe or wake-up, up to MinGap

clockVars == << awake, since >>

ClockTypeOK == awake \in {0, 1} /\ since \in 0 .. MinGap
ClockInit == awake = 0 /\ since = 0

Sleep == 1 - awake                      \* sleep_o
StrobeReady == awake = 1 /\ since = MinGap

Age == since' = IF since < MinGap THEN since + 1 ELSE MinGap

\* A sample point. The strobe is a register of its own, so it still arrives
\* when the frame ends at the same edge.
Strobed(eof) == StrobeReady /\ since' = 0 /\ awake' = 1 - eof

Ticked(eof) == awake' = (IF eof = 1 THEN 0 ELSE awake) /\ Age

\* SLEEP to ACTIVE on a falling edge.
Woken == awake = 0 /\ awake' = 1 /\ since' = 0

\* ACTIVE to SLEEP or CONFIG: glitch, cfg_en, reset.
Aborted == awake = 1 /\ awake' = 0 /\ Age

ClockNext ==
    \/ \E eof \in {0, 1} : Strobed(eof) \/ Ticked(eof)
    \/ Woken \/ Aborted
ClockSpec == ClockInit /\ [][ClockNext]_clockVars
=============================================================================
