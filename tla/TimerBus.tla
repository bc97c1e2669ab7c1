------------------------------- MODULE TimerBus -------------------------------
(***************************************************************************)
(* The timer unit on a bus: one sender with a clock of its own, glitches   *)
(* on the idle bus, a host that enters configuration at any time, and the  *)
(* requests the other units make: what the parser announces of the bits    *)
(* that were sampled, and what the override unit arms.                     *)
(*                                                                         *)
(* Every bit on the bus carries a tag that goes through the delay of the   *)
(* transceiver and the input registers with it, so that the properties can *)
(* say which bit a sample belongs to. The sender keeps sending whatever is *)
(* done to a single bit; it gives up when the unit takes over the frame.   *)
(***************************************************************************)
EXTENDS TimerUnit, Sequences

CONSTANTS
    Timings,        \* the register contents to choose from
    Delay,          \* edges from a driven level to can_rx_i
    MaxRec,         \* recessive bits in a row within a frame
    FrameGap,       \* edges between two frames, at least
    GlitchEdges,    \* longest disturbance of the idle bus
    GlitchGap,      \* idle edges that follow it, at least
    OnDominant,     \* may take over on a bit that is dominant anyway
    MinGap          \* of BitClock

ASSUME TimerBusAssumption ==
    /\ {Delay, MaxRec, FrameGap, GlitchEdges, GlitchGap} \subseteq Nat \ {0}
    /\ OnDominant \in BOOLEAN /\ MinGap \in Nat /\ MinGap >= 2

\* The ranges of sys_config_pkg.vhd: the PSP, the FIP and the offset of the
\* secondary sample point may be 0, the rest may not.
Rates == [ph1 : Nat \ {0}, ph2 : Nat \ {0}, sjw : Nat \ {0}, brp : Nat \ {0},
          psp : Nat, fip : Nat]
ASSUME TimingsAssumption ==
    Timings \subseteq [nomi : Rates, data : Rates, ssp : Nat, td_en : Bit]

VARIABLES
    sent, left, rec,            \* sender: level, edges to go, recessive run
    bit,                        \* tag of the bit on the bus: [kind, par, level]
    line,                       \* the tags under way, newest first
    wire,                       \* the levels before can_rx_i
    quiet,                      \* 1 once no frame begins and cfg_en stays down
    cfg_en,                     \* host
    heard,                      \* parser: what the last sampled bit announces
    arm, xcvr_req, prep, fresh, \* override unit
    read,                       \* ghost: tag of the sampled bit
    taken,                      \* ghost: samples of the bit in can_rx_buf
    told,                       \* ghost: the other nodes read the bit on the bus
    reading,                    \* ghost: how the first node read the bit
    points,                     \* ghost: "none", "psp", "fip" since the sample
    psp_par, inj,               \* ghost: bit of the last PSP; bit injected
    since                       \* of BitClock

senderVars == << sent, left, rec, bit, line, wire, quiet >>
unitVars == << cfg_en, heard, arm, xcvr_req, prep, fresh >>
ghostVars == << read, taken, told, reading, points, psp_par, inj, since >>
timerBusVars == << tuVars, senderVars, unitVars, ghostVars >>

Kinds == {"idle", "glitch", "sof", "nomi", "fdf", "res", "brs", "data",
          "crc", "del", "last"}
Idle == [kind |-> "idle", par |-> 0, level |-> 1]
None == 2                               \* no parity
Sensed == Delay + 3                     \* where can_rx_buf is in line
InBuf == line[Sensed]
OwnFrame == xcvr_mode = 1

Level == IF sent = 1 /\ can_tx_buf = 1 THEN 1 ELSE 0

BusInit ==
    /\ TuInit /\ cfg \in Timings
    /\ sent = 1 /\ left = 0 /\ rec = 0 /\ bit = Idle
    /\ line = [i \in 1 .. Sensed |-> Idle] /\ wire = [i \in 1 .. Delay |-> 1]
    /\ quiet = 0 /\ cfg_en = 0 /\ heard = "none"
    /\ arm = 0 /\ xcvr_req = 0 /\ prep = 0 /\ fresh = 0
    /\ read = Idle /\ taken = 0 /\ told = 0 /\ reading = [p \in Bit |-> None] /\ points = "none"
    /\ psp_par = None /\ inj = None /\ since = 0
-----------------------------------------------------------------------------
(* Bit times. The rate changes at the sample point of BRS and CRC delimiter. *)

Ph1Edges(rate) == (1 + rate.ph1) * rate.brp
Ph2Edges(rate) == rate.ph2 * rate.brp
Ph1Rate(kind) == IF kind \in {"data", "crc", "del"} THEN cfg.data ELSE cfg.nomi
Ph2Rate(kind, level) ==
    IF kind \in {"data", "crc"} \/ (kind = "brs" /\ level = 1)
    THEN cfg.data ELSE cfg.nomi

OwnRate == IF active.brs = 1 THEN cfg.data ELSE cfg.nomi
AfterSp == IF OwnFrame THEN Ph2Edges(OwnRate) ELSE Ph2Edges(Ph2Rate(bit.kind, sent))
BitEdges(kind, level) == Ph1Edges(Ph1Rate(kind)) + Ph2Edges(Ph2Rate(kind, level))

\* The level the other nodes read, at their sample point.
OthersRead == bit.kind \notin {"idle", "glitch"} /\ left = AfterSp
-----------------------------------------------------------------------------
(* The sender *)

Following(kind, level) ==
    CASE kind \in {"sof", "nomi", "del"} \/ (kind = "brs" /\ level = 0) ->
            {"nomi"} \X Bit \cup {<< "fdf", 1 >>, << "last", 1 >>}
      [] kind = "fdf" -> {<< "res", 0 >>}
      [] kind = "res" -> {"brs"} \X Bit
      [] kind = "data" \/ (kind = "brs" /\ level = 1) ->
            {"data", "crc"} \X Bit
      [] kind = "crc" -> {<< "del", 1 >>}

\* Between two resynchronisations the sender is off by at most an edge.
NextBit(kind, level) ==
    /\ level = 1 => \/ kind = "last" \/ rec + 1 < MaxRec
                    \/ kind /= "crc" /\ rec < MaxRec
    /\ rec' = IF level = 0 THEN 0 ELSE IF rec < MaxRec THEN rec + 1 ELSE rec
    /\ sent' = level /\ bit' = [kind |-> kind, par |-> 1 - bit.par, level |-> level]
    /\ \E drift \in IF sent = 1 /\ level = 0 /\ can_tx_buf = 1 THEN {-1, 0, 1} ELSE {0} :
          left' = BitEdges(kind, level) + drift

Rest(edges) ==
    /\ sent' = 1 /\ left' = edges /\ bit' = Idle /\ rec' = 0

SenderIdle ==
    /\ bit.kind = "idle"
    /\ \/ Rest(IF left = 0 THEN 0 ELSE left - 1)
       \/ left = 0 /\ quiet' = 0 /\ NextBit("sof", 0)
       \/ /\ left = 0 /\ quiet' = 0
          /\ left' \in 1 .. GlitchEdges /\ sent' = 0 /\ bit' = [Idle EXCEPT !.kind = "glitch", !.level = 0]
          /\ UNCHANGED rec

\* A dominant edge at the injection point makes the other nodes resynchronise
\* if they read the bit before as recessive.
Restarted == ~OwnFrame /\ xcvr_mode' = 1 /\ can_tx_buf' = 0 /\ Level = 1 /\ sample_buf = 1
SenderHolds ==
    /\ bit.kind /= "idle" /\ ~OwnFrame /\ left > 1
    /\ left' = IF Restarted THEN BitEdges(bit.kind, sent) ELSE left - 1
    /\ UNCHANGED << sent, rec, bit >>

SenderMovesOn ==
    /\ bit.kind /= "idle" /\ ~OwnFrame /\ left = 1
    /\ CASE bit.kind = "glitch" -> Rest(GlitchGap)
         [] bit.kind = "last" -> Rest(FrameGap)
         [] OTHER -> \E b \in Following(bit.kind, sent) : NextBit(b[1], b[2])

\* The unit's own bits, from the edge at which a new decision is driven. The
\* other nodes resynchronise on a dominant edge.
DrivesFresh ==
    OwnFrame /\ fresh = 1 /\ Tick /\ btl_tq_cnt < end_val_ph2 - 1
OwnBits ==
    /\ OwnFrame /\ bit.kind /= "idle"
    /\ bit' \in IF ~DrivesFresh THEN {bit}
                ELSE [kind : {bit.kind, "last"},
                      par : {1 - bit.par}, level : {1}]
    /\ left' = IF left = 1 \/ (can_tx_buf' = 0 /\ Level = 1)
               THEN Ph1Edges(OwnRate) + Ph2Edges(OwnRate) ELSE left - 1
    /\ sent' = IF left = 1 THEN 1 ELSE sent
    /\ UNCHANGED rec

\* After the unit's own frame, or when it is put to sleep in it, the sender
\* that gave up leaves the bus idle.
Sender ==
    /\ IF xcvr_mode = 1 /\ tu_active = 0 THEN Rest(FrameGap)
       ELSE SenderIdle \/ SenderHolds \/ SenderMovesOn \/ OwnBits
    /\ line' = << bit >> \o SubSeq(line, 1, Sensed - 1)
    /\ wire' = << Level >> \o SubSeq(wire, 1, Delay - 1)
-----------------------------------------------------------------------------
(* The other units *)

\* Sampling the FDF bit lets the next edge synchronise hard, the reserved bit
\* announces BRS, the end of the CRC its delimiter (can_fsm.vhd).
Announced(kind, level) ==
    CASE kind = "fdf" /\ level = 1 -> "sync" [] kind = "res" -> "brs"
      [] kind = "crc" -> "del"  [] kind = "last" -> "eof" [] OTHER -> "none"
Parser ==
    heard' = IF tu_active = 0 THEN "none"
             ELSE IF sample_strb = 1 THEN Announced(read.kind, sample_buf) ELSE heard

\* A bit is armed an edge after the PSP, or three edges after the sample point
\* of a frame of our own.
Arms ==
    \/ /\ tu_active = 0
       /\ arm' = 0 /\ xcvr_req' = 0 /\ prep' = 0 /\ fresh' = 0
    \/ /\ tu_active = 1 /\ ~OwnFrame /\ psp_strb = 1
       /\ arm' \in IF psp_buf = 1 /\ InBuf.kind \in {"nomi", "data"} THEN Bit ELSE {0}
       /\ xcvr_req' \in
            IF InBuf.kind \in {"nomi", "data"} /\
               (arm' = 1 \/ (psp_buf = 0 /\ OnDominant))
            THEN Bit ELSE {0}
       /\ UNCHANGED << prep, fresh >>
    \/ /\ tu_active = 1 /\ ~OwnFrame /\ psp_strb = 0
       /\ UNCHANGED << arm, xcvr_req, prep, fresh >>
    \/ /\ tu_active = 1 /\ OwnFrame
       /\ prep' = IF xcvr_strb = 1 THEN 2 ELSE IF prep > 0 THEN prep - 1 ELSE 0
       /\ arm' \in IF prep = 1 THEN IF bit.kind = "last" THEN {0} ELSE Bit ELSE {arm}
       /\ fresh' = IF prep = 1 THEN 1 ELSE IF DrivesFresh THEN 0 ELSE fresh
       /\ UNCHANGED xcvr_req

Host ==
    /\ quiet' \in IF bit.kind = "idle" THEN {quiet, 1} ELSE {quiet}
    /\ cfg_en' \in IF quiet' = 1 THEN {0} ELSE IF left <= 1 THEN Bit ELSE {cfg_en}
-----------------------------------------------------------------------------
OnFrame(tag) == tag.kind \notin {"idle", "glitch"}
Sampling == sample_strb' = 1
BitLeaves == line[Sensed - 1] /= InBuf

Ghosts ==
    /\ read' = IF Sampling THEN InBuf ELSE Idle
    /\ taken' = IF BitLeaves THEN 0 ELSE IF Sampling THEN 1 ELSE taken
    /\ told' = IF bit' /= bit THEN 0 ELSE IF OthersRead THEN 1 ELSE told
    /\ reading' = [p \in Bit |->
          IF Sampling /\ InBuf.par = p THEN can_rx_buf
          ELSE IF OthersRead /\ bit.par = p THEN Level
          ELSE IF bit' /= bit /\ OnFrame(bit') /\ bit'.par = p THEN None
          ELSE reading[p]]
    /\ points' = IF tu_active = 0 \/ Sampling THEN "none"
                 ELSE IF fip_strb' = 1 THEN "fip"
                 ELSE IF psp_strb' = 1 THEN "psp" ELSE points
    /\ psp_par' = IF tu_active = 0 THEN None
                  ELSE IF psp_strb' = 1 THEN InBuf.par ELSE psp_par
    /\ inj' = IF tu_active = 0 THEN None
              ELSE IF fip_strb' = 0 THEN inj
              ELSE IF arm = 1 THEN psp_par ELSE None
    /\ since' = IF (sample_strb = 1 /\ tu_active = 1) \/ (tu_active = 0 /\ tu_active' = 1)
                THEN 0 ELSE IF since < MinGap THEN since + 1 ELSE MinGap

Inputs ==
    [cfg_en |-> cfg_en, arm |-> arm, xcvr_req |-> xcvr_req, err |-> 0,
     eof |-> IF heard = "eof" THEN 1 ELSE 0,
     brs_pend |-> IF heard = "brs" THEN 1 ELSE 0,
     crc_del_pend |-> IF heard = "del" THEN 1 ELSE 0,
     hard_sync |-> IF heard = "sync" THEN 1 ELSE 0]

Edge ==
    /\ TuClock(wire[Delay], Inputs) /\ Host
    /\ Sender /\ Parser /\ Arms /\ Ghosts

TimerBusSpec == BusInit /\ [][Edge]_timerBusVars /\ WF_timerBusVars(Edge)
-----------------------------------------------------------------------------
(* Properties *)

\* The quantum counter stays within the longest bit of both rates.
Longest == LET ends == {cfg.nomi.ph1, cfg.data.ph1, 8} \X {cfg.nomi.ph2, cfg.data.ph2, 2}
           IN  CHOOSE n \in {1 + e[1] + e[2] : e \in ends} :
                  \A e \in ends : 1 + e[1] + e[2] <= n
TimerTypeOK ==
    /\ can_rx_buf \in Bit /\ prev_rx \in Bit /\ can_tx_buf \in Bit
    /\ tu_active \in Bit /\ smgmt_tu_state \in {"CONFIG", "SLEEP", "ACTIVE"}
    /\ tu_active = 1 <=> smgmt_tu_state = "ACTIVE"
    /\ smgmt_tq_cnt \in 0 .. Longest /\ smgmt_bit_cnt \in 0 .. IdleBits
    /\ strb_cnt \in Nat /\ strb_tick \in Bit
    /\ btl_tq_cnt \in 0 .. Longest
    /\ gl_idx_cnt \in 0 .. MaxGlitchRec /\ gl_rec_cnt \in 0 .. gl_idx_cnt
    /\ \A s \in Slots : td_slot[s] = Free \/ td_slot[s] \in 0 .. TdModulus - 1
    /\ td_measure = Free \/ td_measure \in 0 .. TdModulus - 1
    /\ xcvr_delay \in 0 .. TdModulus - 1
    /\ bit.kind \in Kinds /\ left \in Nat /\ rec \in 0 .. MaxRec

\* Every bit of a frame is sampled once, whatever the sender's clock, the rate
\* switches, the injections and the unit's own bits do to the quantum counter: a
\* bit read twice or skipped leaves the parser out of step until the frame ends.
\* In a frame of our own at the data rate the samples are those of the delay
\* slots, several bits being under way at a time. (The take-over of a bit that
\* is dominant anyway is the exception, see OnDominant.)
SampledOnce ==
    [][ /\ Sampling => OnFrame(InBuf) /\ taken = 0
        /\ BitLeaves /\ OnFrame(InBuf) /\ tu_active = 1 => taken = 1 \/ Sampling
      ]_timerBusVars

\* The unit reads a bit as the other nodes do at their sample point, before or
\* after them: also a bit that it made dominant itself, and those of its own.
ReadAsOthers ==
    [][ /\ Sampling => reading[InBuf.par] \in {None, can_rx_buf}
        /\ OthersRead => reading[bit.par] \in {None, Level}
        /\ Sampling /\ OthersRead /\ InBuf = bit => can_rx_buf = Level ]_timerBusVars

\* Every bit that the override unit decides on is read by the other nodes, once:
\* the unit drives decisions a fixed time after its sample point, also right
\* after it took over in mid-bit.
OwnBitsRead ==
    [][ OwnFrame =>
          /\ OthersRead => told = 0
          /\ bit' /= bit /\ OnFrame(bit') => told = 1 \/ OthersRead ]_timerBusVars

\* Resynchronisation and rate switches move the counter, but never past a
\* point: before each sample there was a PSP and after it an FIP. (A point may
\* come up twice.) The override unit arms at the PSP what is driven at the FIP.
PointsInOrder ==
    [][ ~OwnFrame =>
          /\ Sampling => points = "fip"
          /\ fip_strb' = 1 => points /= "none" ]_timerBusVars

\* The PSP reads the level the sender gives the bit: nothing that was driven in
\* the bit before is left, although the unit is late by the delay of the bus
\* and may have resynchronised meanwhile.
PspUndisturbed ==
    [][ ~OwnFrame /\ psp_strb' = 1 => can_rx_buf = InBuf.level ]_timerBusVars

\* When the other nodes sample a bit, the unit drives it if and only if it was
\* armed for this bit: the dominant level is on the bus before their sample
\* point, and gone before the next one.
InjectedExactly ==
    OthersRead /\ ~OwnFrame => (can_tx_buf = 0 <=> inj = bit.par)

\* The unit starts to follow at a start of frame, or at a glitch: neither at the
\* end of a frame nor after configuration does it begin in mid-frame.
WakesAtSof ==
    [][ tu_active = 0 /\ tu_active' = 1 => InBuf.kind \in {"sof", "glitch"} ]_timerBusVars

\* On a bus that stays idle the unit gets to sleep, from a glitch it took for a
\* frame as well as from configuration, and is ready for the next frame.
QuietBusSleeps == quiet = 1 ~> smgmt_tu_state = "SLEEP"

\* What ParserBus takes for granted of the timer unit.
Clk == INSTANCE BitClock WITH awake <- tu_active, since <- since
ImplementsBitClock == Clk!ClockSpec
=============================================================================
