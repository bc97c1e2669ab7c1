----------------------------- MODULE TimerUnit ------------------------------
(***************************************************************************)
(* timer_unit.vhd: follows the bits on the bus, samples them, and drives   *)
(* the override unit's level at the right place of a bit.                  *)
(*                                                                         *)
(* One step is one clock edge, one action per process (see CanFsm); a      *)
(* primed variable is the code's signal without _r, an unprimed one the    *)
(* register. Registers for debugging and for the status pins frame_start,  *)
(* frame_end and injection_trigger are left out: nothing reads them.       *)
(*                                                                         *)
(* Of td_cnt only its distance to stored values is used. Each stored value *)
(* is replaced by this distance: the time quanta since it was stored.      *)
(***************************************************************************)
EXTENDS Integers

CONSTANTS
    IdleBits,       \* recessive bits before configuration ends (code: 11)
    MaxGlitchRec,   \* MAX_GLITCH_REC                           (code: 5)
    TdSlotCnt,      \* TD_SLOT_CNT                              (code: 2)
    TdModulus,      \* td_cnt is a counter of 10 bits           (code: 1024)
    TdUnknown       \* xcvr_delay before it was measured        (code: 511)

ASSUME TimerAssumption ==
    /\ IdleBits \in Nat \ {0} /\ MaxGlitchRec \in Nat \ {0}
    /\ TdSlotCnt \in Nat \ {0} /\ TdModulus \in Nat \ {0}
    /\ TdUnknown \in 0 .. TdModulus - 1

Bit == {0, 1}
Not(b) == 1 - b
Slots == 0 .. TdSlotCnt - 1

VARIABLES
    cfg,                                \* AXI: [nomi, data, ssp, td_en]
    can_rx_int, can_rx_buf, prev_rx,
    active,                             \* active_*_r and brs_en_r
    tu_active, smgmt_tu_state, smgmt_tq_cnt, smgmt_bit_cnt,
    strobe_rst_req, cfg_ready,
    gl_detected, gl_idx_cnt, gl_rec_cnt,
    strb_cnt, strb_tick,
    btl_tq_cnt, btl_soft_resync, btl_hold_edge, bit_start,
    sample_buf, sample_strb, psp_buf, psp_strb, fip_strb, xcvr_strb,
    xcvr_mode, can_tx_buf,
    td_slot,                            \* slot -> Free or time quanta in use
    td_measure,                         \* the same for the delay measurement
    xcvr_delay

rxVars == << can_rx_int, can_rx_buf, prev_rx >>
stateVars == << tu_active, smgmt_tu_state, smgmt_tq_cnt, smgmt_bit_cnt,
    strobe_rst_req, cfg_ready, gl_detected, gl_idx_cnt, gl_rec_cnt, strb_cnt, strb_tick >>
btlVars == << btl_tq_cnt, btl_soft_resync, btl_hold_edge, bit_start, sample_buf,
    sample_strb, psp_buf, psp_strb, fip_strb, xcvr_strb, xcvr_mode, can_tx_buf >>
tdcVars == << td_slot, td_measure, xcvr_delay >>
tuVars == << cfg, rxVars, active, stateVars, btlVars, tdcVars >>

Free == -1

\* The reset branch; the timing there is overwritten at the first edge.
TuInit ==
    /\ can_rx_int = << 1, 1 >> /\ can_rx_buf = 1 /\ prev_rx = 1
    /\ active = [ph1 |-> 8, ph2 |-> 2, sjw |-> 8, brp |-> 8, psp |-> 2, fip |-> 3, brs |-> 0]
    /\ tu_active = 0 /\ smgmt_tu_state = "SLEEP" /\ smgmt_tq_cnt = 0 /\ smgmt_bit_cnt = 0
    /\ strobe_rst_req = 0 /\ cfg_ready = 1
    /\ gl_detected = 0 /\ gl_idx_cnt = 0 /\ gl_rec_cnt = 0
    /\ strb_cnt = 0 /\ strb_tick = 0
    /\ btl_tq_cnt = 0 /\ btl_soft_resync = 0 /\ btl_hold_edge = 0 /\ bit_start = 0
    /\ sample_buf = 0 /\ sample_strb = 0 /\ psp_buf = 1 /\ psp_strb = 0
    /\ fip_strb = 0 /\ xcvr_strb = 0 /\ xcvr_mode = 0 /\ can_tx_buf = 1
    /\ td_slot = [s \in Slots |-> Free] /\ td_measure = Free /\ xcvr_delay = 0
-----------------------------------------------------------------------------
(* Combinational signals *)

RxFalling == can_rx_buf = 0 /\ prev_rx = 1
TxFalling == can_tx_buf' = 0 /\ can_tx_buf = 1
Tick == strb_tick = 1
Running == tu_active = 1 /\ Tick

end_val_ph1 == 1 + active'.ph1
end_val_ph2 == 1 + active'.ph1 + active'.ph2

AtPsp == btl_tq_cnt = active.psp - 1
AtFip == btl_tq_cnt = active.fip - 1
AtSp == btl_tq_cnt = end_val_ph1 - 1
AtEnd == btl_tq_cnt = end_val_ph2 - 1

resync_target_ph1(hard) ==
    LET target == btl_tq_cnt + 1 - active'.sjw
    IN  IF target < 1 \/ hard = 1 THEN 1 ELSE target
resync_target_ph2Unwrapped(hard) ==     \* mutant: past the end of the bit
    IF hard = 1 THEN 1 ELSE btl_tq_cnt + 1 + active'.sjw
resync_target_ph2Skips(hard) ==         \* mutant: one time quantum too far
    LET target == btl_tq_cnt + 1 + active'.sjw
    IN  IF target > end_val_ph2 \/ hard = 1 THEN 3
        ELSE IF target = end_val_ph2 THEN 0 ELSE target
resync_target_ph2(hard) ==
    LET target == btl_tq_cnt + 1 + active'.sjw
    IN  IF target > end_val_ph2 \/ hard = 1 THEN 1
        ELSE IF target = end_val_ph2 THEN 0 ELSE target
-----------------------------------------------------------------------------
(* shift_speed, clk_reg_assign of the inputs *)

Synchronise(rx) ==
    /\ can_rx_int' = << rx, can_rx_int[1] >>
    /\ can_rx_buf' = can_rx_int[2] /\ prev_rx' = can_rx_buf

\* Prescaler, phase 2 and jump width change at the sample point, the rest at
\* the start of the next bit.
ShiftSpeed(in) ==
    LET is_sample_point == btl_tq_cnt = active.ph1 /\ Tick
        toData == in.brs_pend = 1 /\ is_sample_point /\ can_rx_buf = 1
        toNomi == (in.crc_del_pend = 1 /\ is_sample_point) \/ in.err = 1
        rate == IF toData THEN cfg.data ELSE IF toNomi THEN cfg.nomi ELSE active
        brs == IF toData THEN 1 ELSE IF toNomi THEN 0 ELSE active.brs
        early == IF bit_start = 0 THEN active
                 ELSE IF active.brs = 1 THEN cfg.data ELSE cfg.nomi
    IN  active' = IF tu_active = 0
                  THEN [ph1 |-> cfg.nomi.ph1, ph2 |-> cfg.nomi.ph2, sjw |-> cfg.nomi.sjw,
                        brp |-> cfg.nomi.brp, psp |-> cfg.nomi.psp, fip |-> cfg.nomi.fip,
                        brs |-> 0]
                  ELSE [ph1 |-> early.ph1, psp |-> early.psp, fip |-> early.fip,
                        ph2 |-> rate.ph2, sjw |-> rate.sjw, brp |-> rate.brp, brs |-> brs]
-----------------------------------------------------------------------------
(* state_mgmt *)

EnterConfig ==
    /\ smgmt_tu_state' = "CONFIG" /\ smgmt_tq_cnt' = 0 /\ smgmt_bit_cnt' = 0
    /\ cfg_ready' = 0 /\ tu_active' = 0 /\ strobe_rst_req' = 1

AwaitIdleLoose ==                       \* mutant: dominant levels do not count
    /\ smgmt_tu_state = "CONFIG"
    /\ LET full == smgmt_tq_cnt >= end_val_ph2 - 1
           done == Tick /\ smgmt_bit_cnt = IdleBits
       IN  /\ smgmt_tq_cnt' = IF ~Tick THEN smgmt_tq_cnt ELSE IF full THEN 0 ELSE smgmt_tq_cnt + 1
           /\ smgmt_bit_cnt' = IF Tick /\ full THEN smgmt_bit_cnt + 1 ELSE smgmt_bit_cnt
           /\ smgmt_tu_state' = IF done THEN "SLEEP" ELSE "CONFIG"
           /\ cfg_ready' = IF done THEN 1 ELSE cfg_ready
           /\ strobe_rst_req' = IF done THEN 1 ELSE 0
    /\ UNCHANGED tu_active
\* A dominant level starts the count again and keeps the state, but not the
\* other effects of a count that was just complete.
AwaitIdle ==
    /\ smgmt_tu_state = "CONFIG"
    /\ LET full == smgmt_tq_cnt >= end_val_ph2 - 1
           done == Tick /\ smgmt_bit_cnt = IdleBits
           dominant == Tick /\ can_rx_buf = 0
       IN  /\ smgmt_tq_cnt' = IF ~Tick THEN smgmt_tq_cnt
                              ELSE IF dominant \/ full THEN 0 ELSE smgmt_tq_cnt + 1
           /\ smgmt_bit_cnt' = IF dominant THEN 0
                               ELSE IF Tick /\ full THEN smgmt_bit_cnt + 1 ELSE smgmt_bit_cnt
           /\ smgmt_tu_state' = IF done /\ ~dominant THEN "SLEEP" ELSE "CONFIG"
           /\ cfg_ready' = IF done THEN 1 ELSE cfg_ready
           /\ strobe_rst_req' = IF done THEN 1 ELSE 0
    /\ UNCHANGED tu_active

Follow(in) ==
    /\ smgmt_tu_state = "ACTIVE"
    /\ IF in.eof = 1 \/ gl_detected = 1
       THEN smgmt_tu_state' = "SLEEP" /\ tu_active' = 0 /\ strobe_rst_req' = 1 /\ cfg_ready' = 0
       ELSE strobe_rst_req' = 0 /\ UNCHANGED << smgmt_tu_state, tu_active, cfg_ready >>
    /\ UNCHANGED << smgmt_tq_cnt, smgmt_bit_cnt >>

AwaitSof ==
    /\ smgmt_tu_state = "SLEEP" /\ strobe_rst_req' = 1
    /\ IF RxFalling
       THEN smgmt_tu_state' = "ACTIVE" /\ tu_active' = 1 /\ cfg_ready' = 0
       ELSE cfg_ready' = 1 /\ UNCHANGED << smgmt_tu_state, tu_active >>
    /\ UNCHANGED << smgmt_tq_cnt, smgmt_bit_cnt >>

StateMgmt(in) ==
    \/ in.cfg_en = 1 /\ EnterConfig
    \/ in.cfg_en = 0 /\ (AwaitIdle \/ Follow(in) \/ AwaitSof)
-----------------------------------------------------------------------------
(* glitch_rejection, strobe_gen *)

GlitchRejectionStrict ==                \* mutant: all levels must be recessive
    IF tu_active' = 0 THEN gl_detected' = 0 /\ gl_idx_cnt' = 0 /\ gl_rec_cnt' = 0
    ELSE IF gl_idx_cnt = MaxGlitchRec
    THEN /\ gl_detected' = IF gl_rec_cnt = MaxGlitchRec THEN 1 ELSE 0
         /\ UNCHANGED << gl_idx_cnt, gl_rec_cnt >>
    ELSE /\ gl_idx_cnt' = gl_idx_cnt + 1 /\ gl_rec_cnt' = gl_rec_cnt + can_rx_buf
         /\ UNCHANGED gl_detected
\* The levels of the first edges after a wake-up vote.
GlitchRejection ==
    IF tu_active' = 0 THEN gl_detected' = 0 /\ gl_idx_cnt' = 0 /\ gl_rec_cnt' = 0
    ELSE IF gl_idx_cnt = MaxGlitchRec
    THEN /\ gl_detected' = IF gl_rec_cnt >= MaxGlitchRec \div 2 + 1 THEN 1 ELSE 0
         /\ UNCHANGED << gl_idx_cnt, gl_rec_cnt >>
    ELSE /\ gl_idx_cnt' = gl_idx_cnt + 1 /\ gl_rec_cnt' = gl_rec_cnt + can_rx_buf
         /\ UNCHANGED gl_detected

StrobeGen ==
    LET full == strb_cnt >= active.brp - 1
    IN  /\ strb_cnt' = IF strobe_rst_req = 1 \/ full THEN 0 ELSE strb_cnt + 1
        /\ strb_tick' = IF strobe_rst_req = 0 /\ full THEN 1 ELSE 0
-----------------------------------------------------------------------------
(* btl_processor *)

\* A falling edge since the last tick, the first one in this bit, after a bit
\* that was read as recessive.
ResyncDue ==
    (btl_hold_edge = 1 \/ RxFalling) /\ btl_soft_resync = 0 /\ sample_buf = 1

\* The injection point of a unit that is about to send by itself.
TakeOver(in) == xcvr_mode = 0 /\ AtFip /\ in.xcvr_req = 1
HardRestartSwapped(in) == TakeOver(in) /\ sample_buf = 0  \* mutant: wrong level
\* The other nodes resynchronise on the edge it makes, after a recessive bit.
HardRestart(in) == TakeOver(in) /\ sample_buf = 1

Advanced == IF btl_tq_cnt < end_val_ph2 - 1 THEN btl_tq_cnt + 1 ELSE 0
Resynced(hard) ==
    IF btl_tq_cnt = 0 THEN Advanced
    ELSE IF btl_tq_cnt < end_val_ph1 - 1 THEN resync_target_ph1(hard)
    ELSE resync_target_ph2(hard)

CountQuanta(in) ==
    LET inPh2 == btl_tq_cnt > 0 /\ btl_tq_cnt >= end_val_ph1 - 1
        cut == ResyncDue /\ inPh2 /\ resync_target_ph2(in.hard_sync) < btl_tq_cnt
    IN  IF tu_active = 0 THEN btl_tq_cnt' = 0 /\ UNCHANGED bit_start
        ELSE IF ~Tick THEN UNCHANGED << btl_tq_cnt, bit_start >>
        ELSE /\ btl_tq_cnt' = IF HardRestart(in) THEN 0
                              ELSE IF ResyncDue THEN Resynced(in.hard_sync) ELSE Advanced
             /\ bit_start' = IF btl_tq_cnt >= end_val_ph2 - 1 \/ cut THEN 1 ELSE 0

LockResyncLoose(in) ==                  \* mutant: follows the edge it made
    btl_soft_resync' =
        IF tu_active = 0 THEN 1
        ELSE IF ~Tick THEN btl_soft_resync
        ELSE IF xcvr_mode = 1 THEN 1
        ELSE IF AtSp THEN 0
        ELSE IF ResyncDue THEN 1 ELSE btl_soft_resync
\* One resynchronisation a bit; none on an edge of our own.
LockResync(in) ==
    btl_soft_resync' =
        IF tu_active = 0 THEN 1
        ELSE IF ~Tick THEN btl_soft_resync
        ELSE IF xcvr_mode = 1 \/ (AtFip /\ in.arm = 1) THEN 1
        ELSE IF AtSp THEN 0
        ELSE IF ResyncDue THEN 1 ELSE btl_soft_resync

HoldEdgeLost ==                         \* mutant: an edge between two ticks is lost
    btl_hold_edge' = 0
HoldEdge ==
    btl_hold_edge' = IF Running THEN 0
                     ELSE IF btl_hold_edge = 1 \/ RxFalling THEN 1 ELSE 0

\* The secondary sample point: a slot is due after the measured delay and the
\* configured offset.
Due(s) ==
    td_slot[s] /= Free /\ td_slot[s] >= (xcvr_delay + cfg.ssp) % TdModulus
SamplePointLong ==                      \* mutant: at every edge of the quantum
    tu_active = 1 /\
    IF xcvr_mode = 1 /\ active'.brs = 1 THEN Tick /\ \E s \in Slots : Due(s) ELSE AtSp
SamplePoint ==
    Running /\ IF xcvr_mode = 1 /\ active'.brs = 1 THEN \E s \in Slots : Due(s) ELSE AtSp
PreSamplePoint == Running /\ xcvr_mode = 0 /\ AtPsp
InjectionPoint == Running /\ xcvr_mode = 0 /\ AtFip

Strobes ==
    /\ sample_strb' = IF SamplePoint THEN 1 ELSE 0
    /\ sample_buf' = IF SamplePoint THEN can_rx_buf ELSE sample_buf
    /\ psp_strb' = IF PreSamplePoint THEN 1 ELSE 0
    /\ psp_buf' = IF PreSamplePoint THEN can_rx_buf ELSE psp_buf
    /\ fip_strb' = IF InjectionPoint THEN 1 ELSE 0
    /\ xcvr_strb' = IF Running /\ xcvr_mode = 1 /\ AtSp THEN 1 ELSE 0

DriveUnreleased(in) ==                  \* mutant: until the next injection point
    /\ xcvr_mode' = IF tu_active = 0 THEN 0
                    ELSE IF Tick /\ TakeOver(in) THEN 1 ELSE xcvr_mode
    /\ can_tx_buf' =
        IF tu_active = 0 THEN 1
        ELSE IF ~Tick THEN can_tx_buf
        ELSE IF xcvr_mode = 1
             THEN IF btl_tq_cnt < end_val_ph2 - 1 THEN Not(in.arm) ELSE can_tx_buf
        ELSE IF AtFip THEN Not(in.arm) ELSE can_tx_buf
\* A single bit is driven from the injection point to the end of the bit; a
\* unit that sends drives at every time quantum but the last.
Drive(in) ==
    /\ xcvr_mode' = IF tu_active = 0 THEN 0
                    ELSE IF Tick /\ TakeOver(in) THEN 1 ELSE xcvr_mode
    /\ can_tx_buf' =
        IF tu_active = 0 THEN 1
        ELSE IF ~Tick THEN can_tx_buf
        ELSE IF xcvr_mode = 1
             THEN IF btl_tq_cnt < end_val_ph2 - 1 THEN Not(in.arm) ELSE can_tx_buf
        ELSE IF AtEnd THEN 1 ELSE IF AtFip THEN Not(in.arm) ELSE can_tx_buf

BtlProcessor(in) ==
    CountQuanta(in) /\ LockResync(in) /\ HoldEdge /\ Strobes /\ Drive(in)
-----------------------------------------------------------------------------
(* tdc_counter *)

Aged(n) == IF Tick THEN (n + 1) % TdModulus ELSE n

\* A bit of our own starts: it takes the first free slot, if there is one.
SlotWanted(in) ==
    /\ Tick
    /\ \/ AtFip /\ in.arm = 1 /\ xcvr_mode = 0
       \/ AtEnd /\ xcvr_mode = 1
FirstFreeOnly(s) == s = 0 /\ td_slot[s] = Free     \* mutant: one slot
FirstFree(s) == td_slot[s] = Free /\ \A r \in Slots : r < s => td_slot[r] /= Free

TdcCounter(in) ==
    IF tu_active = 0
    THEN /\ td_slot' = [s \in Slots |-> Free] /\ td_measure' = Free
         /\ xcvr_delay' = IF cfg.td_en = 1 THEN TdUnknown ELSE 0
    ELSE /\ td_slot' = [s \in Slots |->
                IF SlotWanted(in) /\ FirstFree(s) THEN Aged(0)
                ELSE IF td_slot[s] = Free \/ (Tick /\ Due(s)) THEN Free
                ELSE Aged(td_slot[s])]
         /\ td_measure' =
                IF RxFalling /\ td_measure /= Free THEN Free
                ELSE IF TxFalling /\ cfg.td_en = 1 THEN Aged(0)
                ELSE IF td_measure = Free THEN Free ELSE Aged(td_measure)
         /\ xcvr_delay' = IF RxFalling /\ td_measure /= Free THEN td_measure ELSE xcvr_delay
-----------------------------------------------------------------------------
\* One edge: rx is the bus, in what the other units and the host say.
TuClock(rx, in) ==
    /\ Synchronise(rx)
    /\ ShiftSpeed(in)
    /\ StateMgmt(in)
    /\ GlitchRejection
    /\ StrobeGen
    /\ BtlProcessor(in)
    /\ TdcCounter(in)
    /\ UNCHANGED cfg
=============================================================================
