----------------------------- MODULE OverrideUnit -----------------------------
(***************************************************************************)
(* override_unit.vhd: decides which bit of a matched frame is overridden.  *)
(*                                                                         *)
(* Three stages, one clock edge apart: ou_state_machine follows the frame  *)
(* and strobes prep_strobe when the next bit may be a target (stage I);    *)
(* prep_override looks at the destuffer's prediction and queues the bit    *)
(* (stage II; IIa in transceiver mode); arm_injection lets the pre-sample  *)
(* point decide in receiver mode (stage III). shadow_stuffer stuffs the    *)
(* bits that the unit sends by itself. As in CanFsm every process is an    *)
(* action and OuClock their conjunction.                                   *)
(*                                                                         *)
(* The inputs of an edge are one record in:                                *)
(*   sleep                       sleep_i                                   *)
(*   fi, fi_ready, vec_ready     the frame and flags of the memory unit    *)
(*   data                        data_override_i(data_override_cnt_r)      *)
(*   psp, psp_strb, fip_strb, xcvr_strb     from the timer unit            *)
(*                                                                         *)
(* The payload bit is an input of any value: the unit only copies it. The  *)
(* shadow shift register is kept as newest bit and run, as in CanFsm.      *)
(* s_bs_copy_req feeds nothing and is left out.                            *)
(***************************************************************************)
EXTENDS CanFsm

CONSTANT VectorBits         \* length of the override vector (code: 576)

ASSUME VectorAssumption == VectorBits \in Nat \ {0}

VARIABLES
    ou_state,
    fi_parsed, fi_can_field,            \* parse_fi_frame
    prep_strobe, xcvr_prep, late_strobe,\* stage I strobes
    shadow_state, bsfx_shift, prev_bit,
    interrupt_req,
    err, inj_pending,                   \* [miss, fsm, dlc] and status
    queue, bs_cnt, dlc_sr, data_cnt,    \* stage II
    xcvr_req, subst, stage_iii,
    sf,                                 \* shadow FSM
    sb,                                 \* shadow stuffer
    arm, err_dom                        \* stage III

ouVars == << ou_state, fi_parsed, fi_can_field, prep_strobe, xcvr_prep,
    late_strobe, shadow_state, bsfx_shift, prev_bit, interrupt_req, err,
    inj_pending, queue, bs_cnt, dlc_sr, data_cnt, xcvr_req, subst, stage_iii,
    sf, sb, arm, err_dom >>

OuStates == {"OU_AWAIT_FI", "OU_BIT", "OU_BSDY", "OU_BSFX", "OU_DLC",
             "OU_DATA_CRC", "OU_DONE"}

\* The CAN field that a code in fi_field stands for; SLEEP for the others.
CanField(code) ==
    CASE code = 0 -> "ABIT" [] code = 1 -> "CTRL" [] code = 3 -> "DATA"
      [] code = 4 -> "CRC_STF" [] code = 5 -> "CRC" [] code = 6 -> "EOF"
      [] OTHER -> "SLEEP"

NoErr == [miss |-> 0, fsm |-> 0, dlc |-> 0]

OuTypeOK ==
    /\ ou_state \in OuStates
    /\ fi_parsed \in Bit /\ fi_can_field \in FsmStates
    /\ prep_strobe \in Bit /\ xcvr_prep \in Bit /\ late_strobe \in Bit
    /\ shadow_state \in FsmStates /\ bsfx_shift \in Bit /\ prev_bit \in Bit
    /\ interrupt_req \in Bit
    /\ err \in [miss : Bit, fsm : Bit, dlc : Bit] /\ inj_pending \in Bit
    /\ queue \in Bit /\ bs_cnt \in Nat /\ dlc_sr \in 0 .. 15
    /\ data_cnt \in 0 .. VectorBits - 1
    /\ xcvr_req \in Bit /\ subst \in Bit /\ stage_iii \in Bit
    /\ sf \in [state : FsmStates, cnt : Nat, crc_mode : Bit, disable : Bit]
    /\ sb \in [state : BsStates, crc_cnt : 0 .. 4, last : Bit, run : 1 .. 5,
               insert : Bit]
    /\ arm \in Bit /\ err_dom \in Bit

\* The reset branch, and power-up: the unit resets all of its registers.
OuInit ==
    /\ ou_state = "OU_AWAIT_FI"
    /\ fi_parsed = 0 /\ fi_can_field = "SLEEP"
    /\ prep_strobe = 0 /\ xcvr_prep = 0 /\ late_strobe = 0
    /\ shadow_state = "ABIT" /\ bsfx_shift = 0 /\ prev_bit = 0
    /\ interrupt_req = 0 /\ err = NoErr /\ inj_pending = 0
    /\ queue = 1 /\ bs_cnt = 0 /\ dlc_sr = 0 /\ data_cnt = VectorBits - 1
    /\ xcvr_req = 0 /\ subst = 0 /\ stage_iii = 0
    /\ sf = [state |-> "ABIT", cnt |-> 0, crc_mode |-> 0, disable |-> 0]
    /\ sb = [state |-> "MONITOR", crc_cnt |-> 0, last |-> 0, run |-> 5,
             insert |-> 0]
    /\ arm = 0 /\ err_dom = 0
-----------------------------------------------------------------------------
(* parse_fi_frame *)

ParseFiFrameKeeps(in) ==                \* mutant: not cleared by the sleep
    \/ /\ in.fi_ready = 1
       /\ fi_parsed' = 1 /\ fi_can_field' = CanField(in.fi.field)
    \/ in.fi_ready = 0 /\ UNCHANGED << fi_parsed, fi_can_field >>

ParseFiFrame(in) ==
    \/ in.sleep = 1 /\ fi_parsed' = 0 /\ fi_can_field' = "SLEEP"
    \/ /\ in.sleep = 0 /\ in.fi_ready = 1
       /\ fi_parsed' = 1 /\ fi_can_field' = CanField(in.fi.field)
    \/ in.sleep = 0 /\ in.fi_ready = 0 /\ UNCHANGED << fi_parsed, fi_can_field >>
-----------------------------------------------------------------------------
(* ou_state_machine: stage I *)

\* A frame of the memory unit is picked up; resets the flags of the last one.
NewMatch(in) ==
    /\ in.sleep = 0 /\ fsm_state /= "ERRF" /\ ou_state = "OU_AWAIT_FI"
    /\ fi_parsed = 1 /\ in.vec_ready = 1

ActiveState(type) ==
    CASE type = "FI_DATA" -> "OU_DATA_CRC" [] type = "FI_BSFX" -> "OU_BSFX"
      [] type = "FI_BSDY" -> "OU_BSDY"     [] type = "FI_DLC" -> "OU_DLC"
      [] type = "FI_BIT" -> "OU_BIT"       [] OTHER -> "OU_DONE"

PendingAfterArm == inj_pending' = IF arm = 1 THEN 0 ELSE inj_pending
NoStrobe == prep_strobe' = 0 /\ xcvr_prep' = 0 /\ late_strobe' = 0

\* OU_BSFX, OU_DLC and OU_DATA_CRC are not in the list: they stay as they are.
OuSleep ==
    /\ shadow_state' = "ABIT" /\ bsfx_shift' = 0
    /\ \/ /\ ou_state \in {"OU_BIT", "OU_BSDY"}
          /\ ou_state' = "OU_DONE" /\ err' = [err EXCEPT !.miss = 1]
          /\ interrupt_req' = 0
       \/ /\ ou_state = "OU_DONE"
          /\ ou_state' = "OU_AWAIT_FI" /\ interrupt_req' = 1 /\ UNCHANGED err
       \/ /\ ou_state \in {"OU_AWAIT_FI", "OU_BSFX", "OU_DLC", "OU_DATA_CRC"}
          /\ interrupt_req' = 0 /\ UNCHANGED << ou_state, err >>
    /\ NoStrobe /\ PendingAfterArm /\ UNCHANGED prev_bit

\* In whatever state the unit is.
OuErrorFrame ==
    /\ ou_state' = "OU_DONE" /\ err' = [err EXCEPT !.fsm = 1]
    /\ NoStrobe /\ PendingAfterArm /\ interrupt_req' = 0
    /\ UNCHANGED << shadow_state, bsfx_shift, prev_bit >>

OuMatch(in) ==
    /\ ou_state' = ActiveState(in.fi.type)
    /\ err' = NoErr /\ inj_pending' = 1 /\ prev_bit' = 0
    /\ late_strobe' = 1 /\ prep_strobe' = 0 /\ xcvr_prep' = 0
    /\ interrupt_req' = 0
    /\ UNCHANGED << shadow_state, bsfx_shift >>

OuHold ==
    /\ NoStrobe /\ PendingAfterArm /\ interrupt_req' = 0
    /\ UNCHANGED << ou_state, err, shadow_state, bsfx_shift, prev_bit >>

OuDominant ==
    /\ ou_state' = "OU_DONE"
    /\ NoStrobe /\ PendingAfterArm /\ interrupt_req' = 0
    /\ UNCHANGED << err, shadow_state, bsfx_shift, prev_bit >>

\* The field has been sent to its end and one bit more, for its stuff bit.
OverrideSent ==
    \/ ou_state = "OU_DLC" /\ sf.cnt > 0 /\ After(sf.state, "CTRL")
    \/ ou_state = "OU_DATA_CRC" /\ sf.cnt > 0 /\ sf.state = "EOF"
    \/ ou_state \notin {"OU_DLC", "OU_DATA_CRC"}

OuTransceive ==
    /\ ou_state' = IF OverrideSent THEN "OU_DONE" ELSE ou_state
    /\ xcvr_prep' = IF OverrideSent THEN 0 ELSE 1
    /\ prep_strobe' = 0 /\ late_strobe' = 0
    /\ PendingAfterArm /\ interrupt_req' = 0
    /\ UNCHANGED << err, shadow_state, bsfx_shift, prev_bit >>

\* What the sampled bit means for the unit: Prep, it may precede a target;
\* Miss, the target field is past; Stop, nothing (more) to do; Keep.
BsfxWindow == IF bsfx_shift = 1 THEN shadow_state ELSE fsm_state

BitVerdictMissFirst(in) ==              \* mutant: arm is looked at last
    IF fsm_state = fi_can_field' /\ fsm_cnt = in.fi.meta THEN "Prep"
    ELSE IF After(fsm_state, fi_can_field') THEN "Miss"
    ELSE IF arm = 1 THEN "Stop" ELSE "Keep"

BitVerdict(in) ==
    IF arm = 1 THEN "Stop"
    ELSE IF fsm_state = fi_can_field' /\ fsm_cnt = in.fi.meta THEN "Prep"
    ELSE IF After(fsm_state, fi_can_field') THEN "Miss" ELSE "Keep"

BsdyVerdict ==
    IF arm = 1 THEN "Stop"
    ELSE IF shadow_state = fi_can_field' THEN "Prep"
    ELSE IF After(shadow_state, fi_can_field') THEN "Miss" ELSE "Keep"

BsfxVerdictNoMiss ==                    \* mutant: waits for ever
    IF arm = 1 THEN "Stop"
    ELSE IF BsfxWindow \in {"CRC_STF", "CRC"} /\ fd_mode = 1 THEN "Prep" ELSE "Keep"

BsfxVerdict ==
    IF arm = 1 THEN "Stop"
    ELSE IF BsfxWindow \in {"CRC_STF", "CRC"} /\ fd_mode = 1 THEN "Prep"
    ELSE IF After(BsfxWindow, "CRC") THEN "Miss" ELSE "Keep"

DlcVerdict ==
    IF After(fsm_state, "CTRL") THEN "Stop"
    ELSE IF fsm_state = "CTRL" /\ fsm_cnt > 3 THEN "Prep" ELSE "Keep"

DataVerdict(in) ==
    IF dlc_ready = 1 /\ in.fi.meta % 16 /= dlc_buffer THEN "BadDlc"
    ELSE IF \/ fsm_state \in {"DATA", "CRC_STF", "CRC"}
            \/ fsm_state = "EOF" /\ fsm_cnt = 0 THEN "Prep"
    ELSE IF fsm_state = "EOF" \/ After(fsm_state, "EOF") THEN "Stop"
    ELSE "Keep"

Verdict(in) ==
    CASE ou_state = "OU_BIT"      -> BitVerdict(in)
      [] ou_state = "OU_BSDY"     -> BsdyVerdict
      [] ou_state = "OU_BSFX"     -> BsfxVerdict
      [] ou_state = "OU_DLC"      -> DlcVerdict
      [] ou_state = "OU_DATA_CRC" -> DataVerdict(in)
      [] OTHER                    -> "Stop"

OuSample(in) ==
    LET v == Verdict(in)
    IN  /\ shadow_state' = fsm_state /\ prev_bit' = sample_buf
        /\ prep_strobe' = IF v = "Prep" THEN 1 ELSE 0
        /\ bsfx_shift' = IF ou_state = "OU_BSFX" /\ v = "Prep" THEN 1
                         ELSE bsfx_shift
        /\ ou_state' = IF v \in {"Stop", "Miss", "BadDlc"} THEN "OU_DONE"
                       ELSE ou_state
        /\ err' = IF v = "Miss" THEN [err EXCEPT !.miss = 1]
                  ELSE IF v = "BadDlc" THEN [err EXCEPT !.dlc = 1] ELSE err
        /\ xcvr_prep' = 0 /\ late_strobe' = 0
        /\ PendingAfterArm /\ interrupt_req' = 0

OuStateMachine(in) ==
    \/ in.sleep = 1 /\ OuSleep
    \/ in.sleep = 0 /\ fsm_state = "ERRF" /\ OuErrorFrame
    \/ NewMatch(in) /\ OuMatch(in)
    \/ /\ in.sleep = 0 /\ fsm_state /= "ERRF" /\ ou_state = "OU_AWAIT_FI"
       /\ ~NewMatch(in) /\ OuHold
    \/ /\ in.sleep = 0 /\ fsm_state /= "ERRF" /\ ou_state /= "OU_AWAIT_FI"
       /\ LET dominant == err_dom = 1 /\ in.fip_strb = 1
              sampled == (sample_ready = 1 \/ late_strobe = 1) /\ xcvr_req = 0
          IN  \/ dominant /\ OuDominant
              \/ ~dominant /\ in.xcvr_strb = 1 /\ OuTransceive
              \/ ~dominant /\ in.xcvr_strb = 0 /\ sampled /\ OuSample(in)
              \/ ~dominant /\ in.xcvr_strb = 0 /\ ~sampled /\ OuHold
-----------------------------------------------------------------------------
(* shadow_stuffer *)

\* The destuffer's context is copied while the unit only listens.
CopiedSb == IF prep_strobe = 1
            THEN [state |-> bs_state, crc_cnt |-> bs_crc_cnt, last |-> bs_last,
                  run |-> bs_run, insert |-> bs_insert]
            ELSE sb

SbSixEqual == queue = sb.last /\ sb.run >= 5    \* mutant
SbFiveEqual == queue = sb.last /\ sb.run >= 4
SbShifted ==
    [CopiedSb EXCEPT !.insert = 0, !.last = queue,
        !.run = IF queue /= sb.last THEN 1 ELSE IF sb.run < 5 THEN sb.run + 1 ELSE 5]

SbNext ==
    CASE sb.state = "MONITOR" /\ sf.crc_mode = 1 ->
            [SbShifted EXCEPT !.state = "CRC_INSERT", !.insert = 1]
      [] sb.state = "MONITOR" /\ sf.crc_mode = 0 /\ SbFiveEqual ->
            [SbShifted EXCEPT !.state = "INSERT", !.insert = 1]
      [] \/ sb.state = "MONITOR" /\ sf.crc_mode = 0 /\ ~SbFiveEqual
         \/ sb.state = "INSERT" ->
            [SbShifted EXCEPT !.state =
                IF sf.disable = 1 THEN "DISABLE" ELSE "MONITOR"]
      [] sb.state = "CRC" /\ sf.disable = 1 ->
            [SbShifted EXCEPT !.state = "DISABLE", !.crc_cnt = sb.crc_cnt + 1]
      [] sb.state = "CRC" /\ sf.disable = 0 /\ sb.crc_cnt = 3 ->
            [SbShifted EXCEPT !.state = "CRC_INSERT", !.crc_cnt = 0, !.insert = 1]
      [] sb.state = "CRC" /\ sf.disable = 0 /\ sb.crc_cnt /= 3 ->
            [SbShifted EXCEPT !.crc_cnt = sb.crc_cnt + 1]
      [] sb.state = "CRC_INSERT" ->
            [SbShifted EXCEPT !.state = "CRC", !.crc_cnt = 0]
      [] OTHER -> [SbShifted EXCEPT !.state = "DISABLE"]

ShadowStuffer ==
    sb' = IF stage_iii = 1 \/ subst = 1 THEN SbNext ELSE CopiedSb
-----------------------------------------------------------------------------
(* prep_override: stage II and IIa *)

\* The shadow FSM follows the parser while the unit only listens.
SyncedSf == IF prep_strobe = 1
            THEN [state |-> fsm_state, cnt |-> fsm_cnt,
                  crc_mode |-> bs_crc_mode, disable |-> 0]
            ELSE sf

ShiftOut(sr) == (2 * sr) % 16
DlcTop == dlc_sr \div 8                 \* dlc_override_sr_r(3)

InsertFixed == bs_insert = 1 /\ bs_state /= "INSERT"
InsertDynamic == bs_state = "INSERT"

QueueKept(in) == queue                  \* mutant: never released
QueueAtRest(in) == IF in.sleep = 0 /\ ou_state = "OU_DONE" THEN 1 ELSE queue

VectorIndexKept(load) == data_cnt       \* mutant: goes on from the last frame
VectorIndex(load) == IF load THEN VectorBits - 1 ELSE data_cnt

NoPrep(in) ==
    /\ queue' = QueueAtRest(in)
    /\ bs_cnt' = IF in.sleep = 1 THEN 0 ELSE bs_cnt
    /\ xcvr_req' = IF in.sleep = 1 THEN 0 ELSE xcvr_req
    /\ sf' = SyncedSf
    /\ LET load == in.sleep = 0 /\ ou_state = "OU_AWAIT_FI"
                   /\ fi_parsed = 1 /\ in.vec_ready = 1
       IN  /\ data_cnt' = VectorIndex(load)
           /\ dlc_sr' = IF load THEN in.fi.meta % 16 ELSE dlc_sr
    /\ subst' = 0 /\ stage_iii' = 0

PrepBitBlind ==                         \* mutant: no look at the destuffer
    /\ ou_state = "OU_BIT"
    /\ queue' = 0
    /\ sf' = SyncedSf /\ subst' = 0 /\ stage_iii' = 0
    /\ UNCHANGED << bs_cnt, dlc_sr, data_cnt, xcvr_req >>

PrepBit ==
    /\ ou_state = "OU_BIT"
    /\ queue' = bs_insert
    /\ sf' = SyncedSf /\ subst' = 0 /\ stage_iii' = 0
    /\ UNCHANGED << bs_cnt, dlc_sr, data_cnt, xcvr_req >>

\* Counts the stuff bits of the field up to the index in fi_meta.
PrepStuff(in) ==
    /\ ou_state \in {"OU_BSFX", "OU_BSDY"}
    /\ LET stuff == IF ou_state = "OU_BSFX" THEN InsertFixed ELSE InsertDynamic
           hit == stuff /\ bs_cnt = in.fi.meta
       IN  /\ bs_cnt' = IF stuff /\ ~hit THEN bs_cnt + 1 ELSE bs_cnt
           /\ queue' = IF hit THEN 0 ELSE 1
    /\ sf' = SyncedSf /\ subst' = 0 /\ stage_iii' = 0
    /\ UNCHANGED << dlc_sr, data_cnt, xcvr_req >>

\* A stuff bit within the overridden field, before a dominant override.
PrepStuffBit ==
    /\ ou_state \in {"OU_DLC", "OU_DATA_CRC"} /\ bs_insert = 1
    /\ queue' = IF inj_pending = 0 THEN Not(prev_bit) ELSE 1
    /\ sf' = SyncedSf /\ subst' = 0 /\ stage_iii' = 0
    /\ UNCHANGED << bs_cnt, dlc_sr, data_cnt, xcvr_req >>

\* The first dominant override bit switches to transceiver mode.
Override(bit) ==
    /\ queue' = bit /\ xcvr_req' = Not(bit) /\ subst' = Not(bit)
    /\ stage_iii' = 0 /\ UNCHANGED bs_cnt

PrepDlc ==
    /\ ou_state = "OU_DLC" /\ bs_insert = 0
    /\ Override(DlcTop)
    /\ dlc_sr' = ShiftOut(dlc_sr)
    /\ sf' = IF fsm_cnt = 7 THEN [SyncedSf EXCEPT !.state = "CRC", !.cnt = 0]
             ELSE [SyncedSf EXCEPT !.cnt = fsm_cnt + 1]
    /\ UNCHANGED data_cnt

FieldEndLate(st, cnt) ==                \* mutant: one payload bit too many
    \/ st = "DATA" /\ cnt = data_width
    \/ st = "CRC_STF" /\ cnt = 3
    \/ st = "CRC" /\ cnt = crc_width - 1
\* The bit at position cnt of state st is the last one of its field.
FieldEnd(st, cnt) ==
    \/ st = "DATA" /\ cnt = data_width - 1
    \/ st = "CRC_STF" /\ cnt = 3
    \/ st = "CRC" /\ cnt = crc_width - 1
AdvancedSf(st, cnt) ==
    IF ~FieldEnd(st, cnt) THEN [SyncedSf EXCEPT !.cnt = cnt + 1]
    ELSE CASE st = "DATA" ->
                [SyncedSf EXCEPT !.cnt = 0, !.crc_mode = fd_mode,
                    !.state = IF fd_mode = 1 THEN "CRC_STF" ELSE "CRC"]
           [] st = "CRC_STF" -> [SyncedSf EXCEPT !.cnt = 0, !.state = "CRC"]
           [] st = "CRC" ->
                [SyncedSf EXCEPT !.cnt = 0, !.state = "EOF", !.disable = 1]

PrepData(in) ==
    /\ ou_state = "OU_DATA_CRC" /\ bs_insert = 0
    /\ Override(in.data)
    /\ data_cnt' = data_cnt - 1
    /\ sf' = AdvancedSf(fsm_state, fsm_cnt)
    /\ UNCHANGED dlc_sr

XcvrStuffBitConsumes ==                 \* mutant: the vector's bit is lost
    /\ sb'.insert = 1
    /\ queue' = Not(sb.last)
    /\ sf' = SyncedSf
    /\ data_cnt' = data_cnt - 1 /\ UNCHANGED dlc_sr

\* Stage IIa. The comparison is with the stuffer's value of this very edge.
XcvrStuffBit ==
    /\ sb'.insert = 1
    /\ queue' = Not(sb.last)
    /\ sf' = SyncedSf
    /\ UNCHANGED << dlc_sr, data_cnt >>

XcvrDlc ==
    /\ sb'.insert = 0 /\ ou_state = "OU_DLC"
    /\ queue' = IF sf.cnt /= 7 /\ sf.state = "CRC" THEN 1 ELSE DlcTop
    /\ dlc_sr' = ShiftOut(dlc_sr)
    /\ sf' = IF sf.cnt = 7 THEN [SyncedSf EXCEPT !.state = "CRC", !.cnt = 0]
             ELSE [SyncedSf EXCEPT !.cnt = sf.cnt + 1]
    /\ UNCHANGED data_cnt

XcvrDataOverrun(in) ==                  \* mutant: goes on after the CRC
    /\ sb'.insert = 0 /\ ou_state = "OU_DATA_CRC"
    /\ queue' = in.data
    /\ data_cnt' = data_cnt - 1
    /\ sf' = AdvancedSf(sf.state, sf.cnt)
    /\ UNCHANGED dlc_sr

XcvrData(in) ==
    /\ sb'.insert = 0 /\ ou_state = "OU_DATA_CRC"
    /\ queue' = IF sf.state = "EOF" THEN 1 ELSE in.data
    /\ data_cnt' = data_cnt - 1
    /\ sf' = AdvancedSf(sf.state, sf.cnt)
    /\ UNCHANGED dlc_sr

XcvrOther ==
    /\ sb'.insert = 0 /\ ou_state \notin {"OU_DLC", "OU_DATA_CRC"}
    /\ sf' = [SyncedSf EXCEPT !.cnt = sf.cnt]
    /\ UNCHANGED << queue, dlc_sr, data_cnt >>

PrepOverride(in) ==
    LET idle == in.sleep = 1 \/ ou_state \in {"OU_AWAIT_FI", "OU_DONE"}
    IN  \/ idle /\ NoPrep(in)
        \/ /\ ~idle /\ prep_strobe = 1
           /\ \/ PrepBit \/ PrepStuff(in)
              \/ PrepStuffBit \/ PrepDlc \/ PrepData(in)
        \/ /\ ~idle /\ prep_strobe = 0 /\ xcvr_prep = 1
           /\ \/ XcvrStuffBit \/ XcvrDlc \/ XcvrData(in) \/ XcvrOther
           /\ stage_iii' = 1 /\ subst' = 0 /\ UNCHANGED << bs_cnt, xcvr_req >>
        \/ ~idle /\ prep_strobe = 0 /\ xcvr_prep = 0 /\ NoPrep(in)
-----------------------------------------------------------------------------
(* arm_injection: stage III *)

ArmInjection(in) ==
    LET dom == IF NewMatch(in) THEN 0 ELSE err_dom
    IN  \/ /\ in.sleep = 1 \/ ou_state' = "OU_DONE"
           /\ arm' = 0 /\ err_dom' = dom
        \/ /\ in.sleep = 0 /\ ou_state' /= "OU_DONE"
           /\ \/ stage_iii = 1 /\ arm' = Not(queue) /\ err_dom' = dom
              \/ /\ stage_iii = 0 /\ in.psp_strb = 1
                 /\ arm' = IF queue = 0 /\ in.psp = 1 THEN 1 ELSE 0
                 /\ err_dom' = IF queue = 0 /\ in.psp = 0 THEN 1 ELSE dom
              \/ /\ stage_iii = 0 /\ in.psp_strb = 0
                 /\ err_dom' = dom /\ UNCHANGED arm
-----------------------------------------------------------------------------
OuClock(in) ==
    /\ ParseFiFrame(in)
    /\ OuStateMachine(in)
    /\ ShadowStuffer
    /\ PrepOverride(in)
    /\ ArmInjection(in)

\* The reset branch: every register of the unit.
OuReset ==
    /\ ou_state' = "OU_AWAIT_FI"
    /\ fi_parsed' = 0 /\ fi_can_field' = "SLEEP"
    /\ prep_strobe' = 0 /\ xcvr_prep' = 0 /\ late_strobe' = 0
    /\ shadow_state' = "ABIT" /\ bsfx_shift' = 0 /\ prev_bit' = 0
    /\ interrupt_req' = 0 /\ err' = NoErr /\ inj_pending' = 0
    /\ queue' = 1 /\ bs_cnt' = 0 /\ dlc_sr' = 0 /\ data_cnt' = VectorBits - 1
    /\ xcvr_req' = 0 /\ subst' = 0 /\ stage_iii' = 0
    /\ sf' = [state |-> "ABIT", cnt |-> 0, crc_mode |-> 0, disable |-> 0]
    /\ sb' = [state |-> "MONITOR", crc_cnt |-> 0, last |-> 0, run |-> 5,
              insert |-> 0]
    /\ arm' = 0 /\ err_dom' = 0
=============================================================================
