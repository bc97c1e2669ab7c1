---------------------------- MODULE TimerProofs ----------------------------
(***************************************************************************)
(* The timer unit on a bus, for all register contents within the ranges of *)
(* the code, any sender and any requests of the other units: its registers *)
(* keep their ranges, the points of a bit come in order, and it is the     *)
(* BitClock that the theorems about the parser start from.                 *)
(*                                                                         *)
(* The quantum counter is moved by three things: the ticks, which advance  *)
(* it; an edge on the bus, which sets it back, forward or to the start of  *)
(* the bit; and a switch of the rate, which leaves it where it is but moves *)
(* the points. PlaceInv says what a point that has been passed means for   *)
(* the counter after all of them. What makes the third harmless is         *)
(* BitStarts: PSP, FIP and sample point are only exchanged while the       *)
(* counter is at 0 or 1, before any of them.                               *)
(***************************************************************************)
EXTENDS TimerBus, SequenceTheorems, TLAPS

\* Register contents with the points in order: the PSP behind the two time
\* quanta that a rate switch or a resynchronisation may skip, then the FIP, then
\* the sample point.
OrderedTimings ==
    \A t \in Timings : \A r \in {t.nomi, t.data} :
        3 <= r.psp /\ r.psp < r.fip /\ r.fip <= r.ph1

\* Register contents whose first phase is longer than MinGap time quanta.
SpacedTimings ==
    \A t \in Timings : MinGap < t.nomi.ph1 /\ MinGap < t.data.ph1
-----------------------------------------------------------------------------
(* Invariants *)

Tags == [kind : Kinds, par : Bit, level : Bit]
ActiveRates ==
    [ph1 : {cfg.nomi.ph1, cfg.data.ph1, 8}, ph2 : {cfg.nomi.ph2, cfg.data.ph2, 2},
     sjw : Nat \ {0}, brp : Nat \ {0}, psp : Nat, fip : Nat, brs : Bit]

CfgInv == cfg \in Timings
LevelInv ==
    /\ can_rx_int \in Bit \X Bit /\ can_rx_buf \in Bit /\ prev_rx \in Bit
    /\ can_tx_buf \in Bit /\ sent \in Bit /\ wire \in Seq(Bit) /\ Len(wire) = Delay
UnitInv ==
    /\ active \in ActiveRates
    /\ cfg_en \in Bit /\ arm \in Bit /\ xcvr_req \in Bit /\ xcvr_mode \in Bit
    /\ tu_active \in Bit /\ smgmt_tu_state \in {"CONFIG", "SLEEP", "ACTIVE"}
    /\ tu_active = 1 <=> smgmt_tu_state = "ACTIVE"
    /\ smgmt_tq_cnt \in 0 .. Longest /\ smgmt_bit_cnt \in 0 .. IdleBits
    /\ smgmt_tu_state = "CONFIG" /\ smgmt_bit_cnt = IdleBits => smgmt_tq_cnt = 0
    /\ strb_cnt \in Nat /\ strb_tick \in Bit
    /\ btl_tq_cnt \in 0 .. Longest
    /\ gl_idx_cnt \in 0 .. MaxGlitchRec /\ gl_rec_cnt \in 0 .. gl_idx_cnt
DelayInv ==
    /\ td_slot \in [Slots -> {Free} \cup 0 .. TdModulus - 1]
    /\ td_measure \in {Free} \cup 0 .. TdModulus - 1
    /\ xcvr_delay \in 0 .. TdModulus - 1
SenderInv ==
    /\ bit \in Tags /\ left \in Nat /\ rec \in 0 .. MaxRec
    /\ bit.kind /= "idle" => left >= 1
TypeInv == CfgInv /\ LevelInv /\ UnitInv /\ DelayInv /\ SenderInv

\* Behind the start of a bit the points are those of one rate.
RateInv ==
    tu_active = 1 => \E r \in {cfg.nomi, cfg.data} :
        active.ph1 = r.ph1 /\ active.psp = r.psp /\ active.fip = r.fip
BitStarts == bit_start \in Bit /\ (bit_start = 1 => btl_tq_cnt <= 1)
StateInv == CfgInv /\ UnitInv /\ RateInv /\ BitStarts

\* Where the counter may be between two samples, by the last point passed.
PlaceInv ==
    tu_active = 1 /\ xcvr_mode = 0 =>
        /\ points = "none" => btl_tq_cnt < active.psp \/ btl_tq_cnt > active.ph1
        /\ points = "psp" => btl_tq_cnt < active.fip
        /\ points = "fip" => btl_tq_cnt <= active.ph1
        /\ points \in {"none", "psp", "fip"}

\* The edges since the last sample, by the counter on its way to the next: it
\* is at most two ahead of them.
Within(count, edges) == count <= edges + 2
GapInv ==
    /\ since \in 0 .. MinGap /\ sample_strb \in Bit
    /\ tu_active = 1 /\ sample_strb = 1 =>
          since = MinGap /\ (btl_tq_cnt <= 1 \/ btl_tq_cnt > active.ph1)
    /\ tu_active = 1 /\ sample_strb = 0 /\ btl_tq_cnt <= active.ph1 =>
          since = MinGap \/ Within(btl_tq_cnt, since)
-----------------------------------------------------------------------------
(* Register contents *)

LEMMA CfgRates ==
    ASSUME CfgInv
    PROVE  /\ cfg.nomi \in Rates /\ cfg.data \in Rates
           /\ cfg.ssp \in Nat /\ cfg.td_en \in Bit
BY TimingsAssumption DEF CfgInv

\* Longest is a length of a bit, and none is longer.
LEMMA LongestBit ==
    ASSUME CfgInv
    PROVE  /\ Longest \in Nat
           /\ \A a \in {cfg.nomi.ph1, cfg.data.ph1, 8}, b \in {cfg.nomi.ph2, cfg.data.ph2, 2} :
                 1 + a + b <= Longest
<1> DEFINE A == {cfg.nomi.ph1, cfg.data.ph1, 8}
           B == {cfg.nomi.ph2, cfg.data.ph2, 2}
           S == {1 + e[1] + e[2] : e \in A \X B}
           top(n) == \A e \in A \X B : 1 + e[1] + e[2] <= n
<1>1. A \subseteq Nat /\ B \subseteq Nat
  BY CfgRates DEF Rates
<1>2. PICK a \in A : \A x \in A : x <= a
  BY <1>1
<1>3. PICK b \in B : \A y \in B : y <= b
  BY <1>1
<1>4. 1 + a + b \in S /\ top(1 + a + b)
  <2>1. << a, b >> \in A \X B
    OBVIOUS
  <2>2. 1 + a + b \in S
    BY <2>1
  <2>3. \A e \in A \X B : e[1] \in A /\ e[2] \in B
    OBVIOUS
  <2>4. top(1 + a + b)
    BY <1>1, <1>2, <1>3, <2>3
  <2> QED
    BY <2>2, <2>4
<1>5. Longest = CHOOSE n \in S : top(n)
  BY DEF Longest
<1>6. Longest \in S /\ top(Longest)
  BY <1>4, <1>5
<1>7. S \subseteq Nat
  BY <1>1
<1>8. ASSUME NEW x \in A, NEW y \in B PROVE 1 + x + y <= Longest
  <2>1. << x, y >> \in A \X B
    OBVIOUS
  <2> QED
    BY <1>6, <2>1
<1> QED
  BY <1>6, <1>7, <1>8

\* Both phases of a bit have a length, and a bit lasts at least three edges.
LEMMA RateLengths ==
    ASSUME NEW r \in Rates
    PROVE  /\ Ph1Edges(r) \in Nat /\ Ph1Edges(r) >= 2
           /\ Ph2Edges(r) \in Nat /\ Ph2Edges(r) >= 1
<1>1. \A m, n \in Nat : m >= 1 /\ n >= 1 =>
         (1 + m) * n \in Nat /\ (1 + m) * n >= 2 /\ m * n \in Nat /\ m * n >= 1
  OBVIOUS
<1> QED
  BY <1>1 DEF Rates, Ph1Edges, Ph2Edges

LEMMA BitLengths ==
    ASSUME CfgInv
    PROVE  \A kind, level : BitEdges(kind, level) \in Nat /\ BitEdges(kind, level) >= 3
<1> TAKE kind, level
<1>1. Ph1Rate(kind) \in Rates /\ Ph2Rate(kind, level) \in Rates
  BY CfgRates DEF Ph1Rate, Ph2Rate
<1> QED
  BY <1>1, RateLengths DEF BitEdges
-----------------------------------------------------------------------------
(* Types *)

\* In a frame a bit of some kind comes next.
LEMMA FollowingBits ==
    ASSUME NEW kind \in Kinds \ {"idle", "glitch", "last"}, NEW level \in Bit
    PROVE  \A b \in Following(kind, level) : b[1] \in Kinds \ {"idle", "glitch"} /\ b[2] \in Bit
<1>1. \/ Following(kind, level) =
             {"nomi"} \X Bit \cup {<< "fdf", 1 >>, << "last", 1 >>}
      \/ Following(kind, level) = {<< "res", 0 >>}
      \/ Following(kind, level) = {"brs"} \X Bit
      \/ Following(kind, level) = {"data", "crc"} \X Bit
      \/ Following(kind, level) = {<< "del", 1 >>}
  BY DEF Following, Kinds, Bit
<1> QED
  BY <1>1 DEF Kinds, Bit

\* Levels go through the bus, the transceiver and the input registers as bits.
LEMMA LevelStep == LevelInv /\ UnitInv /\ SenderInv /\ Edge => LevelInv'
<1> SUFFICES ASSUME LevelInv, UnitInv, SenderInv, Edge PROVE LevelInv'
  OBVIOUS
<1>1. Delay \in Nat /\ Delay >= 1
  BY TimerBusAssumption
<1>2. wire[Delay] \in Bit /\ Level \in Bit
  BY <1>1 DEF LevelInv, Level, Bit
<1>3. /\ can_rx_int' = << wire[Delay], can_rx_int[1] >>
      /\ can_rx_buf' = can_rx_int[2] /\ prev_rx' = can_rx_buf
  BY DEF Edge, TuClock, Synchronise
<1>4. can_tx_buf' \in Bit
  <2>1. \A b \in Bit : Not(b) \in Bit
    BY DEF Not, Bit
  <2>2. Not(Inputs.arm) \in Bit
    BY <2>1 DEF UnitInv, Inputs
  <2> QED
    BY <2>2 DEF Edge, TuClock, BtlProcessor, Drive, LevelInv, Bit
<1>5. sent' \in Bit
  <2>1. \A k, l : l \in Bit /\ NextBit(k, l) => sent' \in Bit
    BY DEF NextBit
  <2>2. \A n : Rest(n) => sent' \in Bit
    BY DEF Rest, Bit
  <2>3. SenderIdle => sent' \in Bit
    BY <2>1, <2>2 DEF SenderIdle, Bit
  <2>4. SenderHolds \/ OwnBits => sent' \in Bit
    BY DEF SenderHolds, OwnBits, LevelInv, Bit
  <2>5. SenderMovesOn => sent' \in Bit
    <3>1. SenderMovesOn => \/ \E n : Rest(n)
                           \/ /\ bit.kind \notin {"idle", "glitch", "last"}
                              /\ \E b \in Following(bit.kind, sent) : NextBit(b[1], b[2])
      BY DEF SenderMovesOn
    <3> QED
      BY <2>1, <2>2, <3>1, FollowingBits DEF LevelInv, SenderInv, Tags
  <2> QED
    BY <2>2, <2>3, <2>4, <2>5 DEF Edge, Sender
<1>6. wire' \in Seq(Bit) /\ Len(wire') = Delay
  <2>1. wire' = << Level >> \o SubSeq(wire, 1, Delay - 1)
    BY DEF Edge, Sender
  <2>2. /\ SubSeq(wire, 1, Delay - 1) \in Seq(Bit)
        /\ Len(SubSeq(wire, 1, Delay - 1)) = Delay - 1
    BY <1>1, SubSeqProperties DEF LevelInv
  <2>3. << Level >> \in Seq(Bit) /\ Len(<< Level >>) = 1
    BY <1>2
  <2> QED
    BY <1>1, <2>1, <2>2, <2>3, ConcatProperties
<1> QED
  BY <1>2, <1>3, <1>4, <1>5, <1>6 DEF LevelInv

\* The rate in use is always made of the two configured ones.
LEMMA RateStep ==
    ASSUME CfgInv, UnitInv, BitStarts, RateInv, Edge
    PROVE  /\ active' \in ActiveRates /\ active'.ph1 \in Nat \ {0} /\ active'.ph2 \in Nat \ {0}
           /\ bit_start = 0 \/ tu_active = 0 \/
              \E r \in {cfg.nomi, cfg.data} :
                 active'.ph1 = r.ph1 /\ active'.psp = r.psp /\ active'.fip = r.fip
           /\ tu_active = 0 => /\ active'.ph1 = cfg.nomi.ph1 /\ active'.psp = cfg.nomi.psp
                               /\ active'.fip = cfg.nomi.fip
           /\ tu_active = 1 /\ bit_start = 0 =>
                 UNCHANGED << active.ph1, active.psp, active.fip >>
<1> QED
  BY CfgRates DEF Edge, TuClock, ShiftSpeed, UnitInv, ActiveRates, Rates, Bit, BitStarts

\* Where a tick takes the quantum counter: on by one; back or on within the
\* bit, after an edge; or to the start of a bit. A bit only starts at the
\* counts 0 and 1.
LEMMA CounterMoves ==
    ASSUME CfgInv, UnitInv, BitStarts, RateInv, Edge
    PROVE  /\ tu_active = 0 => btl_tq_cnt' = 0 /\ bit_start' = bit_start
           /\ tu_active = 1 /\ strb_tick = 0 => UNCHANGED << btl_tq_cnt, bit_start >>
           /\ tu_active = 1 /\ strb_tick = 1 =>
                 \/ btl_tq_cnt' \in {0, 1} /\ bit_start' \in Bit
                 \/ /\ btl_tq_cnt' = btl_tq_cnt + 1 /\ bit_start' = 0
                    /\ btl_tq_cnt' <= active'.ph1 + active'.ph2
                 \/ /\ btl_tq_cnt' \in 1 .. btl_tq_cnt /\ bit_start' = 0
                    /\ btl_tq_cnt < active'.ph1
                 \/ /\ btl_tq_cnt' \in btl_tq_cnt + 1 .. active'.ph1 + active'.ph2
                    /\ bit_start' = 0 /\ btl_tq_cnt >= active'.ph1
<1> DEFINE in == Inputs
           ph1 == active'.ph1
           ph2 == active'.ph2
           sjw == active'.sjw
<1>1. ph1 \in Nat \ {0} /\ ph2 \in Nat \ {0} /\ sjw \in Nat \ {0}
  BY RateStep DEF ActiveRates
<1>2. btl_tq_cnt \in Nat /\ tu_active \in {0, 1} /\ strb_tick \in {0, 1}
  BY LongestBit DEF UnitInv, Bit
<1>3. CountQuanta(in)
  BY DEF Edge, TuClock, BtlProcessor
<1>4. /\ end_val_ph1 = 1 + ph1 /\ end_val_ph2 = 1 + ph1 + ph2
      /\ resync_target_ph1(in.hard_sync) =
            (IF btl_tq_cnt + 1 - sjw < 1 \/ in.hard_sync = 1 THEN 1 ELSE btl_tq_cnt + 1 - sjw)
      /\ resync_target_ph2(in.hard_sync) =
            (IF btl_tq_cnt + 1 + sjw > 1 + ph1 + ph2 \/ in.hard_sync = 1 THEN 1
             ELSE IF btl_tq_cnt + 1 + sjw = 1 + ph1 + ph2 THEN 0 ELSE btl_tq_cnt + 1 + sjw)
  BY DEF end_val_ph1, end_val_ph2, resync_target_ph1, resync_target_ph2
<1> HIDE DEF ph1, ph2, sjw
<1>5. CASE tu_active = 1 /\ strb_tick = 1
  <2>1. Advanced = (IF btl_tq_cnt < ph1 + ph2 THEN btl_tq_cnt + 1 ELSE 0)
    BY <1>1, <1>2, <1>4 DEF Advanced
  <2>2. bit_start' = (IF btl_tq_cnt >= ph1 + ph2
                         \/ (ResyncDue /\ btl_tq_cnt > 0 /\ btl_tq_cnt >= ph1
                             /\ resync_target_ph2(in.hard_sync) < btl_tq_cnt) THEN 1 ELSE 0)
    BY <1>1, <1>2, <1>3, <1>4, <1>5 DEF CountQuanta, Tick
  <2>3. CASE HardRestart(in)
    <3>1. btl_tq_cnt' = 0
      BY <1>3, <1>5, <2>3 DEF CountQuanta, Tick
    <3> QED
      BY <1>5, <2>2, <3>1 DEF Bit
  <2>4. CASE ~HardRestart(in) /\ ~ResyncDue
    <3>1. btl_tq_cnt' = Advanced
      BY <1>3, <1>5, <2>4 DEF CountQuanta, Tick
    <3> QED
      BY <1>1, <1>2, <1>5, <2>1, <2>2, <2>4, <3>1 DEF Bit, ph1, ph2
  <2>5. CASE ~HardRestart(in) /\ ResyncDue
    <3>1. btl_tq_cnt' = Resynced(in.hard_sync)
      BY <1>3, <1>5, <2>5 DEF CountQuanta, Tick
    <3>2. CASE btl_tq_cnt = 0
      <4>1. btl_tq_cnt' = Advanced
        BY <3>1, <3>2 DEF Resynced
      <4> QED
        BY <1>1, <1>2, <1>5, <2>1, <2>2, <3>2, <4>1 DEF Bit, ph1, ph2
    <3>3. CASE btl_tq_cnt > 0 /\ btl_tq_cnt < ph1
      <4>1. btl_tq_cnt' = resync_target_ph1(in.hard_sync)
        BY <1>1, <1>2, <1>4, <3>1, <3>3 DEF Resynced
      <4>2. btl_tq_cnt' \in 1 .. btl_tq_cnt
        BY <1>1, <1>2, <1>4, <3>3, <4>1
      <4> QED
        BY <1>1, <1>2, <1>5, <2>2, <3>3, <4>2 DEF ph1, ph2
    <3>4. CASE btl_tq_cnt > 0 /\ btl_tq_cnt >= ph1
      <4>1. btl_tq_cnt' = resync_target_ph2(in.hard_sync)
        BY <1>1, <1>2, <1>4, <3>1, <3>4 DEF Resynced
      <4>2. \/ btl_tq_cnt' \in {0, 1}
            \/ btl_tq_cnt' = btl_tq_cnt + 1 + sjw /\ btl_tq_cnt' <= ph1 + ph2
        BY <1>1, <1>2, <1>4, <4>1
      <4> QED
        BY <1>1, <1>2, <1>5, <2>2, <3>4, <4>1, <4>2 DEF Bit, ph1, ph2
    <3> QED
      BY <1>1, <1>2, <3>2, <3>3, <3>4
  <2> QED
    BY <2>3, <2>4, <2>5
<1> QED
  BY <1>2, <1>3, <1>5 DEF CountQuanta, Tick

\* A bit starts at the counts 0 and 1, and with the points of one rate.
LEMMA StartStep ==
    ASSUME CfgInv, UnitInv, BitStarts, RateInv, Edge
    PROVE  BitStarts' /\ RateInv'
<1>1. cfg' = cfg
  BY DEF Edge, TuClock
<1>2. btl_tq_cnt \in Nat /\ tu_active \in {0, 1} /\ strb_tick \in {0, 1}
  BY LongestBit DEF UnitInv, Bit
<1>3. BitStarts'
  BY <1>2, CounterMoves DEF BitStarts, Bit
<1>4. RateInv'
  <2>1. CASE tu_active = 0
    BY <1>1, <2>1, RateStep DEF RateInv
  <2>2. CASE tu_active = 1 /\ bit_start = 0
    BY <1>1, <2>2, RateStep DEF RateInv
  <2>3. CASE tu_active = 1 /\ bit_start = 1
    BY <1>1, <2>3, RateStep DEF RateInv
  <2> QED
    BY <1>2, <2>1, <2>2, <2>3 DEF BitStarts, Bit
<1> QED
  BY <1>3, <1>4

\* The registers of the unit, but for the delay compensation.
LEMMA UnitStep ==
    ASSUME CfgInv, LevelInv, UnitInv, BitStarts, RateInv, Edge
    PROVE  UnitInv'
<1>1. cfg' = cfg /\ Longest' = Longest /\ ActiveRates' = ActiveRates
  BY DEF Edge, TuClock, Longest, ActiveRates
<1>2. /\ Longest \in Nat /\ 1 + active'.ph1 + active'.ph2 <= Longest
      /\ active'.ph1 \in Nat \ {0} /\ active'.ph2 \in Nat \ {0} /\ active' \in ActiveRates
  BY LongestBit, RateStep DEF ActiveRates
<1>3. IdleBits \in Nat \ {0} /\ MaxGlitchRec \in Nat \ {0} /\ active.brp \in Nat \ {0}
  BY TimerAssumption DEF UnitInv, ActiveRates
<1>4. /\ tu_active \in {0, 1} /\ strb_tick \in {0, 1} /\ btl_tq_cnt \in 0 .. Longest
      /\ smgmt_tq_cnt \in 0 .. Longest /\ smgmt_bit_cnt \in 0 .. IdleBits
      /\ smgmt_tu_state = "CONFIG" /\ smgmt_bit_cnt = IdleBits => smgmt_tq_cnt = 0
      /\ tu_active = 1 <=> smgmt_tu_state = "ACTIVE"
      /\ smgmt_tu_state \in {"CONFIG", "SLEEP", "ACTIVE"}
      /\ can_rx_buf \in {0, 1}
  BY DEF UnitInv, LevelInv, Bit
<1>5. btl_tq_cnt' \in 0 .. Longest
  BY <1>2, <1>4, CounterMoves
<1>6. /\ tu_active' \in {0, 1} /\ smgmt_tu_state' \in {"CONFIG", "SLEEP", "ACTIVE"}
      /\ tu_active' = 1 <=> smgmt_tu_state' = "ACTIVE"
      /\ smgmt_tq_cnt' \in 0 .. Longest /\ smgmt_bit_cnt' \in 0 .. IdleBits
      /\ smgmt_tu_state' = "CONFIG" /\ smgmt_bit_cnt' = IdleBits => smgmt_tq_cnt' = 0
  <2>1. StateMgmt(Inputs)
    BY DEF Edge, TuClock
  <2>2. CASE EnterConfig
    BY <1>2, <1>3, <2>2 DEF EnterConfig
  <2>3. CASE AwaitIdle
    BY <1>2, <1>3, <1>4, <2>3 DEF AwaitIdle, Tick, end_val_ph2
  <2>4. CASE Follow(Inputs) \/ AwaitSof
    BY <1>4, <2>4 DEF Follow, AwaitSof
  <2> QED
    BY <2>1, <2>2, <2>3, <2>4 DEF StateMgmt
<1>7. /\ gl_idx_cnt' \in 0 .. MaxGlitchRec /\ gl_rec_cnt' \in 0 .. gl_idx_cnt'
  <2>1. GlitchRejection /\ gl_idx_cnt \in 0 .. MaxGlitchRec /\ gl_rec_cnt \in 0 .. gl_idx_cnt
    BY DEF Edge, TuClock, UnitInv
  <2> QED
    BY <1>3, <1>4, <2>1 DEF GlitchRejection
<1>8. strb_cnt' \in Nat /\ strb_tick' \in {0, 1}
  BY DEF Edge, TuClock, StrobeGen, UnitInv
<1>9. /\ cfg_en' \in {0, 1} /\ arm' \in {0, 1} /\ xcvr_req' \in {0, 1}
      /\ xcvr_mode' \in {0, 1}
  BY DEF Edge, TuClock, BtlProcessor, Drive, Host, Arms, UnitInv, Bit
<1> QED
  BY <1>1, <1>2, <1>4, <1>5, <1>6, <1>7, <1>8, <1>9 DEF UnitInv, Bit

\* The slots and the measurement of the delay compensation.
LEMMA DelayStep ==
    ASSUME DelayInv, Edge
    PROVE  DelayInv'
<1>1. TdcCounter(Inputs)
  BY DEF Edge, TuClock
<1>2. TdModulus \in Nat \ {0} /\ TdUnknown \in 0 .. TdModulus - 1
  BY TimerAssumption
<1>3. \A n \in 0 .. TdModulus - 1 : Aged(n) \in 0 .. TdModulus - 1
  BY <1>2 DEF Aged
<1>4. 0 \in 0 .. TdModulus - 1 /\ Aged(0) \in 0 .. TdModulus - 1
  BY <1>2, <1>3
<1>5. td_slot' \in [Slots -> {Free} \cup 0 .. TdModulus - 1]
  BY <1>1, <1>3, <1>4 DEF TdcCounter, DelayInv
<1>6. td_measure' \in {Free} \cup 0 .. TdModulus - 1
  BY <1>1, <1>3, <1>4 DEF TdcCounter, DelayInv
<1>7. xcvr_delay' \in 0 .. TdModulus - 1
  BY <1>1, <1>2, <1>4 DEF TdcCounter, DelayInv
<1> QED
  BY <1>5, <1>6, <1>7 DEF DelayInv

\* The sender's bits have a length, and a bit on the bus is not over yet.
LEMMA SenderStep ==
    ASSUME CfgInv, LevelInv, UnitInv, SenderInv, Edge
    PROVE  SenderInv'
<1> DEFINE Keeps == /\ bit' \in Tags /\ left' \in Nat /\ rec' \in 0 .. MaxRec
                    /\ bit'.kind /= "idle" => left' >= 1
<1> SUFFICES Keeps
  BY DEF SenderInv, Tags
<1>1. /\ bit \in Tags /\ left \in Nat /\ rec \in 0 .. MaxRec
      /\ bit.kind /= "idle" => left >= 1
      /\ sent \in {0, 1}
      /\ bit.kind \in Kinds /\ bit.par \in {0, 1} /\ bit.level \in {0, 1}
  BY DEF SenderInv, Tags, LevelInv, Bit
<1>2. MaxRec \in Nat /\ FrameGap \in Nat /\ GlitchGap \in Nat /\ GlitchEdges \in Nat
  BY TimerBusAssumption
<1>3. \A k, l : BitEdges(k, l) \in Nat /\ BitEdges(k, l) >= 3
  BY BitLengths
<1>4. ASSUME NEW n \in Nat, Rest(n) PROVE Keeps
  BY <1>2, <1>4 DEF Rest, Idle, Tags, Kinds, Bit
<1>5. ASSUME NEW k \in Kinds, NEW l \in Bit, NextBit(k, l) PROVE Keeps
  <2>1. bit' = [kind |-> k, par |-> 1 - bit.par, level |-> l]
    BY <1>5 DEF NextBit
  <2>2. left' \in Nat /\ left' >= 1
    <3>1. PICK drift \in {-1, 0, 1} : left' = BitEdges(k, l) + drift
      BY <1>5 DEF NextBit
    <3> QED
      BY <1>3, <3>1
  <2>3. rec' \in 0 .. MaxRec
    BY <1>1, <1>2, <1>5 DEF NextBit
  <2> QED
    BY <1>1, <1>5, <2>1, <2>2, <2>3 DEF Tags, Bit
<1>6. CASE SenderIdle
  <2>1. CASE \E n \in Nat : Rest(n)
    BY <1>4, <2>1
  <2>2. CASE NextBit("sof", 0)
    BY <1>5, <2>2 DEF Kinds, Bit
  <2>3. CASE /\ left' \in 1 .. GlitchEdges
             /\ bit' = [Idle EXCEPT !.kind = "glitch", !.level = 0] /\ UNCHANGED rec
    <3>1. bit' = [kind |-> "glitch", par |-> 0, level |-> 0]
      BY <2>3 DEF Idle
    <3> QED
      BY <1>1, <1>2, <2>3, <3>1 DEF Tags, Kinds, Bit
  <2>4. (IF left = 0 THEN 0 ELSE left - 1) \in Nat
    BY <1>1
  <2> QED
    BY <1>6, <2>1, <2>2, <2>3, <2>4 DEF SenderIdle
<1>7. CASE SenderHolds
  BY <1>1, <1>3, <1>7 DEF SenderHolds
<1>8. CASE SenderMovesOn
  <2>1. CASE \E n \in Nat : Rest(n)
    BY <1>4, <2>1
  <2>2. CASE /\ bit.kind \notin {"idle", "glitch", "last"}
             /\ \E b \in Following(bit.kind, sent) : NextBit(b[1], b[2])
    BY <1>1, <1>5, <2>2, FollowingBits DEF Bit
  <2> QED
    BY <1>2, <1>8, <2>1, <2>2 DEF SenderMovesOn
<1>9. CASE OwnBits
  <2>1. bit' \in Tags
    BY <1>1, <1>9 DEF OwnBits, Tags, Kinds, Bit
  <2>2. left' \in Nat /\ left' >= 1
    <3>1. OwnRate \in Rates
      BY CfgRates DEF OwnRate
    <3>2. Ph1Edges(OwnRate) + Ph2Edges(OwnRate) \in Nat
          /\ Ph1Edges(OwnRate) + Ph2Edges(OwnRate) >= 3
      BY <3>1, RateLengths
    <3> QED
      BY <1>1, <1>9, <3>2 DEF OwnBits
  <2> QED
    BY <1>1, <1>9, <2>1, <2>2 DEF OwnBits
<1> QED
  BY <1>2, <1>4, <1>6, <1>7, <1>8, <1>9 DEF Edge, Sender

\* The registers after reset.
LEMMA TimerInit == BusInit => TypeInv /\ RateInv /\ BitStarts /\ PlaceInv
<1> SUFFICES ASSUME BusInit PROVE TypeInv /\ RateInv /\ BitStarts /\ PlaceInv
  OBVIOUS
<1>1. CfgInv
  BY DEF BusInit, CfgInv
<1>2. LevelInv
  <2>1. wire \in [1 .. Delay -> Bit] /\ Delay \in Nat
    BY TimerBusAssumption DEF BusInit, Bit
  <2>2. wire \in Seq(Bit) /\ Len(wire) = Delay
    BY <2>1
  <2> QED
    BY <2>2 DEF BusInit, TuInit, LevelInv, Bit
<1>3. UnitInv
  <2>1. Longest \in Nat
    BY <1>1, LongestBit
  <2>2. active \in ActiveRates
    BY DEF BusInit, TuInit, ActiveRates, Bit
  <2> QED
    BY <2>1, <2>2, TimerAssumption DEF BusInit, TuInit, UnitInv, Bit
<1>4. DelayInv
  BY TimerAssumption DEF BusInit, TuInit, DelayInv
<1>5. SenderInv
  BY TimerBusAssumption DEF BusInit, SenderInv, Idle, Tags, Kinds, Bit
<1>6. RateInv /\ BitStarts /\ PlaceInv
  BY DEF BusInit, TuInit, RateInv, BitStarts, PlaceInv, Bit
<1> QED
  BY <1>1, <1>2, <1>3, <1>4, <1>5, <1>6 DEF TypeInv

LEMMA TypesHold == TimerBusSpec => [](TypeInv /\ RateInv /\ BitStarts)
<1> DEFINE Inv == TypeInv /\ RateInv /\ BitStarts
<1>1. Inv /\ [Edge]_timerBusVars => Inv'
  <2>1. CASE Edge
    <3>1. CfgInv => CfgInv'
      BY <2>1 DEF Edge, TuClock, CfgInv
    <3> QED
      BY <2>1, <3>1, LevelStep, UnitStep, DelayStep, SenderStep, StartStep DEF TypeInv
  <2>2. CASE UNCHANGED timerBusVars
    BY <2>2 DEF timerBusVars, tuVars, rxVars, stateVars, btlVars, tdcVars, senderVars,
        unitVars, TypeInv, CfgInv, LevelInv, UnitInv, DelayInv, SenderInv, RateInv,
        BitStarts, Longest, ActiveRates
  <2> QED
    BY <2>1, <2>2
<1>2. BusInit => Inv
  BY TimerInit
<1> QED
  BY <1>1, <1>2, PTL DEF TimerBusSpec

\* The registers of timer_unit.vhd keep their ranges on any bus: the quantum
\* counter never passes the longest bit of the two rates, the recessive bits
\* are not counted beyond those that end configuration, and a bit of a frame
\* has a length.
THEOREM TimerTypes == TimerBusSpec => []TimerTypeOK
<1>1. TypeInv => TimerTypeOK
  BY DEF TypeInv, LevelInv, UnitInv, DelayInv, SenderInv, Tags, TimerTypeOK
<1> QED
  BY <1>1, TypesHold, PTL
-----------------------------------------------------------------------------
(* The points of a bit *)

\* The three points, in both rates.
LEMMA PointsApart ==
    ASSUME OrderedTimings, CfgInv
    PROVE  \A r \in {cfg.nomi, cfg.data} :
              /\ r.psp \in Nat /\ r.fip \in Nat /\ r.ph1 \in Nat
              /\ 3 <= r.psp /\ r.psp < r.fip /\ r.fip <= r.ph1
BY CfgRates DEF OrderedTimings, CfgInv, Rates

\* A point that is passed is the one that comes next, and the counter stays
\* between it and the following one.
LEMMA PlaceStep ==
    ASSUME OrderedTimings, StateInv, PlaceInv, Edge
    PROVE  /\ PlaceInv'
           /\ ~OwnFrame => /\ Sampling => points = "fip"
                           /\ fip_strb' = 1 => points /= "none"
<1>1. /\ btl_tq_cnt \in Nat /\ tu_active \in {0, 1} /\ strb_tick \in {0, 1}
      /\ bit_start \in {0, 1} /\ (bit_start = 1 => btl_tq_cnt <= 1)
  BY LongestBit DEF StateInv, UnitInv, BitStarts, Bit
<1>2. ASSUME tu_active = 1
      PROVE  /\ active.psp \in Nat /\ active.fip \in Nat /\ active.ph1 \in Nat
             /\ 3 <= active.psp /\ active.psp < active.fip /\ active.fip <= active.ph1
             /\ active'.psp \in Nat /\ active'.fip \in Nat /\ active'.ph1 \in Nat
             /\ 3 <= active'.psp /\ active'.psp < active'.fip /\ active'.fip <= active'.ph1
             /\ bit_start = 0 => UNCHANGED << active.ph1, active.psp, active.fip >>
  <2>1. PICK r \in {cfg.nomi, cfg.data} :
          active.ph1 = r.ph1 /\ active.psp = r.psp /\ active.fip = r.fip
    BY <1>2 DEF StateInv, RateInv
  <2>2. PICK q \in {cfg.nomi, cfg.data} :
          active'.ph1 = q.ph1 /\ active'.psp = q.psp /\ active'.fip = q.fip
    BY <1>1, <1>2, <2>1, RateStep DEF StateInv
  <2>3. bit_start = 0 => UNCHANGED << active.ph1, active.psp, active.fip >>
    BY <1>2, RateStep DEF StateInv
  <2> QED
    BY <2>1, <2>2, <2>3, PointsApart DEF StateInv
<1>3. Strobes /\ Drive(Inputs)
  BY DEF Edge, TuClock, BtlProcessor
<1>4. points' = IF tu_active = 0 \/ Sampling THEN "none"
                ELSE IF fip_strb' = 1 THEN "fip"
                ELSE IF psp_strb' = 1 THEN "psp" ELSE points
  BY DEF Edge, Ghosts
<1>5. CASE tu_active = 0
  <2>1. btl_tq_cnt' = 0 /\ points' = "none"
    BY <1>4, <1>5, CounterMoves DEF StateInv
  <2>2. sample_strb' = 0 /\ fip_strb' = 0
    BY <1>3, <1>5 DEF Strobes, SamplePoint, InjectionPoint, Running
  <2>3. tu_active' = 1 => 0 < active'.psp
    <3>1. active'.psp = cfg.nomi.psp
      BY <1>5, RateStep DEF StateInv
    <3> QED
      BY <3>1, PointsApart DEF StateInv
  <2> QED
    BY <2>1, <2>2, <2>3 DEF PlaceInv, Sampling
<1>6. CASE tu_active = 1 /\ xcvr_mode = 1
  BY <1>3, <1>6 DEF Drive, PlaceInv, OwnFrame
<1>7. CASE tu_active = 1 /\ xcvr_mode = 0 /\ strb_tick = 0
  <2>1. sample_strb' = 0 /\ fip_strb' = 0 /\ psp_strb' = 0
    BY <1>3, <1>7 DEF Strobes, SamplePoint, InjectionPoint, PreSamplePoint, Running, Tick
  <2>2. points' = points /\ btl_tq_cnt' = btl_tq_cnt
    BY <1>4, <1>7, <2>1, CounterMoves DEF StateInv, Sampling
  <2> QED
    BY <1>1, <1>2, <1>7, <2>1, <2>2 DEF PlaceInv, Sampling
<1>8. CASE tu_active = 1 /\ xcvr_mode = 0 /\ strb_tick = 1
  <2>1. /\ sample_strb' = IF btl_tq_cnt = active'.ph1 THEN 1 ELSE 0
        /\ psp_strb' = IF btl_tq_cnt = active.psp - 1 THEN 1 ELSE 0
        /\ fip_strb' = IF btl_tq_cnt = active.fip - 1 THEN 1 ELSE 0
    <3>1. end_val_ph1 - 1 = active'.ph1
      BY <1>2, <1>8 DEF end_val_ph1
    <3> QED
      BY <1>3, <1>8, <3>1 DEF Strobes, SamplePoint, InjectionPoint, PreSamplePoint, Running,
          Tick, AtSp, AtPsp, AtFip
  <2>2. /\ points = "none" => btl_tq_cnt < active.psp \/ btl_tq_cnt > active.ph1
        /\ points = "psp" => btl_tq_cnt < active.fip
        /\ points = "fip" => btl_tq_cnt <= active.ph1
        /\ points \in {"none", "psp", "fip"}
    BY <1>8 DEF PlaceInv
  <2>3. /\ Sampling => points = "fip"
        /\ fip_strb' = 1 => points /= "none"
    BY <1>1, <1>2, <1>8, <2>1, <2>2 DEF Sampling
  <2>4. \/ btl_tq_cnt' \in {0, 1}
        \/ btl_tq_cnt' = btl_tq_cnt + 1
        \/ btl_tq_cnt' \in 1 .. btl_tq_cnt /\ btl_tq_cnt < active'.ph1
        \/ btl_tq_cnt' > btl_tq_cnt /\ btl_tq_cnt >= active'.ph1
    <3>1. active'.ph1 + active'.ph2 \in Nat
      BY RateStep DEF StateInv
    <3> QED
      BY <1>1, <1>8, <3>1, CounterMoves DEF StateInv
  <2>5. btl_tq_cnt' \in Nat
    <3>1. active'.ph1 + active'.ph2 \in Nat
      BY RateStep DEF StateInv
    <3> QED
      BY <1>1, <1>8, <3>1, CounterMoves DEF StateInv
  <2>6. CASE Sampling
    <3>1. points' = "none" /\ btl_tq_cnt = active'.ph1
      BY <1>4, <2>1, <2>6 DEF Sampling
    <3> QED
      BY <1>1, <1>2, <1>8, <2>3, <2>4, <2>5, <3>1 DEF PlaceInv
  <2>7. CASE ~Sampling /\ fip_strb' = 1
    <3>1. points' = "fip" /\ btl_tq_cnt = active.fip - 1 /\ bit_start = 0
      BY <1>1, <1>2, <1>4, <1>8, <2>1, <2>7
    <3> QED
      BY <1>1, <1>2, <1>8, <2>3, <2>4, <2>5, <3>1 DEF PlaceInv
  <2>8. CASE ~Sampling /\ fip_strb' /= 1 /\ psp_strb' = 1
    <3>1. points' = "psp" /\ btl_tq_cnt = active.psp - 1 /\ bit_start = 0
      BY <1>1, <1>2, <1>4, <1>8, <2>1, <2>8
    <3> QED
      BY <1>1, <1>2, <1>8, <2>3, <2>4, <2>5, <3>1 DEF PlaceInv
  <2>9. CASE ~Sampling /\ fip_strb' /= 1 /\ psp_strb' /= 1
    <3>1. /\ points' = points /\ btl_tq_cnt /= active'.ph1
          /\ btl_tq_cnt /= active.psp - 1 /\ btl_tq_cnt /= active.fip - 1
      BY <1>4, <1>8, <2>1, <2>9 DEF Sampling
    <3>2. CASE bit_start = 0
      BY <1>1, <1>2, <1>8, <2>2, <2>3, <2>4, <2>5, <3>1, <3>2 DEF PlaceInv
    <3>3. CASE bit_start = 1
      BY <1>1, <1>2, <1>8, <2>2, <2>3, <2>4, <2>5, <3>1, <3>3 DEF PlaceInv
    <3> QED
      BY <1>1, <3>2, <3>3
  <2> QED
    BY <2>6, <2>7, <2>8, <2>9
<1>9. xcvr_mode \in {0, 1}
  BY DEF StateInv, UnitInv, Bit
<1> QED
  BY <1>1, <1>5, <1>6, <1>7, <1>8, <1>9

\* Before each sample there was a PSP, and after it an FIP, however the edges
\* on the bus and the switches of the rate move the counter: what the override
\* unit arms at the PSP is driven in the same bit.
THEOREM TimerPoints ==
    ASSUME OrderedTimings
    PROVE  TimerBusSpec => PointsInOrder
<1> DEFINE Ordered == ~OwnFrame => /\ Sampling => points = "fip"
                                   /\ fip_strb' = 1 => points /= "none"
<1>1. StateInv /\ PlaceInv /\ [Edge]_timerBusVars => PlaceInv'
  <2>1. CASE UNCHANGED timerBusVars
    BY <2>1 DEF timerBusVars, tuVars, stateVars, btlVars, ghostVars, PlaceInv
  <2> QED
    BY <2>1, PlaceStep
<1>2. StateInv /\ PlaceInv /\ [Edge]_timerBusVars => [Ordered]_timerBusVars
  BY PlaceStep
<1>3. TypeInv /\ RateInv /\ BitStarts => StateInv
  BY DEF TypeInv, StateInv
<1>4. BusInit => PlaceInv
  BY TimerInit
<1> QED
  BY <1>1, <1>2, <1>3, <1>4, TypesHold, PTL DEF TimerBusSpec, PointsInOrder
-----------------------------------------------------------------------------
(* The unit as the clock of the parser *)

\* The unit samples at the sample point: it does not send at the data rate,
\* where the samples are those of the delay slots.
AtSamplePoint == OwnFrame => active.brs = 0

\* The counter comes back to the sample point by single steps, and had to leave
\* it: what is near it is long after the last sample.
LEMMA GapStep ==
    ASSUME SpacedTimings, StateInv, AtSamplePoint, AtSamplePoint', GapInv, Edge
    PROVE  GapInv'
<1>1. /\ btl_tq_cnt \in Nat /\ tu_active \in {0, 1} /\ strb_tick \in {0, 1}
      /\ bit_start \in {0, 1} /\ (bit_start = 1 => btl_tq_cnt <= 1)
      /\ xcvr_mode \in {0, 1} /\ since \in 0 .. MinGap /\ sample_strb \in {0, 1}
      /\ MinGap \in Nat /\ MinGap >= 2
  BY LongestBit, TimerBusAssumption DEF StateInv, UnitInv, BitStarts, GapInv, Bit
<1>2. Strobes /\ Drive(Inputs)
  BY DEF Edge, TuClock, BtlProcessor
<1>3. since' = IF (sample_strb = 1 /\ tu_active = 1) \/ (tu_active = 0 /\ tu_active' = 1)
               THEN 0 ELSE IF since < MinGap THEN since + 1 ELSE MinGap
  BY DEF Edge, Ghosts
<1>4. since' \in 0 .. MinGap /\ since' \in Nat /\ sample_strb' \in {0, 1}
  BY <1>1, <1>2, <1>3 DEF Strobes
<1>5. /\ \A c, e \in Nat : c <= 2 => Within(c, e)
      /\ \A c, d, e \in Nat : Within(c, e) /\ d <= c + 1 => Within(d, e + 1)
  BY DEF Within
<1>6. CASE tu_active = 0
  <2>1. btl_tq_cnt' = 0 /\ sample_strb' = 0
    BY <1>2, <1>6, CounterMoves DEF StateInv, Strobes, SamplePoint, Running
  <2> QED
    BY <1>4, <1>5, <2>1 DEF GapInv, Bit
<1>7. CASE tu_active = 1
  <2>1. /\ active'.ph1 \in Nat /\ MinGap < active'.ph1 /\ active.ph1 \in Nat
        /\ bit_start = 0 => active'.ph1 = active.ph1
    <3>1. PICK r \in {cfg.nomi, cfg.data} : active.ph1 = r.ph1
      BY <1>7 DEF StateInv, RateInv
    <3>2. PICK q \in {cfg.nomi, cfg.data} : active'.ph1 = q.ph1
      BY <1>1, <1>7, <3>1, RateStep DEF StateInv
    <3>3. bit_start = 0 => active'.ph1 = active.ph1
      BY <1>7, RateStep DEF StateInv
    <3> QED
      BY <3>1, <3>2, <3>3, CfgRates DEF StateInv, SpacedTimings, CfgInv, Rates
  <2>2. sample_strb' = 1 <=> strb_tick = 1 /\ btl_tq_cnt = active'.ph1
    <3>1. ~(xcvr_mode = 1 /\ active'.brs = 1)
      BY <1>2, <1>7 DEF AtSamplePoint, OwnFrame, Drive
    <3>2. end_val_ph1 - 1 = active'.ph1
      BY <2>1 DEF end_val_ph1
    <3> QED
      BY <1>2, <1>7, <3>1, <3>2 DEF Strobes, SamplePoint, Running, Tick, AtSp
  <2>3. /\ sample_strb = 1 => since = MinGap /\ (btl_tq_cnt <= 1 \/ btl_tq_cnt > active.ph1)
        /\ sample_strb = 0 /\ btl_tq_cnt <= active.ph1 =>
              since = MinGap \/ Within(btl_tq_cnt, since)
    BY <1>7 DEF GapInv
  <2>4. \/ btl_tq_cnt' \in {0, 1}
        \/ btl_tq_cnt' = btl_tq_cnt + 1
        \/ btl_tq_cnt' \in 0 .. btl_tq_cnt /\ btl_tq_cnt < active'.ph1
        \/ btl_tq_cnt' > btl_tq_cnt /\ btl_tq_cnt >= active'.ph1 /\ btl_tq_cnt' \in Nat
        \/ btl_tq_cnt' = btl_tq_cnt /\ strb_tick = 0
    <3>1. active'.ph1 + active'.ph2 \in Nat
      BY RateStep DEF StateInv
    <3> QED
      BY <1>1, <1>7, <3>1, CounterMoves DEF StateInv
  <2>5. CASE sample_strb' = 1
    <3>1. btl_tq_cnt = active'.ph1 /\ bit_start = 0 /\ sample_strb = 0
      BY <1>1, <2>1, <2>2, <2>3, <2>5
    <3>2. since' = MinGap
      BY <1>1, <1>3, <1>7, <2>1, <2>3, <3>1 DEF Within
    <3>3. btl_tq_cnt' <= 1 \/ btl_tq_cnt' > active'.ph1
      BY <1>1, <2>1, <2>2, <2>4, <2>5, <3>1
    <3> QED
      BY <1>4, <2>5, <3>2, <3>3 DEF GapInv, Bit
  <2>6. CASE sample_strb' = 0
    <3>1. ASSUME btl_tq_cnt' <= active'.ph1 PROVE since' = MinGap \/ Within(btl_tq_cnt', since')
      <4>1. btl_tq_cnt' \in Nat /\ (btl_tq_cnt' <= btl_tq_cnt + 1 \/ btl_tq_cnt' <= 1)
        BY <1>1, <2>1, <2>4, <3>1
      <4>2. CASE bit_start = 1
        BY <1>1, <1>4, <1>5, <4>1, <4>2
      <4>3. CASE bit_start = 0 /\ btl_tq_cnt' <= 1
        BY <1>4, <1>5, <4>1, <4>3
      <4>4. CASE bit_start = 0 /\ btl_tq_cnt' > 1
        <5>1. btl_tq_cnt <= active.ph1 /\ btl_tq_cnt' <= btl_tq_cnt + 1
          BY <1>1, <2>1, <2>4, <3>1, <4>4
        <5>2. CASE sample_strb = 1
          BY <1>1, <1>4, <1>5, <2>1, <2>3, <4>1, <5>1, <5>2
        <5>3. CASE sample_strb = 0
          BY <1>1, <1>3, <1>5, <1>7, <2>3, <4>1, <5>1, <5>3
        <5> QED
          BY <1>1, <5>2, <5>3
      <4> QED
        BY <1>1, <4>1, <4>2, <4>3, <4>4
    <3> QED
      BY <1>4, <2>6, <3>1 DEF GapInv, Bit
  <2> QED
    BY <1>4, <2>5, <2>6
<1> QED
  BY <1>1, <1>6, <1>7

\* A unit that took over a frame gives it up when it goes to sleep, and counts
\* from the start then: whatever it sampled, the next frame is not affected.
LEMMA FollowedGapStep ==
    ASSUME SpacedTimings, StateInv, Edge,
           since \in 0 .. MinGap, sample_strb \in Bit, ~OwnFrame => GapInv
    PROVE  /\ since' \in 0 .. MinGap /\ sample_strb' \in Bit
           /\ ~OwnFrame' => GapInv'
<1>1. Strobes /\ Drive(Inputs) /\ MinGap \in Nat
  BY TimerBusAssumption DEF Edge, TuClock, BtlProcessor
<1>2. since' = IF (sample_strb = 1 /\ tu_active = 1) \/ (tu_active = 0 /\ tu_active' = 1)
               THEN 0 ELSE IF since < MinGap THEN since + 1 ELSE MinGap
  BY DEF Edge, Ghosts
<1>3. since' \in 0 .. MinGap /\ since' \in Nat /\ sample_strb' \in Bit
  BY <1>1, <1>2 DEF Strobes, Bit
<1>4. ASSUME ~OwnFrame' PROVE GapInv'
  <2>1. CASE ~OwnFrame
    BY <1>4, <2>1, GapStep DEF AtSamplePoint
  <2>2. CASE OwnFrame
    <3>1. tu_active = 0
      BY <1>1, <1>4, <2>2 DEF Drive, OwnFrame
    <3>2. btl_tq_cnt' = 0 /\ sample_strb' = 0
      BY <1>1, <3>1, CounterMoves DEF StateInv, Strobes, SamplePoint, Running
    <3>3. Within(btl_tq_cnt', since')
      <4>1. \A e \in Nat : Within(0, e)
        BY DEF Within
      <4> QED
        BY <1>3, <3>2, <4>1
    <3> QED
      BY <1>3, <3>2, <3>3 DEF GapInv
  <2> QED
    BY <2>1, <2>2
<1> QED
  BY <1>3, <1>4

\* A step of the unit is a step of the clock.
LEMMA ClockStep ==
    ASSUME UnitInv, UnitInv', GapInv, [Edge]_timerBusVars
    PROVE  [Clk!ClockNext]_(Clk!clockVars)
<1>1. CASE UNCHANGED timerBusVars
  BY <1>1 DEF timerBusVars, tuVars, stateVars, ghostVars, Clk!clockVars
<1>2. CASE Edge
  <2>1. since' = IF (sample_strb = 1 /\ tu_active = 1) \/ (tu_active = 0 /\ tu_active' = 1)
                 THEN 0 ELSE IF since < MinGap THEN since + 1 ELSE MinGap
    BY <1>2 DEF Edge, Ghosts
  <2>2. tu_active \in {0, 1} /\ tu_active' \in {0, 1} /\ sample_strb \in {0, 1}
    BY DEF UnitInv, GapInv, Bit
  <2>3. CASE tu_active = 1 /\ sample_strb = 1
    <3>1. since = MinGap /\ since' = 0
      BY <2>1, <2>3 DEF GapInv
    <3>2. tu_active' = 0 => Clk!Strobed(1)
      BY <2>3, <3>1 DEF Clk!Strobed, Clk!StrobeReady
    <3>3. tu_active' = 1 => Clk!Strobed(0)
      BY <2>3, <3>1 DEF Clk!Strobed, Clk!StrobeReady
    <3> QED
      BY <2>2, <3>2, <3>3 DEF Clk!ClockNext
  <2>4. CASE tu_active = 0 /\ tu_active' = 1
    <3>1. Clk!Woken
      BY <2>1, <2>4 DEF Clk!Woken
    <3> QED
      BY <3>1 DEF Clk!ClockNext
  <2>5. CASE \/ tu_active = 1 /\ sample_strb = 0
             \/ tu_active = 0 /\ tu_active' = 0
    <3>1. Clk!Age
      BY <2>1, <2>5 DEF Clk!Age
    <3>2. tu_active' = 0 => Clk!Ticked(1)
      BY <3>1 DEF Clk!Ticked
    <3>3. tu_active' = 1 => Clk!Ticked(0)
      BY <2>5, <3>1 DEF Clk!Ticked
    <3> QED
      BY <2>2, <3>2, <3>3 DEF Clk!ClockNext
  <2> QED
    BY <2>2, <2>3, <2>4, <2>5
<1> QED
  BY <1>1, <1>2

\* The parser's clock, for every register contents whose first phase is longer
\* than MinGap: in all behaviours in which the unit does not send at the data
\* rate, the strobes are MinGap edges apart, and the frame is left and entered
\* as BitClock says.
THEOREM TimerClock ==
    ASSUME SpacedTimings
    PROVE  TimerBusSpec /\ []AtSamplePoint => ImplementsBitClock
<1>1. StateInv /\ AtSamplePoint /\ AtSamplePoint' /\ GapInv /\ [Edge]_timerBusVars => GapInv'
  <2>1. CASE UNCHANGED timerBusVars
    BY <2>1 DEF timerBusVars, tuVars, stateVars, btlVars, ghostVars, GapInv
  <2> QED
    BY <2>1, GapStep
<1>2. UnitInv /\ UnitInv' /\ GapInv /\ [Edge]_timerBusVars => [Clk!ClockNext]_(Clk!clockVars)
  BY ClockStep
<1>3. TypeInv /\ RateInv /\ BitStarts => StateInv /\ UnitInv
  BY DEF TypeInv, StateInv
<1>4. BusInit => GapInv /\ Clk!ClockInit
  BY TimerBusAssumption DEF BusInit, TuInit, GapInv, Clk!ClockInit, Bit
<1> QED
  BY <1>1, <1>2, <1>3, <1>4, TypesHold, PTL DEF TimerBusSpec, ImplementsBitClock, Clk!ClockSpec

\* While the unit follows the frames of others, and also after it sent at the
\* data rate, each of its steps is a step of the parser's clock.
THEOREM TimerFollows ==
    ASSUME SpacedTimings
    PROVE  TimerBusSpec => [][~OwnFrame => [Clk!ClockNext]_(Clk!clockVars)]_timerBusVars
<1> DEFINE Inv == since \in 0 .. MinGap /\ sample_strb \in Bit /\ (~OwnFrame => GapInv)
           Follows == ~OwnFrame => [Clk!ClockNext]_(Clk!clockVars)
<1>1. StateInv /\ Inv /\ [Edge]_timerBusVars => Inv'
  <2>1. CASE UNCHANGED timerBusVars
    BY <2>1 DEF timerBusVars, tuVars, stateVars, btlVars, ghostVars, GapInv, OwnFrame
  <2> QED
    BY <2>1, FollowedGapStep
<1>2. UnitInv /\ UnitInv' /\ Inv /\ [Edge]_timerBusVars => [Follows]_timerBusVars
  BY ClockStep
<1>3. TypeInv /\ RateInv /\ BitStarts => StateInv /\ UnitInv
  BY DEF TypeInv, StateInv
<1>4. BusInit => Inv
  BY TimerBusAssumption DEF BusInit, TuInit, GapInv, Bit
<1> HIDE DEF Inv
<1> QED
  BY <1>1, <1>2, <1>3, <1>4, TypesHold, PTL DEF TimerBusSpec
=============================================================================
