---------------------------- MODULE ParserProofs ----------------------------
(***************************************************************************)
(* What ParserBus checks on small widths, proved for all of them: types,   *)
(* the bounds of the bit counter, the freshness of the decoded widths, the *)
(* stability of the identifier, the step of parser and destuffer, and the  *)
(* clean start of every frame. And what FramePath checks, for all widths   *)
(* and for sample points any number of clock edges, but at least two,      *)
(* apart: the parser takes every frame apart as the sender put it together.*)
(*                                                                         *)
(* CounterInField is not inductive. In DATA and CRC the counter is bounded *)
(* by a register that is loaded on the edge after dlc_ready, so one has to *)
(* know that no bit is sampled on that edge (LoadPending: MinGap >= 2),    *)
(* that the register then holds the width of this frame (WidthsFresh),     *)
(* that this edge finds the counter at 0 when a field is already under way *)
(* (LoadAtStart), and that the width is not 0 (DataHasLength: a DLC of 0   *)
(* skips DATA). The type invariant needs GroupOpen for the stuff groups,   *)
(* WidthsInRange for the decoded widths, and CounterInField for the range  *)
(* of the counter (TypesAndWidths knows it as a natural number only).      *)
(*                                                                         *)
(* StufferInStep speaks of the edges at which the destuffer has caught up, *)
(* FrameStartsClean of those at which a bit may be sampled. What is        *)
(* inductive is PhaseInv: what the destuffer may be in before it has heard *)
(* of the last bit (InStep), and the three places a wake-up, a frame and   *)
(* its end put the parser in (Starting, Following, Done).                  *)
(*                                                                         *)
(* What FramePath checks speaks of the sample points. What is inductive    *)
(* speaks of every edge: TxInv of the sender alone; Decoding of the parser,*)
(* which is at the bit after the last one at once; Destuffing of the       *)
(* destuffer, which is a bit behind while destuff_strobe is up (Behind)    *)
(* and then knows the sender's run, its group and the stuff bit due        *)
(* (CaughtUp).                                                             *)
(***************************************************************************)
EXTENDS ParserBus, FramePath, CodecProofs

LoadPending == dlc_ready = 1 => since = 0
LoadAtStart == dlc_ready = 1 /\ fsm_state \in {"DATA", "CRC"} => fsm_cnt = 0
DataHasLength == fsm_state = "DATA" => dlc_buffer /= 0
ArbitrationUnready == fsm_state = "ABIT" => id_ready = 0

Typed == TypeOK /\ ClockTypeOK /\ quiet \in Bit /\ recessive \in 0 .. 7
WidthsInRange ==
    /\ data_width \in 0 .. MaxCnt
    /\ crc_width \in {0, CrcClassic, CrcFdShort, CrcFdLong}
TypeInv == Typed /\ WidthsInRange /\ GroupOpen
FrameInv == /\ LoadAtStart /\ DataHasLength /\ ArbitrationUnready
            /\ WidthsFresh /\ CounterInField
ParserInv == Typed /\ LoadPending /\ FrameInv
-----------------------------------------------------------------------------
(* Types *)

\* Every register but the counter keeps its range on every bus. The counter is
\* at this place a natural number only.
LEMMA TypesAndWidths == BusSpec => []TypeInv
  <1>1. BusInit => TypeInv
    <2>1. 0 \in 0 .. IdModulus - 1
      BY WidthsAssumption
    <2>2. 0 \in 0 .. MinGap /\ 0 \in 0 .. MaxCnt
      BY MinGapAssumption, WidthsAssumption DEF MaxCnt
    <2>. QED
      BY <2>1, <2>2, FsmStateNames, StatusTypes
      DEF BusInit, Init, ClockInit, TypeInv, GroupOpen, Typed, WidthsInRange, TypeOK,
          ParserTypeOK, DestuffTypeOK, ClockTypeOK, BsStates, Bit
  <1>2. TypeInv /\ [BusNext]_busVars => TypeInv'
    <2>. SUFFICES ASSUME TypeInv, [BusNext]_busVars
                  PROVE  TypeInv'
      OBVIOUS
    <2>1. /\ MinGap \in Nat /\ MinGap >= 2
          /\ Sleep \in Bit /\ status.eof \in Bit
      BY MinGapAssumption
      DEF TypeInv, Typed, ClockTypeOK, TypeOK, ParserTypeOK, Statuses, Sleep, Bit
    <2>0. 0 \in 0 .. MaxCnt
      BY WidthsAssumption DEF MaxCnt
    <2>2. ASSUME NEW strb \in Bit, NEW s \in Bit, Clock(strb, s, Sleep)
          PROVE  TypeOK' /\ GroupOpen' /\ WidthsInRange'
      <3>1. dlc_buffer \in 0 .. 15 /\ fd_mode \in Bit
        BY DEF TypeInv, Typed, TypeOK, ParserTypeOK
      <3>2. DataWidth(dlc_buffer) \in 0 .. MaxCnt
        BY <3>1, WidthBounds
      <3>3. WidthsInRange'
        BY <2>0, <2>2, <3>2 DEF Clock, DlcClock, dlcVars, CrcWidth, TypeInv, WidthsInRange
      <3>. QED
        BY <2>1, <2>2, <3>3, ClockTypes DEF TypeInv, Typed
    <2>. USE DEF TypeInv, Typed, ClockTypeOK, Bit, Age
    <2>3. ASSUME NEW s \in Bit, SampleBit(s) PROVE TypeInv'
      <3>1. TypeOK' /\ GroupOpen' /\ WidthsInRange'
        BY <2>2, <2>3 DEF SampleBit
      <3>. QED
        BY <2>1, <2>3, <3>1 DEF SampleBit, Strobed
    <2>4. CASE Idle \/ WakeUp \/ Abort
      <3>1. TypeOK' /\ GroupOpen' /\ WidthsInRange'
        BY <2>2, <2>4 DEF Idle, WakeUp, Abort
      <3>. QED
        BY <2>1, <2>4, <3>1 DEF Idle, WakeUp, Abort, Ticked, Woken, Aborted
    <2>5. CASE ResetEdge
      <3>1. WidthsInRange'
        BY <2>5, WidthsAssumption DEF ResetEdge, Reset, WidthsInRange, MaxCnt
      <3>. QED
        BY <2>1, <2>5, <3>1, ResetTypes DEF ResetEdge
    <2>6. CASE FallSilent \/ UNCHANGED busVars
      BY <2>6 DEF FallSilent, busVars, fsmVars, clockVars, parserVars, dlcVars,
          bsVars, TypeOK, ParserTypeOK, DestuffTypeOK, GroupOpen, WidthsInRange
    <2>. QED
      BY <2>3, <2>4, <2>5, <2>6 DEF BusNext
  <1>. QED
    BY <1>1, <1>2, PTL DEF BusSpec

LEMMA Types == BusSpec => []Typed
  <1>1. TypeInv => Typed
    BY DEF TypeInv
  <1>. QED
    BY <1>1, TypesAndWidths, PTL
-----------------------------------------------------------------------------
(* The counter and the widths it is compared with *)

\* A parsed bit: no bit is parsed while a DLC is waiting to be decoded.
LEMMA ParsedBit ==
    ASSUME TypeOK, FrameInv, dlc_ready = 0, NEW s \in Bit, ParseBit(s),
           UNCHANGED << data_width, crc_width >>
    PROVE  FrameInv'
  <1>. USE DEF TypeOK, ParserTypeOK, FrameInv, LoadAtStart, DataHasLength,
               ArbitrationUnready, WidthsFresh, CounterInField, GoTo, Bit
  <1>1. /\ LastRtrPos \in Nat /\ LastRtrPos >= IdePos
        /\ MaxCnt \in Nat /\ MaxCnt >= 64
    BY WidthsAssumption DEF LastRtrPos, IdePos, MaxCnt
  <1>2. dlc_buffer \in 0 .. 15 /\ fd_mode \in Bit
    OBVIOUS
  <1>3. /\ DataWidth(dlc_buffer) \in 0 .. MaxCnt
        /\ CrcWidth(dlc_buffer, fd_mode) \in 1 .. MaxCnt
    BY <1>2, WidthBounds
  <1>4. ShiftDlc(s) \in 0 .. 15
    BY ShiftBounds
  <1>5. CASE ArbitrationBit(s) \/ ArbitrationEnd(s)
    BY <1>1, <1>5 DEF ArbitrationBit, ArbitrationEnd
  <1>6. CASE FdfBit(s) \/ ReservedBit \/ BrsOrEsiBit \/ DlcBit(s)
    BY <1>1, <1>6 DEF FdfBit, ReservedBit, BrsOrEsiBit, DlcBit
  <1>7. CASE LastDlcBit(s)
    BY <1>1, <1>4, <1>7 DEF LastDlcBit, EnterCrc
  <1>8. CASE DataBit
    BY <1>1, <1>3, <1>8 DEF DataBit, EnterCrc
  <1>9. CASE StuffCountBit
    BY <1>1, <1>3, <1>9 DEF StuffCountBit
  <1>10. CASE CrcBit
    BY <1>1, <1>3, <1>10 DEF CrcBit
  <1>11. CASE TailBit(s) \/ LastTailBit(s)
    BY <1>1, <1>11 DEF TailBit, LastTailBit
  <1>12. CASE ErrorFlagBit(s) \/ AwaitEofBit(s)
    BY <1>1, <1>12 DEF ErrorFlagBit, AwaitEofBit
  <1>. QED
    BY <1>5, <1>6, <1>7, <1>8, <1>9, <1>10, <1>11, <1>12 DEF ParseBit

\* One clock edge that samples nothing while a DLC is waiting.
LEMMA ClockKeeps ==
    ASSUME TypeOK, FrameInv,
           NEW strb \in Bit, NEW s \in Bit, NEW sleep \in Bit,
           Clock(strb, s, sleep), strb = 1 => dlc_ready = 0
    PROVE  FrameInv' /\ (strb = 0 => dlc_ready' = 0)
  <1>1. ParserClock(strb, s, sleep) /\ DlcClock(sleep)
    BY DEF Clock
  <1>2. MaxCnt \in Nat /\ MaxCnt >= 64 /\ LastRtrPos \in Nat
    BY WidthsAssumption DEF MaxCnt, LastRtrPos
  <1>3. CASE ParserSleep(sleep)
    BY <1>2, <1>3 DEF ParserSleep, Asleep, GoTo, TypeOK, ParserTypeOK, FrameInv,
       LoadAtStart, DataHasLength, ArbitrationUnready, WidthsFresh, CounterInField, Bit
  <1>4. CASE ~Asleep(sleep)
    <2>1. sleep = 0
      BY <1>4 DEF Asleep, Bit
    <2>2. /\ dlc_ready = 1 => /\ data_width' = DataWidth(dlc_buffer)
                              /\ crc_width' = CrcWidth(dlc_buffer, fd_mode)
          /\ dlc_ready = 0 => UNCHANGED << data_width, crc_width >>
          /\ DataWidth(dlc_buffer) \in 0 .. MaxCnt
          /\ dlc_buffer /= 0 => DataWidth(dlc_buffer) > 0
          /\ CrcWidth(dlc_buffer, fd_mode) \in 1 .. MaxCnt
      BY <1>1, <2>1, WidthsLoaded
    <2>3. CASE ParserStuffError(strb, s)
      BY <1>2, <2>3 DEF ParserStuffError, StuffError, GoTo, TypeOK, ParserTypeOK,
         FrameInv, LoadAtStart, DataHasLength, ArbitrationUnready, WidthsFresh,
         CounterInField
    <2>4. CASE strb = 1 /\ SkipStuffBit(s)
      BY <2>2, <2>4 DEF SkipStuffBit, FrameInv, LoadAtStart, DataHasLength,
         ArbitrationUnready, WidthsFresh, CounterInField
    <2>5. CASE strb = 1 /\ ParseBit(s)
      BY <2>2, <2>5, ParsedBit
    <2>6. CASE strb = 0 /\ ParserHold
      <3>. USE <1>2, <2>2, <2>6
           DEF ParserHold, FrameInv, TypeOK, ParserTypeOK, Bit
      <3>1. DataHasLength' /\ ArbitrationUnready' /\ LoadAtStart'
        BY DEF DataHasLength, ArbitrationUnready, LoadAtStart
      <3>2. CASE dlc_ready = 0
        BY <3>1, <3>2 DEF WidthsFresh, CounterInField
      <3>3. CASE dlc_ready = 1
        <4>1. /\ data_width' = DataWidth(dlc_buffer)
              /\ crc_width' = CrcWidth(dlc_buffer, fd_mode)
              /\ dlc_buffer' = dlc_buffer /\ fd_mode' = fd_mode
              /\ dlc_ready' = 0 /\ fsm_cnt' = fsm_cnt /\ fsm_state' = fsm_state
          BY <3>3
        <4>2. WidthsFresh'
          BY <4>1 DEF WidthsFresh
        <4>3. CounterInField'
          BY <3>3, <4>1 DEF CounterInField, LoadAtStart, DataHasLength
        <4>. QED
          BY <3>1, <4>1, <4>2, <4>3
      <3>. QED
        BY <3>2, <3>3
    <2>. QED
      BY <1>1, <1>4, <2>3, <2>4, <2>5, <2>6 DEF ParserClock, ParserSleep
  <1>. QED
    BY <1>1, <1>3, <1>4 DEF ParserClock
-----------------------------------------------------------------------------
(* The theorems about the parser on an arbitrary bus *)

\* Types are part of the invariant; Types has shown them.
LEMMA ParserInvStart == BusInit => LoadPending /\ FrameInv
  BY WidthsAssumption
  DEF BusInit, Init, ClockInit, LoadPending, FrameInv, LoadAtStart, DataHasLength,
      ArbitrationUnready, WidthsFresh, CounterInField, MaxCnt

LEMMA ParserInvStep ==
    ASSUME Typed, LoadPending, FrameInv, [BusNext]_busVars
    PROVE  LoadPending' /\ FrameInv'
  <1>1. /\ MinGap \in Nat /\ MinGap >= 2
        /\ TypeOK /\ Sleep \in Bit /\ status.eof \in Bit
    BY MinGapAssumption
    DEF Typed, ClockTypeOK, TypeOK, ParserTypeOK, Statuses, Sleep, Bit
  <1>2. ASSUME NEW s \in Bit, SampleBit(s) PROVE LoadPending' /\ FrameInv'
    <2>1. /\ since = MinGap /\ since' = 0 /\ Clock(1, s, Sleep)
      BY <1>2 DEF SampleBit, Strobed, StrobeReady
    <2>2. dlc_ready = 0
      BY <1>1, <2>1 DEF LoadPending, TypeOK, ParserTypeOK, Bit
    <2>3. FrameInv'
      BY <1>1, <2>1, <2>2, ClockKeeps DEF Bit
    <2>. QED
      BY <2>1, <2>3 DEF LoadPending
  <1>3. CASE Idle \/ WakeUp \/ Abort
    <2>1. Clock(0, 1, Sleep)
      BY <1>3 DEF Idle, WakeUp, Abort
    <2>2. FrameInv' /\ dlc_ready' = 0
      BY <1>1, <2>1, ClockKeeps DEF Bit
    <2>. QED
      BY <2>2 DEF LoadPending
  <1>4. CASE ResetEdge
    BY <1>4 DEF ResetEdge, Reset, LoadPending, FrameInv, LoadAtStart,
       DataHasLength, ArbitrationUnready, WidthsFresh, CounterInField
  <1>5. CASE FallSilent \/ UNCHANGED busVars
    BY <1>5 DEF FallSilent, busVars, fsmVars, clockVars, parserVars, dlcVars,
       LoadPending, FrameInv, LoadAtStart, DataHasLength, ArbitrationUnready,
       WidthsFresh, CounterInField
  <1>. QED
    BY <1>2, <1>3, <1>4, <1>5 DEF BusNext

\* The inductive invariant holds in every reachable state.
THEOREM ParserInvariant == BusSpec => []ParserInv
  <1>1. BusInit => LoadPending /\ FrameInv
    BY ParserInvStart
  <1>2. Typed /\ LoadPending /\ FrameInv /\ [BusNext]_busVars
          => LoadPending' /\ FrameInv'
    BY ParserInvStep
  <1>3. Typed /\ LoadPending /\ FrameInv => ParserInv
    BY DEF ParserInv
  <1>. QED
    BY <1>1, <1>2, <1>3, Types, PTL DEF BusSpec

\* Every register of the parser and the destuffer keeps its range on every bus,
\* the bit counter and the decoded widths those of their VHDL declarations
\* (can_fsm.vhd:84, 94, 96). The counter does because it stays in its field.
THEOREM TypeCorrect == BusSpec => []BusTypeOK
  <1>1. TypeInv /\ CounterInField => BusTypeOK
    <2>. SUFFICES ASSUME TypeInv, CounterInField PROVE BusTypeOK
      OBVIOUS
    <2>1. fsm_cnt \in Nat /\ MaxCnt \in Nat /\ LastRtrPos \in Nat
      BY WidthsAssumption DEF TypeInv, Typed, TypeOK, ParserTypeOK, MaxCnt, LastRtrPos
    <2>2. fsm_cnt <= MaxCnt
      BY <2>1, CounterAssumption DEF CounterInField
    <2>. QED
      BY <2>1, <2>2 DEF TypeInv, Typed, WidthsInRange, BusTypeOK
  <1>2. ParserInv => CounterInField
    BY DEF ParserInv, FrameInv
  <1>. QED
    BY <1>1, <1>2, TypesAndWidths, ParserInvariant, PTL

\* No bit pattern, abort or reset makes the bit counter slip past the end of
\* its field, whatever the lengths of the fields are.
THEOREM CounterStaysInField == BusSpec => []CounterInField
  <1>1. ParserInv => CounterInField
    BY DEF ParserInv, FrameInv
  <1>. QED
    BY <1>1, ParserInvariant, PTL

\* Payload and CRC bits are counted against the widths of their own frame.
THEOREM WidthsStayFresh == BusSpec => []WidthsFresh
  <1>1. ParserInv => WidthsFresh
    BY DEF ParserInv, FrameInv
  <1>. QED
    BY <1>1, ParserInvariant, PTL

\* What the memory unit matches stays as it is from id_ready on, and so do the
\* frame format and the DLC once they are parsed.
THEOREM IdentifierStable == BusSpec => IdStable
  <1>. DEFINE Kept == /\ UNCHANGED << id_buffer, ext_id >>
                      /\ fsm_state /= "CTRL" \/ fsm_cnt > 0 => UNCHANGED fd_mode
                      /\ fsm_state /= "CTRL" => UNCHANGED dlc_buffer
              Stable == id_ready = 1 /\ id_ready' = 1 /\ fsm_state' /= "SLEEP" => Kept
  <1>1. ParserInv /\ [BusNext]_busVars => [Stable]_busVars
    <2>. SUFFICES ASSUME ParserInv, BusNext, id_ready = 1, id_ready' = 1,
                         fsm_state' /= "SLEEP"
                  PROVE  Kept
      OBVIOUS
    <2>1. fsm_state /= "ABIT" /\ fsm_cnt \in Nat
      BY DEF ParserInv, FrameInv, ArbitrationUnready, Typed, TypeOK, ParserTypeOK
    <2>2. ASSUME NEW strb, NEW s, NEW sleep, Clock(strb, s, sleep)
          PROVE  Kept
      <3>1. ParserClock(strb, s, sleep)
        BY <2>2 DEF Clock
      <3>2. CASE ParserSleep(sleep)
        BY <3>2 DEF ParserSleep
      <3>3. CASE ParserStuffError(strb, s) \/ SkipStuffBit(s) \/ ParserHold
        BY <3>3 DEF ParserStuffError, SkipStuffBit, ParserHold
      <3>4. CASE ParseBit(s)
        BY <2>1, <3>4 DEF ParseBit, ArbitrationBit, ArbitrationEnd, FdfBit,
           ReservedBit, BrsOrEsiBit, DlcBit, LastDlcBit, DataBit,
           StuffCountBit, CrcBit, TailBit, LastTailBit, ErrorFlagBit,
           AwaitEofBit
      <3>. QED
        BY <3>1, <3>2, <3>3, <3>4 DEF ParserClock
    <2>3. CASE \E s \in Bit : SampleBit(s)
      BY <2>2, <2>3 DEF SampleBit
    <2>4. CASE Idle \/ WakeUp \/ Abort
      BY <2>2, <2>4 DEF Idle, WakeUp, Abort
    <2>5. CASE ResetEdge
      BY <2>5 DEF ResetEdge, Reset
    <2>6. CASE FallSilent
      BY <2>6 DEF FallSilent, fsmVars, parserVars
    <2>. QED
      BY <2>3, <2>4, <2>5, <2>6 DEF BusNext
  <1>. QED
    BY <1>1, ParserInvariant, PTL DEF BusSpec, IdStable
-----------------------------------------------------------------------------
(* Parser and destuffer in step *)

PhaseInv ==
    /\ destuff_strobe = 1 => since = 0
    /\ awake = 1 => Following \/ (since = 0 /\ (Starting \/ Done))

\* Parser and destuffer leave their sleep together and are in step from then on,
\* the destuffer a bit behind only while destuff_strobe is up.
THEOREM PhaseInvariant == BusSpec => []PhaseInv
  <1>1. BusInit => PhaseInv
    BY DEF BusInit, Init, ClockInit, PhaseInv
  <1>2. Typed /\ PhaseInv /\ [BusNext]_busVars => PhaseInv'
    <2>. SUFFICES ASSUME Typed, PhaseInv, [BusNext]_busVars
                  PROVE  PhaseInv'
      OBVIOUS
    <2>1. /\ MinGap \in Nat /\ MinGap >= 2
          /\ TypeOK /\ awake \in Bit /\ status.eof \in Bit /\ 1 \in Bit
      BY MinGapAssumption
      DEF Typed, ClockTypeOK, TypeOK, ParserTypeOK, Statuses, Bit
    <2>2. ASSUME NEW s \in Bit, SampleBit(s) PROVE PhaseInv'
      <3>1. /\ awake = 1 /\ since /= 0 /\ since' = 0 /\ Clock(1, s, 0)
        BY <2>1, <2>2 DEF SampleBit, Strobed, StrobeReady, Sleep
      <3>2. Following /\ destuff_strobe = 0
        BY <2>1, <3>1 DEF PhaseInv, TypeOK, ParserTypeOK, Bit
      <3>3. (fsm_state' = "SLEEP" /\ status'.eof = 1) \/ Following'
        BY <2>1, <3>1, <3>2, PhaseOfSample
      <3>. QED
        BY <3>1, <3>3 DEF PhaseInv, Done
    <2>3. CASE Idle
      <3>1. Clock(0, 1, 1 - awake) /\ (awake' = 1 => awake = 1 /\ status.eof = 0)
        BY <2>1, <2>3 DEF Idle, Ticked, Sleep, Bit
      <3>2. destuff_strobe' = 0
        BY <3>1, StrobeFalls
      <3>3. ASSUME awake' = 1 PROVE Following'
        <4>1. Clock(0, 1, 0) /\ (Starting \/ Following)
          BY <3>1, <3>3 DEF PhaseInv, Done
        <4>. QED
          BY <2>1, <4>1, PhaseOfStart, PhaseOfEdge
      <3>. QED
        BY <3>2, <3>3 DEF PhaseInv
    <2>4. CASE WakeUp
      <3>1. Clock(0, 1, 1) /\ since' = 0
        BY <2>4 DEF WakeUp, Woken, Sleep
      <3>. QED
        BY <2>1, <3>1, PhaseOfWakeUp DEF PhaseInv
    <2>5. CASE Abort
      <3>1. Clock(0, 1, Sleep) /\ awake' = 0
        BY <2>5 DEF Abort, Aborted
      <3>. QED
        BY <3>1, StrobeFalls DEF PhaseInv
    <2>6. CASE ResetEdge
      BY <2>6 DEF ResetEdge, Reset, PhaseInv
    <2>7. CASE FallSilent \/ UNCHANGED busVars
      BY <2>7 DEF FallSilent, busVars, fsmVars, clockVars, parserVars, dlcVars,
         bsVars, PhaseInv, Starting, Done, Following, InStep, Clean
    <2>. QED
      BY <2>2, <2>3, <2>4, <2>5, <2>6, <2>7 DEF BusNext
  <1>. QED
    BY <1>1, <1>2, Types, PTL DEF BusSpec

\* Parser and destuffer agree on the phase of the frame at every edge at which
\* neither has news for the other.
THEOREM StufferStaysInStep == BusSpec => []StufferInStep
  <1>1. Typed /\ PhaseInv => StufferInStep
    BY FsmStateNames DEF PhaseInv, Starting, Done, Following, InStep, StufferInStep,
       Settled, Typed, TypeOK, ParserTypeOK, Bit
  <1>. QED
    BY <1>1, PhaseInvariant, Types, PTL

\* Whatever ended the frame before, a SOF finds every register clean.
THEOREM EveryFrameStartsClean == BusSpec => []FrameStartsClean
  <1>1. Typed /\ PhaseInv => FrameStartsClean
    <2>. SUFFICES ASSUME Typed, PhaseInv, StrobeReady
                  PROVE  FrameStartsClean
      BY DEF FrameStartsClean
    <2>1. Following
      BY MinGapAssumption DEF StrobeReady, PhaseInv, Starting, Done
    <2>2. bs_state /= "SLEEP"
      BY <2>1, FsmStateNames
      DEF Following, InStep, Typed, TypeOK, ParserTypeOK, Bit
    <2>. QED
      BY <2>1, <2>2 DEF FrameStartsClean, Following, Clean
  <1>. QED
    BY <1>1, PhaseInvariant, Types, PTL
-----------------------------------------------------------------------------

PathTypeOK == TypeOK /\ GroupOpen /\ ClockTypeOK

PathInv ==
    /\ PathTypeOK /\ TxInv
    /\ destuff_strobe = 1 \/ dlc_ready = 1 => since = 0
    /\ awake = 1 => Receiving \/ (since = 0 /\ (Entering \/ Leaving))
    /\ awake = 0 => Away
-----------------------------------------------------------------------------
(* The invariant *)

LEMMA PathInitInv == PathInit => PathInv
<1> SUFFICES ASSUME PathInit PROVE PathInv
  OBVIOUS
<1>1. TypeOK /\ GroupOpen
  <2>1. 0 \in 0 .. IdModulus - 1
    BY WidthsAssumption
  <2> QED
    BY <2>1, FsmStateNames, StatusTypes
    DEF PathInit, Init, TypeOK, ParserTypeOK, DestuffTypeOK, GroupOpen, BsStates, Bit
<1>2. ClockTypeOK
  BY MinGapAssumption DEF PathInit, ClockInit, ClockTypeOK
<1>3. TxInv
  BY SenderStarts DEF PathInit
<1>4. awake = 0 /\ since = 0 /\ Away
  BY DEF PathInit, Init, ClockInit, TxInit, Away
<1> QED
  BY <1>1, <1>2, <1>3, <1>4 DEF PathInv, PathTypeOK

\* What a step does to the sender and to the clock, and when it samples.
LEMMA PathTypesNext ==
    ASSUME PathTypeOK, TxInv, PathNext
    PROVE  /\ PathTypeOK' /\ TxInv'
           /\ destuff_strobe' = 1 \/ dlc_ready' = 1 => since' = 0
<1>1. awake \in {0, 1} /\ since \in 0 .. MinGap /\ Sleep \in Bit /\ 1 \in Bit /\ 0 \in Bit
      /\ MinGap \in Nat
  BY MinGapAssumption DEF PathTypeOK, ClockTypeOK, Sleep, Bit
<1>2. ASSUME Clock(0, 1, Sleep)
      PROVE  destuff_strobe' = 0 /\ dlc_ready' = 0
  BY <1>2 DEF Clock, ParserClock, ParserSleep, ParserStuffError, StuffError, ParserHold
<1>3. CASE Begin
  <2>1. TxInv'
    BY <1>3, SenderStarts DEF Begin
  <2>2. TypeOK' /\ GroupOpen'
    BY <1>1, <1>3, ClockTypes DEF Begin, PathTypeOK
  <2> QED
    BY <1>1, <1>2, <1>3, <2>1, <2>2 DEF Begin, Woken, PathTypeOK, ClockTypeOK
<1>4. CASE \E b \in Bit : SampleSent(b)
  <2>1. PICK b \in Bit : SampleSent(b)
    BY <1>4
  <2>2. TxInv'
    BY <2>1, SenderSteps DEF SampleSent
  <2>3. TypeOK' /\ GroupOpen'
    BY <1>1, <2>1, ClockTypes DEF SampleSent, PathTypeOK
  <2>4. since' = 0 /\ awake' \in {0, 1}
    <3>1. status \in Statuses
      BY DEF PathTypeOK, TypeOK, ParserTypeOK
    <3> QED
      BY <2>1, <3>1 DEF SampleSent, Strobed, Statuses, Bit
  <2> QED
    BY <1>1, <2>2, <2>3, <2>4 DEF PathTypeOK, ClockTypeOK
<1>5. CASE SendUnsampled
  <2>1. TxInv'
    BY <1>1, <1>5, SenderSteps DEF SendUnsampled
  <2>2. TypeOK' /\ GroupOpen'
    BY <1>1, <1>5, ClockTypes DEF SendUnsampled, PathTypeOK
  <2> QED
    BY <1>1, <1>2, <1>5, <2>1, <2>2
    DEF SendUnsampled, Ticked, Age, PathTypeOK, ClockTypeOK
<1>6. CASE ClockEdge
  <2>1. TxInv'
    BY <1>6 DEF ClockEdge, txVars, TxInv, TxTypeOK, StuffDue, NoStuffBeforeBrs, Present,
       FieldLen, FixedStuffed, DynamicStuffed
  <2>2. TypeOK' /\ GroupOpen'
    BY <1>1, <1>6, ClockTypes DEF ClockEdge, PathTypeOK
  <2> QED
    BY <1>1, <1>2, <1>6, <2>1, <2>2
    DEF ClockEdge, Ticked, Age, PathTypeOK, ClockTypeOK
<1> QED
  BY <1>3, <1>4, <1>5, <1>6 DEF PathNext

\* Every step keeps the parser and the sender at one place of the frame.
LEMMA PathStep ==
    ASSUME PathInv, PathNext
    PROVE  PathInv'
<1>1. /\ TypeOK /\ GroupOpen /\ TxInv /\ awake \in {0, 1} /\ MinGap >= 2 /\ MinGap \in Nat
      /\ destuff_strobe \in {0, 1} /\ dlc_ready \in {0, 1}
  BY MinGapAssumption
  DEF PathInv, PathTypeOK, ClockTypeOK, TypeOK, ParserTypeOK, Bit
<1>2. /\ PathTypeOK' /\ TxInv'
      /\ destuff_strobe' = 1 \/ dlc_ready' = 1 => since' = 0
  BY PathTypesNext DEF PathInv
<1>3. CASE Begin
  <2>1. awake' = 1 /\ since' = 0 /\ Clock(0, 1, 1)
    BY <1>3 DEF Begin, Woken, Sleep
  <2>2. Starting'
    BY <2>1, PhaseOfWakeUp DEF Bit
  <2>3. Entering'
    BY <1>3, <2>2 DEF Entering, Begin, StartFrame
  <2> QED
    BY <1>2, <2>1, <2>3 DEF PathInv
<1>4. CASE \E b \in Bit : SampleSent(b)
  <2>1. PICK b \in Bit : SampleSent(b)
    BY <1>4
  <2>2. awake = 1 /\ since = MinGap /\ since' = 0 /\ Send(b) /\ Clock(1, b, 0)
        /\ awake' = 1 - status.eof
    BY <2>1 DEF SampleSent, Strobed, StrobeReady, Sleep
  <2>3. Receiving /\ destuff_strobe = 0 /\ dlc_ready = 0
    BY <1>1, <2>2 DEF PathInv
  <2>4. awake' = 1
    BY <2>2, <2>3 DEF Receiving, Following
  <2>5. Receiving' \/ Leaving'
    BY <1>1, <2>2, <2>3, SampleReceived
  <2> QED
    BY <1>2, <2>2, <2>4, <2>5 DEF PathInv
<1>5. CASE SendUnsampled
  <2>1. awake = 0 /\ awake' = 0 /\ Send(1) /\ Clock(0, 1, 1) /\ Away
    BY <1>5 DEF SendUnsampled, Ticked, Sleep, PathInv
  <2>2. fsm_state' = "SLEEP"
    BY <2>1, AwayEdge
  <2>3. Away'
    BY <1>1, <2>1, <2>2, UnsampledBit DEF Away
  <2> QED
    BY <1>2, <2>1, <2>3 DEF PathInv
<1>6. CASE ClockEdge /\ awake = 0
  <2>1. awake' = 0 /\ Clock(0, 1, 1) /\ UNCHANGED txVars /\ Away
    BY <1>6 DEF ClockEdge, Ticked, Sleep, PathInv
  <2>2. fsm_state' = "SLEEP"
    BY <2>1, AwayEdge
  <2>3. Away'
    BY <2>1, <2>2 DEF Away, txVars
  <2> QED
    BY <1>2, <2>1, <2>3 DEF PathInv
<1>7. CASE ClockEdge /\ awake = 1
  <2>1. awake' = (IF status.eof = 1 THEN 0 ELSE 1) /\ Clock(0, 1, 0) /\ UNCHANGED txVars
    BY <1>7 DEF ClockEdge, Ticked, Sleep
  <2>2. CASE Entering
    <3>1. Receiving' /\ awake' = 1
      BY <2>1, <2>2, FrameEntered DEF Entering, Starting, Clean, NoStatus
    <3> QED
      BY <1>2, <3>1 DEF PathInv
  <2>3. CASE Receiving
    <3>1. Receiving' /\ awake' = 1
      BY <1>1, <2>1, <2>3, EdgeReceived DEF Receiving, Following
    <3> QED
      BY <1>2, <3>1 DEF PathInv
  <2>4. CASE Leaving
    <3>1. awake' = 0 /\ fsm_state' = "ABIT"
      BY <2>1, <2>4, DoneEdge DEF Leaving, Done
    <3>2. Away'
      BY <2>1, <2>4, <3>1 DEF Leaving, Away, txVars
    <3> QED
      BY <1>2, <3>1, <3>2 DEF PathInv
  <2> QED
    BY <1>7, <2>2, <2>3, <2>4 DEF PathInv
<1> QED
  BY <1>1, <1>3, <1>4, <1>5, <1>6, <1>7 DEF PathNext

LEMMA PathStutter ==
    ASSUME PathInv, UNCHANGED pathVars
    PROVE  PathInv'
<1>1. /\ UNCHANGED << fsm_state, fsm_cnt, fd_mode, ext_id, id_ready, id_buffer >>
      /\ UNCHANGED << dlc_ready, dlc_buffer, bs_disable, bs_crc_mode, sample_buf >>
      /\ UNCHANGED << sample_ready, destuff_strobe, status, data_width, crc_width >>
      /\ UNCHANGED << bs_state, bs_insert, bs_last, bs_run, bs_crc_cnt, awake, since >>
      /\ UNCHANGED << field, pos, format, id, stuff, last, run, group >>
  BY DEF pathVars, fsmVars, parserVars, dlcVars, bsVars, clockVars, txVars
<1>2. PathTypeOK'
  BY <1>1 DEF PathInv, PathTypeOK, TypeOK, ParserTypeOK, DestuffTypeOK, GroupOpen,
     ClockTypeOK
<1>3. TxInv'
  BY <1>1 DEF PathInv, TxInv, TxTypeOK, StuffDue, NoStuffBeforeBrs, Present,
     FieldLen, FixedStuffed, DynamicStuffed
<1>4. Entering => Entering'
  BY <1>1 DEF Entering, Starting, Clean
<1>5. Decoding => Decoding'
  BY <1>1 DEF Decoding
<1>6. Receiving => Receiving'
  <2>1. Following => Following'
    BY <1>1 DEF Following, InStep, Clean
  <2>2. (Aligned => Aligned') /\ (Announcing => Announcing')
    BY <1>1 DEF Aligned, Announcing, ParserState, ParserCount
  <2>3. Destuffing => Destuffing'
    BY <1>1 DEF Destuffing, CaughtUp, Behind, Not
  <2> QED
    BY <1>5, <2>1, <2>2, <2>3 DEF Receiving
<1>7. (Leaving => Leaving') /\ (Away => Away')
  BY <1>1, <1>5 DEF Leaving, Away, Done
<1> QED
  BY <1>1, <1>2, <1>3, <1>4, <1>6, <1>7 DEF PathInv

\* PathInv holds at every edge, for all widths of the fields, all formats and
\* any spacing of the sample points of at least two edges.
THEOREM PathInvariant == PathSpec => []PathInv
<1>1. PathInit => PathInv
  BY PathInitInv
<1>2. PathInv /\ [PathNext]_pathVars => PathInv'
  BY PathStep, PathStutter
<1> QED
  BY <1>1, <1>2, PTL DEF PathSpec
-----------------------------------------------------------------------------
(* What the runs check *)

\* A sample point finds the parser in a frame and everything settled.
LEMMA SettledAtStrobe ==
    ASSUME PathInv, StrobeReady
    PROVE  Receiving /\ CaughtUp
<1>1. awake = 1 /\ since = MinGap /\ MinGap >= 2 /\ MinGap \in Nat
  BY MinGapAssumption DEF StrobeReady
<1>2. destuff_strobe /= 1 /\ Receiving
  BY <1>1 DEF PathInv
<1> QED
  BY <1>2 DEF Receiving, Destuffing

\* can_fsm.vhd against the encoders: at every sample point of every frame the
\* parser is at the bit the sender is about to send, and it expects a stuff
\* bit exactly when one comes.
THEOREM ParserKeepsUp == PathSpec => []ParserAligned
<1>1. PathInv => ParserAligned
  BY SettledAtStrobe DEF ParserAligned, Receiving, Aligned, CaughtUp, Framed
<1> QED
  BY <1>1, PathInvariant, PTL

\* Identifier, DLC and format that the memory unit and the override unit get
\* are those that were sent.
THEOREM FrameDecoded == PathSpec => []Decoded
<1>1. PathInv => Decoded
  <2> SUFFICES ASSUME PathInv, awake = 1 PROVE Decoded
    BY DEF Decoded
  <2>1. format.ide \in {0, 1} /\ format.fdf \in {0, 1}
    BY FormatTypes DEF PathInv, TxInv, TxTypeOK
  <2>2. CASE Decoding
    BY <2>1, <2>2 DEF Decoded, Decoding, ToDlc, ToEsi, ToFdf, ToRrs
  <2>3. CASE Entering
    BY <2>3 DEF Decoded, Entering, Starting, Clean
  <2> QED
    BY <2>2, <2>3 DEF PathInv, Receiving, Leaving
<1> QED
  BY <1>1, PathInvariant, PTL

\* The timer unit sees each announcement at the sample point of the very bit
\* it announces, and at no other.
THEOREM FlagsInTime == PathSpec => []AnnouncedInTime
<1>1. PathInv => AnnouncedInTime
  BY SettledAtStrobe DEF AnnouncedInTime, Receiving, Announcing
<1> QED
  BY <1>1, PathInvariant, PTL

\* When the interframe space begins the timer unit is asleep, so the next SOF
\* finds it ready.
THEOREM FrameReleased == PathSpec => []ReleasedInTime
<1>1. PathInv => ReleasedInTime
  BY DEF PathInv, PathTypeOK, ClockTypeOK, ReleasedInTime, Away, Entering, Receiving,
     Aligned, Leaving
<1> QED
  BY <1>1, PathInvariant, PTL
=============================================================================
