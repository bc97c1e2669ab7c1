--------------------------- MODULE InjectorProofs ---------------------------
(***************************************************************************)
(* The composed core is never astray: whatever the fields' widths, the     *)
(* depth of the tree, the slots' identifiers and masks and the places of   *)
(* boundary, PSP and FIP in the bit, the injector drives only for an       *)
(* identifier that a slot asks for, it flips the one bit that the slot     *)
(* names, it is at rest again with the frame, and every frame finds it so. *)
(*                                                                         *)
(* None of this can be told from the override unit's registers alone: they *)
(* are cleared by the unit itself, by the frame's end and by the next      *)
(* match, and the slot they act for comes from a search that ends in the   *)
(* middle of a bit.  CoreInv, of the frames that the unit receives,        *)
(* therefore holds, next to the types,                                     *)
(*   BusInv     the sender's place in its frame against the parser's, or a *)
(*              frame that was given up and that the parser still follows; *)
(*   ChainInv   how far the identifier has come, as the edges since its    *)
(*              last bit: through the tree, the frame register, the fetch  *)
(*              and the match to the override unit's late look at the bit; *)
(*   UnitInv    where in the bit each stage of the unit may hold what;     *)
(*   AsleepInv  how much of it is left at each edge between two frames.    *)
(*                                                                         *)
(* Which bit the unit hits takes ExactInv on top of it (second half of the *)
(* module): what the unit has counted against the bits that have passed on *)
(* the bus, what the bit ahead is to the sender and to the parser, and     *)
(* that a bit once prepared is still the one asked for when it is driven.  *)
(*                                                                         *)
(* What the flags say afterwards takes FlagInv on top of both: what has    *)
(* become of the target, whether it still can come, and what the unit has  *)
(* noted of it at each edge up to the interrupt.                           *)
(*                                                                         *)
(* In a frame whose DLC it overrides the unit is the sender, and none of   *)
(* these holds.  WholeInv has UnitInv for the other frames only, and       *)
(*   SenderInv  the unit listens, claims the bus at the end of the bit it  *)
(*              has found, sends, or rests, and what it holds then;        *)
(*   DlcInv     what is left of the DLC it sends, against what the parser  *)
(*              has yet to read: the unit is done before the frame is;     *)
(*   StillInv   what a sender leaves for the edges between two frames.     *)
(* ToldInv has ExactInv and FlagInv for frames that are received, and for  *)
(* the others DrivenInv, the little that the flags promise there.          *)
(*                                                                         *)
(* What the bits of a DLC are to the others takes OwnInv on top of         *)
(* WholeInv: the shadow stuffer is ahead of the destuffer by the one bit   *)
(* in the queue, the shadow counter ahead of the parser likewise (InDlc),  *)
(* at most a stuff bit and a recessive bit follow the DLC (PastDlc), and   *)
(* the sender has given up or agrees (Alone).                              *)
(***************************************************************************)
EXTENDS Injector, CodecProofs, MemoryUnitProofs, WellFoundedInduction

\* No slot overrides payload, of which the vector might not have enough.
NoPayload == \A t \in SlotTables : \A e \in Entries : t[e].fi.type /= "FI_DATA"
-----------------------------------------------------------------------------
(* The frame on the bus *)

\* A frame as the sender meant it: before its SOF, behind its end, or between;
\* and one that was given up, which the parser follows to its end.
Framing ==
    \/ phase = Boundary /\ Entering
    \/ phase = 1 /\ Leaving
    \/ Receiving
Broken ==
    /\ field = "ifs" /\ id_ready = 1 /\ id_buffer = id
    /\ (Following /\ fsm_state /= "ABIT") \/ (phase = 1 /\ Done)

BusTypes ==
    /\ awake \in Bit /\ phase \in 0 .. BitEdges - 1 /\ id_mem \in SlotTables
    /\ TypeOK /\ GroupOpen /\ sent \in Bit /\ can_tx \in Bit
BusInv ==
    awake = 1 =>
        /\ phase /= 1 => << destuff_strobe, dlc_ready, sample_ready >> = << 0, 0, 0 >>
        /\ phase = 1 => sample_ready = 1
        /\ TxInv /\ IF mode = "frame" THEN Framing ELSE Broken
-----------------------------------------------------------------------------
(* The way of the identifier through the units *)

Evaluated == TreeDepth + 7

\* The age of the identifier: 0 until it is complete, then the edges since its
\* last bit, up to the one after the late look; all of them in the same bit.
AgeOk(a) == IF id_ready = 0 THEN a = 0
           ELSE a = Evaluated \/ (a = phase - 1 /\ fsm_state = "CTRL")
Asked == Hitting /= {}

\* The fetch of a vector takes two edges more than to find out that there is
\* none to be fetched; the frame is matched when the vector is announced.
Fetched == Fi.type = "FI_DATA"
MatchAge == IF Fetched THEN TreeDepth + 5 ELSE TreeDepth + 3
FetchAt(a) ==
    IF a < TreeDepth + 2 \/ ~Asked THEN "AWAIT_MATCH"
    ELSE IF ~Fetched THEN "SKIP_READ"
    ELSE IF a < TreeDepth + 4 THEN "AWAIT_MEM" ELSE "READY"

\* The memory unit and the override unit, a edges after the identifier came.
MemoryAt(a) ==
    /\ TreeOf(node, Hitting, a)
    /\ fi_frame_ready = (IF a >= TreeDepth + 1 /\ Asked THEN 1 ELSE 0)
    /\ fi_frame_ready = 1 => fi_frame = Fi
    /\ ram_read_state = FetchAt(a)
    /\ mem_rd_latency = (IF a >= TreeDepth + 3 /\ Asked /\ Fetched THEN 1 ELSE 0)
    /\ data_vector_ready = 1 <=> a >= MatchAge /\ Asked
OverrideAt(a) ==
    /\ fi_parsed = (IF a >= TreeDepth + 2 /\ Asked THEN 1 ELSE 0)
    /\ fi_parsed = 1 => fi_can_field = CanField(Fi.field)
    /\ late_strobe = (IF a = MatchAge + 1 /\ Asked THEN 1 ELSE 0)
    /\ a > MatchAge /\ Asked =>
          /\ ou_state \in {ActiveState(Fi.type), "OU_DONE"}
          /\ a <= MatchAge + 1 => prep_strobe = 0 /\ err_dom = 0
          /\ a <= MatchAge + 2 /\ a /= Evaluated => queue = 1
    /\ ~(a > MatchAge /\ Asked) =>
          /\ ou_state = "OU_AWAIT_FI" \/ (ou_state = "OU_DONE" /\ id_ready = 1 /\ ~Asked)
          /\ << prep_strobe, bsfx_shift, bs_cnt >> = << 0, 0, 0 >>
          /\ queue = 1
ChainAt(a) == MemoryAt(a) /\ OverrideAt(a)
ChainInv == awake = 1 => \E a \in 0 .. Evaluated : AgeOk(a) /\ ChainAt(a)
-----------------------------------------------------------------------------
(* The override unit *)

\* The unit watches for its bit; the PSP of this bit has passed; so has its FIP.
Active == ou_state \in {"OU_BIT", "OU_BSDY", "OU_BSFX"}
Decided == phase > Psp \/ phase <= 1
Driving == phase > Fip \/ phase <= 1

\* Between which edges of a bit the stages prepare, queue, arm and drive, and
\* what ends them: the own hit, a dominant bit, an error flag, the frame's end.
Receiver ==
    /\ << xcvr_prep, xcvr_req, subst, stage_iii, xcvr_mode >> = << 0, 0, 0, 0, 0 >>
    /\ ou_state \in OuStates \ {"OU_DLC", "OU_DATA_CRC"}
Strobed ==
    /\ fip_strb = 1 <=> phase = Fip + 1
    /\ interrupt_req = 0
    /\ prep_strobe = 1 => Active /\ queue = 1 /\ phase \in {2, TreeDepth + 6}
Queued ==
    /\ queue \in Bit
    /\ queue = 0 => \/ Active /\ phase /= 2
                    \/ ou_state = "OU_DONE" /\ phase \in {0, 2, Fip + 2}
    /\ Active /\ queue = 0 /\ Decided => arm = 1 \/ err_dom = 1
    /\ Active /\ err_dom = 1 => phase \in Psp + 1 .. Fip + 1
Armed ==
    /\ arm \in Bit
    /\ arm = 1 => Active /\ queue = 0 /\ Decided /\ err_dom /= 1
    /\ arm = 1 /\ Driving => can_tx = 0
    /\ can_tx = 0 => \/ phase \in 2 .. Boundary \/ (Driving /\ arm = 1)
    /\ can_tx = 0 /\ phase \in 1 .. Boundary => sample_buf = 0
    /\ can_tx = 0 => id_ready = 1 /\ Asked
Finished ==
    /\ fsm_state = "ERRF" /\ phase /= 1 => ou_state = "OU_DONE"
    /\ fsm_state = "AWAIT_EOF" => ou_state = "OU_DONE"
    /\ ou_state = "OU_BSFX" /\ fsm_state = "EOF" =>
          \/ fsm_cnt = 0 /\ (phase /= 1 /\ bsfx_shift = 1 => shadow_state = "EOF")
          \/ fsm_cnt = 1 /\ phase = 1 /\ (bsfx_shift = 1 => shadow_state = "EOF")
    /\ ou_state = "OU_BSFX" /\ fsm_state = "EOF" /\ phase /= 1 => bsfx_shift = 1
    /\ status.eof = 1 => queue = 1 /\ can_tx = 1 /\ ou_state /= "OU_BSFX"
Plain == data_vector_ready = 1 => Fi.type \notin {"FI_DLC", "FI_DATA"}
UnitInv == Receiver /\ (awake = 1 => Plain /\ Strobed /\ Queued /\ Armed /\ Finished)

\* One edge after the other clears what a frame has left behind; only then may
\* the next one wake the core up.
AsleepInv ==
    awake = 0 =>
        /\ << queue, can_tx, arm, fip_strb >> = << 1, 1, 0, 0 >> /\ ou_state /= "OU_BSFX"
        /\ phase >= 1 => ou_state \in {"OU_AWAIT_FI", "OU_DONE"}
        /\ phase >= 2 => ou_state = "OU_AWAIT_FI"
        /\ phase >= 3 => interrupt_req = 0
CoreInv == BusTypes /\ BusInv /\ ChainInv /\ UnitInv /\ AsleepInv
-----------------------------------------------------------------------------
(* One edge of the clock *)

\* What every edge of a frame does to the bus, the parser and the memory unit.
BusEdge ==
    /\ awake = 1 /\ awake' = 1 - status.eof
    /\ phase' = (IF status.eof = 1 \/ phase = BitEdges - 1 THEN 0 ELSE phase + 1)
    /\ Clock(IF phase = 0 THEN 1 ELSE 0, Level, 0)
    /\ MuClock(0, id_buffer, id_ready, 0, NoHostWrite, interrupt_req, 0)
    /\ UNCHANGED id_mem
    /\ phase \notin {0, Boundary} => UNCHANGED << txVars, mode, sent, flag, onbus >>
    /\ phase /= Boundary => UNCHANGED << seen, target >>
    /\ phase /= 0 => hits' = hits
    /\ (phase = 0 => Sample) /\ (phase = Boundary => BitStart)

\* What the timer unit drives. The bus is let go of at the boundary, unless the
\* unit sends.
TimerEdge ==
    /\ can_tx' = (IF phase = 0 THEN can_tx
                  ELSE IF phase = Fip \/ (xcvr_mode = 1 /\ phase /= Boundary) THEN Not(arm)
                  ELSE IF phase = Boundary /\ xcvr_mode /= 1 THEN 1 ELSE can_tx)
    /\ xcvr_mode' = (IF phase = Fip /\ xcvr_req = 1 THEN 1 ELSE xcvr_mode)
    /\ fip_strb' = (IF phase = Fip THEN 1 - xcvr_mode ELSE 0)

\* What the override unit sees of an edge of a frame.
Wires(in) ==
    /\ in.sleep = 0 /\ in.fi = fi_frame /\ in.fi_ready = fi_frame_ready
    /\ in.vec_ready = data_vector_ready /\ in.data \in DataBits
    /\ in.psp = Level /\ in.psp_strb = (IF phase = Psp THEN 1 - xcvr_mode ELSE 0)
    /\ in.fip_strb = fip_strb /\ in.xcvr_strb = (IF phase = 0 THEN xcvr_mode ELSE 0)

\* The same for a unit that only receives.
AwakeEdge ==
    /\ awake = 1 /\ awake' = 1 - status.eof
    /\ phase' = (IF status.eof = 1 \/ phase = BitEdges - 1 THEN 0 ELSE phase + 1)
    /\ Clock(IF phase = 0 THEN 1 ELSE 0, Level, 0)
    /\ MuClock(0, id_buffer, id_ready, 0, NoHostWrite, interrupt_req, 0)
    /\ can_tx' = (IF phase = Boundary THEN 1 ELSE IF phase = Fip THEN Not(arm) ELSE can_tx)
    /\ fip_strb' = (IF phase = Fip THEN 1 ELSE 0)
    /\ UNCHANGED << id_mem, xcvr_mode >>
    /\ phase \notin {0, Boundary} => UNCHANGED << txVars, mode >>
    /\ phase \notin {0, Boundary} => UNCHANGED sent
Inputs(in) ==
    /\ in.sleep = 0 /\ in.fi = fi_frame /\ in.fi_ready = fi_frame_ready
    /\ in.vec_ready = data_vector_ready
    /\ in.psp = Level /\ in.psp_strb = (IF phase = Psp THEN 1 ELSE 0)
    /\ in.fip_strb = fip_strb /\ in.xcvr_strb = 0

\* The bit has room for the search of the tree and for its stages' edges.
LEMMA Phases ==
    /\ BitEdges \in Nat /\ Boundary \in Nat /\ Psp \in Nat /\ Fip \in Nat
    /\ TreeDepth \in Nat \ {0}
    /\ 1 < Boundary /\ Boundary < Psp /\ Psp < Fip /\ Fip + 1 < BitEdges
    /\ TreeDepth + 7 <= Psp
BY PhasesAssumption, MemoryAssumption

\* What Units is to a frame: one edge of each unit, with the wires between them.
LEMMA UnitsAwake ==
    ASSUME NEW strb, NEW psp, NEW xcvr, Units(0, strb, psp, xcvr)
    PROVE  /\ Clock(strb, Level, 0) /\ UNCHANGED id_mem
           /\ MuClock(0, id_buffer, id_ready, 0, NoHostWrite, interrupt_req, 0)
           /\ \E in : /\ OuClock(in)
                      /\ in.sleep = 0 /\ in.fi = fi_frame /\ in.fi_ready = fi_frame_ready
                      /\ in.vec_ready = data_vector_ready /\ in.data \in DataBits
                      /\ in.psp = Level /\ in.psp_strb = psp
                      /\ in.fip_strb = fip_strb /\ in.xcvr_strb = xcvr
<1>1. PICK d \in DataBits :
        OuClock([sleep |-> 0, fi |-> fi_frame, fi_ready |-> fi_frame_ready,
                   vec_ready |-> data_vector_ready, data |-> d, psp |-> Level,
                   psp_strb |-> psp, fip_strb |-> fip_strb,
                   xcvr_strb |-> xcvr])
  BY DEF Units
<1> DEFINE i == [sleep |-> 0, fi |-> fi_frame, fi_ready |-> fi_frame_ready,
                   vec_ready |-> data_vector_ready, data |-> d, psp |-> Level,
                   psp_strb |-> psp, fip_strb |-> fip_strb,
                   xcvr_strb |-> xcvr]
<1>2. /\ OuClock(i)
      /\ i.sleep = 0 /\ i.fi = fi_frame /\ i.fi_ready = fi_frame_ready
      /\ i.vec_ready = data_vector_ready /\ i.data \in DataBits
      /\ i.psp = Level /\ i.psp_strb = psp
      /\ i.fip_strb = fip_strb /\ i.xcvr_strb = xcvr
  BY <1>1
<1> HIDE DEF i
<1> QED
  BY <1>2 DEF Units

\* Whatever edge of a frame is taken, the units see the clock the same way, and
\* the sender and the others move at the sample and at the boundary only.
LEMMA FrameEdges ==
    ASSUME BusTypes, awake = 1, CoreNext
    PROVE  BusEdge /\ TimerEdge /\ \E in : Wires(in) /\ OuClock(in)
<1>1. phase \in 0 .. BitEdges - 1 /\ status.eof \in {0, 1}
  BY DEF BusTypes, TypeOK, ParserTypeOK, Statuses, Bit
<1>2. Tick => /\ awake' = 1 - status.eof
              /\ phase' = (IF status.eof = 1 \/ phase = BitEdges - 1 THEN 0 ELSE phase + 1)
  BY <1>1, Phases DEF Tick
<1>3. Sample \/ BitStart \/ PreSample \/ FaultInjectionPoint \/ OtherEdge
  BY DEF CoreNext, FrameNext, SleepEdge, WakeUp, ResetEdge
<1>4. CASE Sample
  <2>1. Units(0, 1, 0, xcvr_mode) /\ phase = 0 /\ Tick
    BY <1>4 DEF Sample
  <2>2. \E in : Wires(in) /\ OuClock(in)
    BY <2>1, UnitsAwake, Phases DEF Wires
  <2>3. BusEdge
    BY <1>1, <1>2, <1>4, <2>1, UnitsAwake, Phases DEF BusEdge, Sample
  <2>4. TimerEdge
    BY <1>4, <2>1, Phases DEF TimerEdge, Sample
  <2> QED
    BY <2>2, <2>3, <2>4
<1>5. CASE BitStart
  <2>1. Units(0, 0, 0, 0) /\ phase = Boundary /\ Tick
    BY <1>5 DEF BitStart
  <2>2. \E in : Wires(in) /\ OuClock(in)
    BY <2>1, UnitsAwake, Phases DEF Wires
  <2>3. BusEdge
    BY <1>1, <1>2, <1>5, <2>1, UnitsAwake, Phases DEF BusEdge, BitStart
  <2>4. TimerEdge
    BY <1>5, <2>1, Phases DEF TimerEdge, BitStart
  <2> QED
    BY <2>2, <2>3, <2>4
<1>6. CASE PreSample
  <2>1. Units(0, 0, 1 - xcvr_mode, 0) /\ phase = Psp /\ Tick /\ UNCHANGED << busVars, hits >>
    BY <1>6 DEF PreSample
  <2>2. \E in : Wires(in) /\ OuClock(in)
    BY <2>1, UnitsAwake, Phases DEF Wires
  <2>3. BusEdge
    BY <1>1, <1>2, <2>1, UnitsAwake, Phases DEF BusEdge, busVars
  <2>4. TimerEdge
    BY <1>6, <2>1, Phases DEF TimerEdge, PreSample, Driven
  <2> QED
    BY <2>2, <2>3, <2>4
<1>7. CASE FaultInjectionPoint
  <2>1. Units(0, 0, 0, 0) /\ phase = Fip /\ Tick /\ UNCHANGED << busVars, hits >>
    BY <1>7 DEF FaultInjectionPoint
  <2>2. \E in : Wires(in) /\ OuClock(in)
    BY <2>1, UnitsAwake, Phases DEF Wires
  <2>3. BusEdge
    BY <1>1, <1>2, <2>1, UnitsAwake, Phases DEF BusEdge, busVars
  <2>4. TimerEdge
    BY <1>7, <2>1, Phases DEF TimerEdge, FaultInjectionPoint
  <2> QED
    BY <2>2, <2>3, <2>4
<1>8. CASE OtherEdge
  <2>1. /\ Units(0, 0, 0, 0) /\ phase \notin {0, Boundary, Psp, Fip} /\ Tick
        /\ UNCHANGED << busVars, hits >>
    BY <1>8 DEF OtherEdge
  <2>2. \E in : Wires(in) /\ OuClock(in)
    BY <2>1, UnitsAwake, Phases DEF Wires
  <2>3. BusEdge
    BY <1>1, <1>2, <2>1, UnitsAwake, Phases DEF BusEdge, busVars
  <2>4. TimerEdge
    BY <1>8, <2>1, Phases DEF TimerEdge, OtherEdge, Driven
  <2> QED
    BY <2>2, <2>3, <2>4
<1> QED
  BY <1>3, <1>4, <1>5, <1>6, <1>7, <1>8

\* A receiver is a simple case of it.
LEMMA AwakeEdges ==
    ASSUME BusTypes, Receiver, awake = 1, CoreNext
    PROVE  /\ AwakeEdge /\ \E in : Inputs(in) /\ OuClock(in)
           /\ phase = 0 => Sample
           /\ phase = Boundary => BitStart
<1>1. BusEdge /\ TimerEdge /\ xcvr_mode = 0 /\ xcvr_req = 0
  BY FrameEdges DEF Receiver
<1>2. PICK in : Wires(in) /\ OuClock(in)
  BY FrameEdges
<1>3. Inputs(in)
  BY <1>1, <1>2 DEF Wires, Inputs
<1>4. AwakeEdge
  BY <1>1, Phases DEF BusEdge, TimerEdge, AwakeEdge
<1> QED
  BY <1>1, <1>2, <1>3, <1>4 DEF BusEdge
-----------------------------------------------------------------------------
(* One edge of the override unit *)

\* What the stages of the unit do with a single bit: the branches of
\* ou_state_machine, and what comes of each.
Matched(in) ==
    /\ NewMatch(in) /\ ou_state' = ActiveState(in.fi.type)
    /\ prep_strobe' = 0 /\ late_strobe' = 1
    /\ UNCHANGED << shadow_state, bsfx_shift >>
GoesOn(in) ==
    /\ ~NewMatch(in) /\ fsm_state /= "ERRF"
    /\ \/ ou_state = "OU_AWAIT_FI"
       \/ /\ ~(err_dom = 1 /\ in.fip_strb = 1)
          /\ sample_ready /= 1 /\ late_strobe /= 1
    /\ prep_strobe' = 0 /\ late_strobe' = 0
    /\ UNCHANGED << ou_state, shadow_state, bsfx_shift >>
GivesUp(in) ==
    /\ ~NewMatch(in)
    /\ fsm_state = "ERRF" \/ (ou_state /= "OU_AWAIT_FI" /\ err_dom = 1 /\ in.fip_strb = 1)
    /\ ou_state' = "OU_DONE"
    /\ prep_strobe' = 0 /\ late_strobe' = 0
    /\ UNCHANGED << shadow_state, bsfx_shift >>
Judges(in) ==
    /\ ~NewMatch(in) /\ fsm_state /= "ERRF" /\ ou_state /= "OU_AWAIT_FI"
    /\ sample_ready = 1 \/ late_strobe = 1
    /\ ou_state' \in {ou_state, "OU_DONE"}
    /\ Active /\ arm = 1 => ou_state' = "OU_DONE"
    /\ prep_strobe' \in {0, 1} /\ late_strobe' = 0
    /\ prep_strobe' = 1 => Active /\ arm /= 1 /\ ou_state' = ou_state
    /\ shadow_state' = fsm_state
    /\ bsfx_shift' = (IF ou_state = "OU_BSFX" /\ prep_strobe' = 1 THEN 1 ELSE bsfx_shift)
    /\ OuSample(in)

\* What the sample of a single bit decides: prepare, stay or stop, never a
\* take-over of the bus by the transceiver and never an interrupt.
LEMMA Judgement ==
    ASSUME Receiver, NEW in, OuSample(in)
    PROVE  /\ ou_state' \in {ou_state, "OU_DONE"}
           /\ Active /\ arm = 1 => ou_state' = "OU_DONE"
           /\ prep_strobe' \in {0, 1} /\ late_strobe' = 0
           /\ prep_strobe' = 1 => Active /\ arm /= 1 /\ ou_state' = ou_state
           /\ shadow_state' = fsm_state
           /\ bsfx_shift' = (IF ou_state = "OU_BSFX" /\ prep_strobe' = 1 THEN 1 ELSE bsfx_shift)
           /\ xcvr_prep' = 0 /\ interrupt_req' = 0
<1> DEFINE v == Verdict(in)
<1>1. Verdict(in) = "Prep" => Active /\ arm /= 1
  <2>1. Verdict(in) = (CASE ou_state = "OU_BIT"      -> BitVerdict(in)
      [] ou_state = "OU_BSDY"     -> BsdyVerdict
      [] ou_state = "OU_BSFX"     -> BsfxVerdict
      [] OTHER                    -> "Stop")
    BY DEF Receiver, OuStates, Verdict
  <2> QED
    BY <2>1 DEF Active, BitVerdict, BsdyVerdict, BsfxVerdict
<1>2. Active /\ arm = 1 => Verdict(in) = "Stop"
  BY DEF Active, Verdict, BitVerdict, BsdyVerdict, BsfxVerdict
<1> HIDE DEF v
<1>3. PICK w : w = Verdict(in)
  OBVIOUS
<1> QED
  BY <1>1, <1>2 DEF OuSample

\* An edge of stage I is one of the four branches.
LEMMA OuBranches ==
    ASSUME Receiver, NEW in, in.sleep = 0, in.xcvr_strb = 0, OuStateMachine(in)
    PROVE  /\ Matched(in) \/ GoesOn(in) \/ GivesUp(in) \/ Judges(in)
           /\ xcvr_prep' = 0 /\ interrupt_req' = 0
<1>1. CASE fsm_state = "ERRF"
  BY <1>1 DEF OuStateMachine, NewMatch, OuErrorFrame, GivesUp, NoStrobe
<1>2. CASE NewMatch(in)
  <2>1. OuMatch(in)
    BY <1>2 DEF OuStateMachine, NewMatch
  <2> QED
    BY <1>2, <2>1 DEF OuMatch, Matched
<1>3. CASE fsm_state /= "ERRF" /\ ou_state = "OU_AWAIT_FI" /\ ~NewMatch(in)
  BY <1>3 DEF OuStateMachine, OuHold, GoesOn, NoStrobe
<1>4. CASE fsm_state /= "ERRF" /\ ou_state /= "OU_AWAIT_FI"
  <2>1. ~NewMatch(in) /\ xcvr_req = 0
    BY <1>4 DEF NewMatch, Receiver
  <2>2. CASE OuDominant /\ err_dom = 1 /\ in.fip_strb = 1
    BY <1>4, <2>1, <2>2 DEF OuDominant, GivesUp, NoStrobe
  <2>3. CASE OuHold /\ ~(err_dom = 1 /\ in.fip_strb = 1)
             /\ ~(sample_ready = 1 \/ late_strobe = 1)
    BY <1>4, <2>1, <2>3 DEF OuHold, GoesOn, NoStrobe
  <2>4. CASE OuSample(in) /\ (sample_ready = 1 \/ late_strobe = 1)
    BY <1>4, <2>1, <2>4, Judgement DEF Judges
  <2> QED
    BY <1>4, <2>1, <2>2, <2>3, <2>4 DEF OuStateMachine
<1> QED
  BY <1>1, <1>2, <1>3, <1>4

\* Stage II.
LEMMA PrepBranches ==
    ASSUME Receiver, NEW in, in.sleep = 0, prep_strobe = 1 => Active, queue \in {0, 1},
           bs_insert \in {0, 1}, PrepOverride(in)
    PROVE  /\ << xcvr_req, subst, stage_iii >>' = << 0, 0, 0 >>
           /\ queue' \in {0, 1}
           /\ prep_strobe /= 1 => /\ bs_cnt' = bs_cnt
                                  /\ queue' = (IF ou_state = "OU_DONE" THEN 1 ELSE queue)
<1>1. ou_state \notin {"OU_DLC", "OU_DATA_CRC"} /\ xcvr_prep = 0 /\ xcvr_req = 0
  BY DEF Receiver
<1>2. ASSUME NoPrep(in)
      PROVE  /\ << xcvr_req, subst, stage_iii >>' = << 0, 0, 0 >>
             /\ bs_cnt' = bs_cnt /\ queue' = (IF ou_state = "OU_DONE" THEN 1 ELSE queue)
  BY <1>1, <1>2 DEF NoPrep, VectorIndex, QueueAtRest
<1>3. CASE prep_strobe = 1
  <2>1. PrepBit \/ PrepStuff(in)
    BY <1>1, <1>3 DEF PrepOverride, PrepStuffBit, PrepDlc, PrepData, Active
  <2> QED
    BY <1>1, <1>3, <2>1 DEF PrepBit, PrepStuff
<1>4. CASE prep_strobe /= 1
  <2>1. NoPrep(in)
    BY <1>1, <1>4 DEF PrepOverride
  <2> QED
    BY <1>2, <1>4, <2>1
<1> QED
  BY <1>3, <1>4

\* Stage III.
LEMMA ArmBranches ==
    ASSUME Receiver, NEW in, in.sleep = 0, ArmInjection(in)
    PROVE  LET dom == IF NewMatch(in) THEN 0 ELSE err_dom
           IN  /\ ou_state' = "OU_DONE" => arm' = 0 /\ err_dom' = dom
               /\ ou_state' /= "OU_DONE" /\ in.psp_strb = 1 =>
                     /\ arm' = (IF queue = 0 /\ in.psp = 1 THEN 1 ELSE 0)
                     /\ err_dom' = (IF queue = 0 /\ in.psp = 0 THEN 1 ELSE dom)
               /\ ou_state' /= "OU_DONE" /\ in.psp_strb /= 1 => arm' = arm /\ err_dom' = dom
BY DEF ArmInjection, Receiver
-----------------------------------------------------------------------------
(* One edge of the parser, as the other units see it *)

\* Between two samples the parser stays where it is.
LEMMA ParserBetween ==
    ASSUME NEW s, Clock(0, s, 0), fsm_state /= "SLEEP"
    PROVE  /\ UNCHANGED << fsm_state, fsm_cnt, id_ready, id_buffer, sample_buf, status >>
           /\ << sample_ready, destuff_strobe, dlc_ready >>' = << 0, 0, 0 >>
BY DEF Clock, ParserClock, ParserSleep, Asleep, ParserStuffError, StuffError, ParserHold

\* A sample is announced, and may only bring the identifier, never change it.
LEMMA ParserSamples ==
    ASSUME NEW s, Clock(1, s, 0), fsm_state /= "SLEEP"
    PROVE  /\ sample_ready' = 1 /\ sample_buf' = s
           /\ id_ready = 1 /\ fsm_state /= "ABIT" =>
                 id_ready' = 1 /\ id_buffer' = id_buffer /\ fsm_state' /= "ABIT"
           /\ id_ready' = id_ready \/ (id_ready' = 1 /\ fsm_state' = "CTRL")
<1>1. CASE ParserStuffError(1, s)
  BY <1>1 DEF ParserStuffError, TakeSample, GoTo
<1>2. CASE SkipStuffBit(s)
  BY <1>2 DEF SkipStuffBit, TakeSample
<1>3. CASE ParseBit(s)
  <2>1. sample_ready' = 1 /\ sample_buf' = s
    BY <1>3 DEF ParseBit, TakeSample
  <2>2. CASE ArbitrationBit(s)
    BY <2>1, <2>2 DEF ArbitrationBit
  <2>3. CASE ArbitrationEnd(s)
    BY <2>1, <2>3 DEF ArbitrationEnd, GoTo
  <2>4. CASE FdfBit(s) \/ ReservedBit \/ BrsOrEsiBit \/ DlcBit(s) \/ LastDlcBit(s)
    BY <2>1, <2>4 DEF FdfBit, ReservedBit, BrsOrEsiBit, DlcBit, LastDlcBit, GoTo, EnterCrc
  <2>5. CASE DataBit \/ StuffCountBit \/ CrcBit
    BY <2>1, <2>5 DEF DataBit, StuffCountBit, CrcBit, GoTo, EnterCrc
  <2>6. CASE TailBit(s) \/ LastTailBit(s) \/ ErrorFlagBit(s) \/ AwaitEofBit(s)
    BY <2>1, <2>6 DEF TailBit, LastTailBit, ErrorFlagBit, AwaitEofBit, GoTo
  <2> QED
    BY <1>3, <2>2, <2>3, <2>4, <2>5, <2>6 DEF ParseBit
<1> QED
  BY <1>1, <1>2, <1>3 DEF Clock, ParserClock, ParserSleep, Asleep

\* The sender's identifier is in the parser's register from id_ready on.
LEMMA IdentifierHeld ==
    BusInv /\ awake = 1 /\ id_ready = 1 =>
        /\ id_buffer = id /\ fsm_state /= "ABIT"
        /\ field \notin ToRrs \cup {"idle"}
<1> SUFFICES ASSUME BusInv, awake = 1, id_ready = 1
             PROVE  /\ id_buffer = id /\ fsm_state /= "ABIT"
                    /\ field \notin ToRrs \cup {"idle"}
  OBVIOUS
<1>1. CASE mode = "frame" /\ Framing
  <2>1. Decoding /\ ~Entering
    BY <1>1 DEF BusInv, Framing, Receiving, Leaving, Entering, Starting, Clean
  <2>2. field \notin ToRrs \cup {"idle"}
    BY <1>1, <2>1 DEF Decoding, Framing, Receiving, Leaving, Aligned, ToRrs, ToIde
  <2>3. fsm_state /= "ABIT"
    BY <1>1, <2>1, <2>2
    DEF Framing, Receiving, Leaving, Done, Aligned, ParserState, ToRrs, ToIde
  <2> QED
    BY <2>1, <2>2, <2>3 DEF Decoding
<1>2. CASE Broken
  BY <1>2 DEF Broken, ToRrs, ToIde, Done
<1> QED
  BY <1>1, <1>2 DEF BusInv

\* The same for the next state.
LEMMA IdentifierHeldNext == (BusInv /\ awake = 1 /\ id_ready = 1 => id_buffer = id)'
<1>1. BusInv /\ awake = 1 /\ id_ready = 1 => id_buffer = id
  BY IdentifierHeld
<1> QED
  BY <1>1, PTL

\* A frame is arbitrated from the first bit behind its RRS on.
LEMMA ArbitratedFields == Arbitrated <=> field \notin ToRrs \cup {"idle"}
BY DEF Arbitrated, ToRrs, ToIde
-----------------------------------------------------------------------------
(* The frame on the bus *)

\* The bus has a level.
LEMMA LevelTypes == BusTypes => Level \in Bit /\ Level \in {0, 1}
BY DEF Level, Bit

\* The types of the bus and of parser and destuffer are kept by every edge.
LEMMA BusTypesStep ==
    ASSUME BusTypes, awake = 1, arm \in Bit, CoreNext
    PROVE  BusTypes'
<1>1. BusEdge /\ TimerEdge /\ (phase = 0 => Sample) /\ (phase = Boundary => BitStart)
  BY FrameEdges DEF BusEdge
<1>2. TypeOK' /\ GroupOpen'
  <2>1. (IF phase = 0 THEN 1 ELSE 0) \in Bit /\ 0 \in Bit
    BY DEF Bit
  <2> QED
    BY <1>1, <2>1, ClockTypes, LevelTypes DEF BusEdge, BusTypes
<1>3. sent' \in Bit
  BY <1>1 DEF BusTypes, BusEdge, Sample, BitStart
<1>4. awake' \in Bit /\ phase' \in 0 .. BitEdges - 1 /\ can_tx' \in Bit /\ id_mem' \in SlotTables
  <2>1. status.eof \in {0, 1}
    BY DEF BusTypes, TypeOK, ParserTypeOK, Statuses, Bit
  <2> QED
    BY <1>1, <2>1, Phases DEF BusTypes, BusEdge, TimerEdge, Bit, Not
<1> QED
  BY <1>2, <1>3, <1>4 DEF BusTypes

\* No strobe without a sample.
LEMMA SampleStrobes ==
    ASSUME NEW s, NEW sleep, Clock(0, s, sleep)
    PROVE  << sample_ready, destuff_strobe, dlc_ready >>' = << 0, 0, 0 >>
BY DEF Clock, ParserClock, ParserSleep, ParserStuffError, StuffError, ParserHold

\* A frame given up leaves the sender in the intermission.
LEMMA GaveUp ==
    ASSUME TxInv, GiveUp
    PROVE  /\ TxInv' /\ field' = "ifs" /\ id' = id
<1>1. /\ field' = "ifs" /\ pos' = 0 /\ stuff' = 2 /\ last' = 1 /\ run' = 1 /\ group' = 0
      /\ format' = format /\ id' = id
  BY DEF GiveUp, NoStuff
<1>2. Present' /\ FieldLen' = 3 /\ ~FixedStuffed'
  BY <1>1 DEF Present, Fields, FieldLen, FixedStuffed
<1> QED
  BY <1>1, <1>2 DEF TxInv, TxTypeOK, StuffDue, NoStuffBeforeBrs, NoStuff, Bit

\* A sender that does not move keeps its invariant.
LEMMA SenderKeeps ==
    ASSUME TxInv, UNCHANGED txVars
    PROVE  TxInv'
BY DEF txVars, TxInv, TxTypeOK, StuffDue, NoStuffBeforeBrs, Present,
   FieldLen, FixedStuffed, DynamicStuffed

\* The sender's invariant is kept by every edge of a frame.
LEMMA SenderStep ==
    ASSUME BusTypes, BusInv, awake = 1, CoreNext
    PROVE  TxInv'
<1>1. BusEdge /\ (phase = 0 => Sample) /\ (phase = Boundary => BitStart) /\ TxInv
  BY FrameEdges DEF BusInv, BusEdge
<1>2. CASE phase = 0
  BY <1>1, <1>2, GaveUp, SenderKeeps, SenderSteps, LevelTypes DEF Sample
<1>3. CASE phase = Boundary
  BY <1>1, <1>3, GaveUp, SenderKeeps
  DEF BitStart, SendBit, SendFlagBit, StaySilent, ReceiverFlags
<1>4. CASE phase \notin {0, Boundary}
  BY <1>1, <1>4, SenderKeeps DEF BusEdge
<1> QED
  BY <1>2, <1>3, <1>4

\* Parser and sender after an edge of an unbroken frame.
LEMMA FramingStep ==
    ASSUME BusTypes, BusInv, awake = 1, awake' = 1, can_tx = 0 => id_ready = 1,
           CoreNext, mode = "frame"
    PROVE  IF mode' = "frame" THEN Framing' ELSE Broken'
<1> USE Phases
<1>1. /\ BusEdge /\ (phase = 0 => Sample) /\ (phase = Boundary => BitStart)
      /\ status.eof = 0 /\ TypeOK /\ GroupOpen /\ TxInv /\ Framing
      /\ phase \in 0 .. BitEdges - 1 /\ Level \in {0, 1} /\ Level \in Bit
      /\ phase /= 1 => destuff_strobe = 0 /\ dlc_ready = 0
  <2>1. status.eof \in {0, 1}
    BY DEF BusTypes, TypeOK, ParserTypeOK, Statuses, Bit
  <2> QED
    BY <2>1, FrameEdges, LevelTypes DEF BusInv, BusTypes, BusEdge
<1>2. phase' = (IF phase = BitEdges - 1 THEN 0 ELSE phase + 1)
  BY <1>1 DEF BusEdge
<1>3. Receiving \/ (Entering /\ phase = Boundary)
  BY <1>1 DEF Framing, Leaving, Done
<1>4. CASE phase = 0 /\ Objects
  <2>1. Receiving /\ Clock(1, Level, 0) /\ GiveUp /\ mode' /= "frame" /\ id_ready = 1
    <3>1. Level = 0 /\ sent = 1
      BY <1>4 DEF Objects, Overridden
    <3> QED
      BY <1>1, <1>3, <1>4, <3>1 DEF BusEdge, Sample, Level, BusTypes, Bit
  <2>2. id_ready' = 1 /\ id_buffer' = id_buffer /\ fsm_state' /= "ABIT" /\ id_buffer = id
    BY <2>1, ParserSamples, IdentifierHeld DEF Receiving, Following
  <2>3. Following' \/ Done'
    BY <1>1, <1>4, <2>1, PhaseOfSample DEF Receiving, Done
  <2>4. field' = "ifs" /\ id' = id /\ phase' = 1
    BY <1>1, <1>2, <1>4, <2>1, GaveUp
  <2> QED
    BY <2>1, <2>2, <2>3, <2>4 DEF Broken
<1>5. CASE phase = 0 /\ ~Objects
  <2>1. Receiving /\ Clock(1, Level, 0) /\ Send(Level) /\ mode' = mode /\ phase' = 1
    BY <1>1, <1>2, <1>3, <1>5 DEF BusEdge, Sample
  <2>2. Receiving' \/ Leaving'
    BY <1>1, <1>5, <2>1, SampleReceived
  <2> QED
    BY <2>1, <2>2 DEF Framing
<1>6. ASSUME phase /= 0, UNCHANGED txVars
      PROVE  Receiving'
  <2>1. Clock(0, 1, 0)
    <3>1. Clock(0, Level, 0)
      BY <1>1, <1>6 DEF BusEdge
    <3> QED
      BY <3>1 DEF Clock, ParserClock, ParserStuffError, StuffError, DestuffClock
  <2> QED
    BY <1>1, <1>3, <1>6, <2>1, EdgeReceived, FrameEntered
<1>7. CASE phase = Boundary /\ ReceiverFlags
  <2>1. Receiving /\ Clock(0, Level, 0) /\ GiveUp /\ mode' /= "frame" /\ id_ready = 1
    <3>1. field \notin ToRrs \cup {"idle"}
      BY <1>7, ArbitratedFields DEF ReceiverFlags
    <3>2. Receiving
      BY <1>3, <3>1 DEF Entering, ToRrs, ToIde
    <3> QED
      BY <1>1, <1>7, <3>1, <3>2 DEF BusEdge, ReceiverFlags, Receiving, Decoding
  <2>2. id_ready' = 1 /\ id_buffer' = id_buffer /\ fsm_state' /= "ABIT" /\ id_buffer = id
    BY <2>1, ParserBetween, IdentifierHeld DEF Receiving, Following
  <2>3. Following'
    BY <1>1, <2>1, PhaseOfEdge DEF Receiving
  <2>4. field' = "ifs" /\ id' = id
    BY <1>1, <2>1, GaveUp
  <2> QED
    BY <2>1, <2>2, <2>3, <2>4 DEF Broken
<1>8. CASE phase = Boundary /\ ~ReceiverFlags
  <2>1. UNCHANGED txVars /\ mode' = mode
    BY <1>1, <1>8 DEF BitStart, SendBit, NextSent, SendFlagBit, StaySilent
  <2> QED
    BY <1>6, <1>8, <2>1 DEF Framing
<1>9. CASE phase \notin {0, Boundary}
  <2>1. UNCHANGED txVars /\ mode' = mode
    BY <1>1, <1>9 DEF BusEdge
  <2> QED
    BY <1>6, <1>9, <2>1 DEF Framing
<1> QED
  BY <1>4, <1>5, <1>7, <1>8, <1>9

\* After an edge of a frame that was given up.
LEMMA BrokenStep ==
    ASSUME BusTypes, BusInv, awake = 1, awake' = 1, CoreNext, mode /= "frame"
    PROVE  mode' /= "frame" /\ Broken'
<1> USE Phases
<1>1. /\ BusEdge /\ (phase = 0 => Sample) /\ (phase = Boundary => BitStart)
      /\ status.eof = 0 /\ TypeOK /\ Broken /\ TxInv
      /\ phase \in 0 .. BitEdges - 1 /\ Level \in Bit
      /\ phase /= 1 => destuff_strobe = 0
  <2>1. status.eof \in {0, 1}
    BY DEF BusTypes, TypeOK, ParserTypeOK, Statuses, Bit
  <2> QED
    BY <2>1, FrameEdges, LevelTypes DEF BusInv, BusTypes, BusEdge
<1>2. phase' = (IF phase = BitEdges - 1 THEN 0 ELSE phase + 1)
  BY <1>1 DEF BusEdge
<1>3. Following /\ fsm_state /= "ABIT" /\ id_ready = 1 /\ id_buffer = id /\ field = "ifs"
  BY <1>1 DEF Broken, Done
<1>4. mode' /= "frame" /\ field' = "ifs" /\ id' = id
  <2>1. CASE phase = 0
    BY <1>1, <1>3, <2>1 DEF Sample, GiveUp, txVars, Objects
  <2>2. CASE phase = Boundary
    <3>1. SendFlagBit \/ StaySilent \/ ReceiverFlags
      BY <1>1, <2>2 DEF BitStart, SendBit
    <3> QED
      BY <1>3, <3>1 DEF SendFlagBit, StaySilent, ReceiverFlags, GiveUp, txVars
  <2>3. CASE phase \notin {0, Boundary}
    BY <1>1, <1>3, <2>3 DEF BusEdge, txVars
  <2> QED
    BY <2>1, <2>2, <2>3
<1>5. CASE phase = 0
  <2>1. Clock(1, Level, 0) /\ phase' = 1
    BY <1>1, <1>2, <1>5 DEF BusEdge
  <2>2. id_ready' = 1 /\ id_buffer' = id_buffer /\ fsm_state' /= "ABIT"
    BY <1>3, <2>1, ParserSamples DEF Following
  <2>3. Following' \/ Done'
    BY <1>1, <1>3, <1>5, <2>1, PhaseOfSample DEF Done
  <2> QED
    BY <1>3, <1>4, <2>1, <2>2, <2>3 DEF Broken
<1>6. CASE phase /= 0
  <2>1. Clock(0, Level, 0)
    BY <1>1, <1>6 DEF BusEdge
  <2>2. id_ready' = 1 /\ id_buffer' = id_buffer /\ fsm_state' /= "ABIT"
    BY <1>3, <2>1, ParserBetween DEF Following
  <2>3. Following'
    BY <1>1, <1>3, <2>1, PhaseOfEdge
  <2> QED
    BY <1>3, <1>4, <2>2, <2>3 DEF Broken
<1> QED
  BY <1>5, <1>6

\* Every edge of a frame.
LEMMA BusStep ==
    ASSUME BusTypes, BusInv, awake = 1, can_tx = 0 => id_ready = 1, CoreNext
    PROVE  BusInv'
<1> SUFFICES ASSUME awake' = 1 PROVE BusInv'
  BY DEF BusInv
<1>1. BusEdge /\ status.eof = 0 /\ phase \in 0 .. BitEdges - 1
  <2>1. status.eof \in {0, 1}
    BY DEF BusTypes, TypeOK, ParserTypeOK, Statuses, Bit
  <2> QED
    BY <2>1, FrameEdges DEF BusTypes, BusEdge
<1>2. phase' = 1 <=> phase = 0
  BY <1>1, Phases DEF BusEdge
<1>3. /\ phase' /= 1 => << destuff_strobe, dlc_ready, sample_ready >>' = << 0, 0, 0 >>
      /\ phase' = 1 => sample_ready' = 1
  <2>1. CASE phase = 0
    <3>1. fsm_state /= "SLEEP"
      BY <1>1, <2>1, Phases
      DEF BusInv, Framing, Broken, Receiving, Following, Entering, Leaving, Done
    <3> QED
      BY <1>1, <1>2, <2>1, <3>1, ParserSamples DEF BusEdge
  <2>2. CASE phase /= 0
    BY <1>1, <1>2, <2>2, SampleStrobes DEF BusEdge
  <2> QED
    BY <2>1, <2>2
<1>4. TxInv'
  BY SenderStep
<1>5. IF mode' = "frame" THEN Framing' ELSE Broken'
  BY FramingStep, BrokenStep
<1> QED
  BY <1>3, <1>4, <1>5 DEF BusInv
-----------------------------------------------------------------------------
(* The way of the identifier *)

\* The age of the identifier after the edge.
Older(a, b) ==
    /\ b \in 0 .. Evaluated
    /\ IF id_ready' = 0 THEN b = 0
       ELSE b = Evaluated \/ (b = phase' - 1 /\ fsm_state' = "CTRL")
    /\ IF id_ready = 0 THEN a = 0 /\ b = 0
       ELSE b = (IF a = Evaluated THEN a ELSE a + 1)
    /\ id_ready = 1 =>
          /\ id_ready' = 1 /\ UNCHANGED << id, id_mem >> /\ id_buffer = id
          /\ a /= Evaluated => a = phase - 1 /\ fsm_state = "CTRL"
    /\ id_ready = 0 => fsm_state \notin {"ERRF", "AWAIT_EOF"}

\* The age counts the edges of the first CTRL bit and then rests: the identifier
\* stays the sender's, and no table is exchanged under it.
LEMMA AgeStep ==
    ASSUME BusTypes, BusInv, can_tx = 0 => id_ready = 1,
           awake = 1, awake' = 1, CoreNext, NEW a \in 0 .. Evaluated, AgeOk(a)
    PROVE  \E b \in 0 .. Evaluated : Older(a, b)
<1> USE Phases
<1>1. /\ BusEdge /\ status.eof = 0 /\ phase \in 0 .. BitEdges - 1 /\ BusInv'
      /\ id_ready \in {0, 1} /\ id_ready' \in {0, 1} /\ Evaluated = TreeDepth + 7
  <2>1. status.eof \in {0, 1} /\ id_ready \in {0, 1}
    BY DEF BusTypes, TypeOK, ParserTypeOK, Statuses, Bit
  <2>2. BusEdge /\ BusInv'
    BY FrameEdges, BusStep
  <2>3. id_ready' \in {0, 1}
    BY <2>1, <2>2 DEF BusEdge, Clock, ParserClock, ParserSleep, ParserStuffError,
       SkipStuffBit, ParserHold, ParseBit, ArbitrationBit, ArbitrationEnd, FdfBit,
       ReservedBit, BrsOrEsiBit, DlcBit, LastDlcBit, DataBit, StuffCountBit, CrcBit,
       TailBit, LastTailBit, ErrorFlagBit, AwaitEofBit
  <2> QED
    BY <2>1, <2>2, <2>3 DEF BusEdge, BusTypes, Evaluated
<1>2. phase' = (IF phase = BitEdges - 1 THEN 0 ELSE phase + 1)
  BY <1>1 DEF BusEdge
<1>3. CASE id_ready = 0
  <2>1. mode = "frame" /\ Framing
    BY <1>3 DEF BusInv, Broken
  <2>2. Entering \/ Receiving
    BY <1>1, <2>1 DEF Framing, Leaving, Done
  <2>3. fsm_state \notin {"ERRF", "AWAIT_EOF"}
    BY <2>2 DEF Entering, Starting, Receiving, Aligned, ParserState
  <2>4. id_ready' = 0 \/ (phase' = 1 /\ fsm_state' = "CTRL")
    <3>1. CASE phase = 0
      <4>1. fsm_state /= "SLEEP"
        BY <1>1, <2>1, <3>1 DEF Framing, Receiving, Following
      <4> QED
        BY <1>1, <1>2, <1>3, <3>1, <4>1, ParserSamples DEF BusEdge
    <3>2. CASE phase /= 0
      <4>1. Clock(0, Level, 0)
        BY <1>1, <3>2 DEF BusEdge
      <4> QED
        BY <1>3, <4>1 DEF Clock, ParserClock, ParserSleep, ParserStuffError, StuffError,
           ParserHold
    <3> QED
      BY <3>1, <3>2
  <2> QED
    BY <1>1, <1>3, <2>3, <2>4 DEF Older, AgeOk
<1>4. CASE id_ready = 1
  <2>1. id_buffer = id /\ fsm_state /= "ABIT" /\ field \notin ToRrs \cup {"idle"}
    BY <1>4, IdentifierHeld
  <2>2. fsm_state /= "SLEEP"
    BY <1>1, <1>4
    DEF BusInv, Framing, Broken, Receiving, Following, Entering, Starting, Clean, Leaving, Done
  <2>3. id_ready' = 1 /\ id_buffer' = id_buffer
    <3>1. CASE phase = 0
      BY <1>1, <1>4, <2>1, <2>2, <3>1, ParserSamples DEF BusEdge
    <3>2. CASE phase /= 0
      BY <1>1, <1>4, <2>2, <3>2, ParserBetween DEF BusEdge
    <3> QED
      BY <3>1, <3>2
  <2>4. id' = id /\ id_mem' = id_mem
    <3>1. (BusInv /\ awake = 1 /\ id_ready = 1 => id_buffer = id)'
      BY IdentifierHeldNext
    <3> QED
      BY <1>1, <2>1, <2>3, <3>1 DEF BusEdge
  <2>5. CASE a = Evaluated
    BY <1>1, <1>4, <2>1, <2>3, <2>4, <2>5 DEF Older
  <2>6. CASE a /= Evaluated
    <3>1. a = phase - 1 /\ fsm_state = "CTRL"
      BY <1>4, <2>6 DEF AgeOk
    <3>2. phase /= 0 /\ phase' = phase + 1 /\ a + 1 = phase' - 1 /\ a + 1 \in 0 .. Evaluated
      BY <1>1, <1>2, <2>6, <3>1
    <3>3. fsm_state' = "CTRL"
      BY <1>1, <2>2, <3>1, <3>2, ParserBetween DEF BusEdge
    <3> QED
      BY <1>1, <1>4, <2>1, <2>3, <2>4, <2>6, <3>1, <3>2, <3>3 DEF Older
  <2> QED
    BY <2>5, <2>6
<1> QED
  BY <1>1, <1>3, <1>4

\* The first slot of those that are hit gives the frame.
LEMMA FirstHit ==
    ASSUME NEW e, First(e, Hitting)
    PROVE  e \in Entries /\ Fi = id_mem[e].fi
<1>1. Hitting \subseteq Entries /\ Entries \subseteq Int
  BY Ends DEF Hitting
<1>2. \A f \in Hitting : (\A g \in Hitting : f <= g) => f = e
  BY <1>1 DEF First
<1> QED
  BY <1>1, <1>2 DEF First, Fi

\* A set of slots has a first one.
LEMMA FirstSlot ==
    ASSUME NEW S \in SUBSET Entries, S /= {}
    PROVE  \E e \in S : First(e, S)
<1>1. Entries \subseteq Nat
  BY DEF Entries
<1>2. PICK e \in S : \A f \in S : ~(<< f, e >> \in OpToRel(<, Nat))
  BY <1>1, WFMin, NatLessThanWellFounded, Zenon
<1>3. \A f \in S : ~(f < e)
  BY <1>1, <1>2 DEF OpToRel
<1>4. \A f \in S : e <= f
  BY <1>1, <1>3
<1> QED
  BY <1>4 DEF First

\* What a slot asks for, of whatever kind.
LEMMA SlotOfFrame ==
    /\ Asked => \E e \in Entries : Fi = id_mem[e].fi
    /\ BusTypes => Fi \in FiFrames
<1>1. ASSUME Asked PROVE \E e \in Entries : Fi = id_mem[e].fi
  <2>1. Hitting \in SUBSET Entries /\ Hitting /= {}
    BY <1>1 DEF Hitting, Asked
  <2>2. PICK e : First(e, Hitting)
    BY <2>1, FirstSlot
  <2> QED
    BY <2>2, FirstHit
<1>2. ASSUME BusTypes PROVE Fi \in FiFrames
  <2>1. CASE Asked
    BY <1>1, <1>2, <2>1, TablesAssumption DEF BusTypes
  <2>2. CASE ~Asked
    BY <2>2 DEF Asked, Fi, FiNull, FiFrames, FiTypes
  <2> QED
    BY <2>1, <2>2
<1> QED
  BY <1>1, <1>2

\* A slot counts from 0 or up.
LEMMA SlotFrame == BusTypes => Fi.meta \in Nat
BY SlotOfFrame DEF FiFrames

\* Before the identifier has come the tree says nothing of any slot.
LEMMA TreeUnaware ==
    ASSUME NEW nodes, NEW M, NEW N, TreeOf(nodes, M, 0)
    PROVE  TreeOf(nodes, N, 0)
<1>1. \A d \in 0 .. TreeDepth - 1 : ~(0 >= TreeDepth - d)
  BY Phases
<1> QED
  BY <1>1 DEF TreeOf, Reports

\* The tree, the frame register and the fetch process, edge by edge.
LEMMA MemoryStep ==
    ASSUME BusTypes, BusEdge, NEW a \in 0 .. Evaluated, NEW b, MemoryAt(a), Older(a, b)
    PROVE  MemoryAt(b)'
<1> USE Phases
<1>1. /\ MuClock(0, id_buffer, id_ready, 0, NoHostWrite, interrupt_req, 0)
      /\ id_ready \in {0, 1} /\ Evaluated = TreeDepth + 7 /\ a \in Int /\ b \in Int
  BY DEF BusEdge, Older, BusTypes, TypeOK, ParserTypeOK, Bit, Evaluated
<1>2. Ages(id_ready, a, b)
  BY <1>1 DEF Ages, Older
<1>3. TreeOf(node, Hits(id_buffer), a)
  <2>1. CASE id_ready = 1
    BY <2>1 DEF MemoryAt, Older, Hits, Hitting
  <2>2. CASE id_ready = 0
    BY <2>2, TreeUnaware DEF MemoryAt, Older
  <2> QED
    BY <1>1, <2>1, <2>2
<1>4. TreeOf(node', Hits(id_buffer), b)
  BY <1>1, <1>2, <1>3, TreeAdvances DEF MuClock
<1>5. TreeOf(node', Hitting', b)
  <2>1. CASE id_ready = 1
    <3>1. Hits(id_buffer) = Hitting'
      BY <2>1 DEF Older, Hits, Hitting
    <3> QED
      BY <1>4, <3>1
  <2>2. CASE id_ready = 0
    BY <1>4, <2>2, TreeUnaware DEF Older
  <2> QED
    BY <1>1, <2>1, <2>2
<1>6. /\ Root.match = 1 <=> a >= TreeDepth /\ Asked
      /\ Root.match = 1 => First(Root.idx, Hitting) /\ Root.ready = 1
  BY <1>1, RootReports DEF MemoryAt, Asked, Hitting
<1>7. MatchAge \in {TreeDepth + 3, TreeDepth + 5} /\ MatchAge' \in {TreeDepth + 3, TreeDepth + 5}
  BY DEF MatchAge
<1>8. CASE id_ready = 0
  <2>1. a = 0 /\ b = 0
    BY <1>8 DEF Older
  <2>2. fi_frame_ready = 0 /\ Root.match /= 1 /\ ram_read_state = "AWAIT_MATCH"
        /\ mem_rd_latency = 0 /\ data_vector_ready /= 1
    BY <1>6, <1>7, <2>1 DEF MemoryAt, FetchAt
  <2>3. fi_frame_ready' = 0
    BY <1>1, <2>2 DEF MuClock, ExtractFiFrame
  <2>4. /\ ram_read_state' = "AWAIT_MATCH" /\ data_vector_ready' /= 1 /\ mem_rd_latency' = 0
    BY <1>1, <2>2 DEF MuClock, WriteRamToBuffer, AwaitMatch, AwaitMem, VectorReady
  <2>5. FetchAt(b)' = "AWAIT_MATCH"
    BY <2>1 DEF FetchAt
  <2> QED
    BY <1>5, <1>7, <2>1, <2>3, <2>4, <2>5
    DEF MemoryAt, TreeOf, Reports, Under, Width, First
<1>9. CASE id_ready = 1
  <2>1. Hitting' = Hitting /\ (Asked' <=> Asked) /\ Fi' = Fi
        /\ b = (IF a = Evaluated THEN a ELSE a + 1)
    BY <1>9 DEF Older, Hitting, Asked, Fi
  <2>2. Root.match = 1 => Fi = id_mem[Root.idx].fi
    BY <1>6, FirstHit
  <2>3. /\ fi_frame_ready' = (IF b >= TreeDepth + 1 /\ Asked THEN 1 ELSE 0)
        /\ fi_frame_ready' = 1 => fi_frame' = Fi
    BY <1>1, <1>6, <2>1, <2>2 DEF MuClock, ExtractFiFrame, MemoryAt
  <2>4. /\ (Fetched' <=> Fetched) /\ MatchAge' = MatchAge /\ FetchAt(b)' = FetchAt(b)
    BY <2>1 DEF Fetched, MatchAge, FetchAt
  <2>5. WriteRamToBuffer(0)
    BY <1>1 DEF MuClock
  <2>6. /\ fi_frame_ready = (IF a >= TreeDepth + 1 /\ Asked THEN 1 ELSE 0)
        /\ fi_frame_ready = 1 => fi_frame = Fi
        /\ ram_read_state = FetchAt(a)
        /\ mem_rd_latency = (IF a >= TreeDepth + 3 /\ Asked /\ Fetched THEN 1 ELSE 0)
        /\ data_vector_ready = 1 <=> a >= MatchAge /\ Asked
    BY DEF MemoryAt
  <2>7. /\ ram_read_state' = FetchAt(b)
        /\ mem_rd_latency' = (IF b >= TreeDepth + 3 /\ Asked /\ Fetched THEN 1 ELSE 0)
        /\ data_vector_ready' = 1 <=> b >= MatchAge /\ Asked
    <3>1. CASE a < TreeDepth + 2 \/ ~Asked
      <4>1. ram_read_state = "AWAIT_MATCH" /\ data_vector_ready /= 1 /\ mem_rd_latency = 0
        BY <1>1, <1>7, <2>6, <3>1 DEF FetchAt
      <4>2. AwaitMatch
        BY <2>5, <4>1 DEF WriteRamToBuffer, AwaitMem, VectorReady
      <4> QED
        BY <1>1, <1>7, <2>1, <2>6, <3>1, <4>1, <4>2 DEF AwaitMatch, FetchAt, Fetched
    <3>2. CASE a >= TreeDepth + 2 /\ Asked /\ ~Fetched
      <4>1. ram_read_state = "SKIP_READ" /\ MatchAge = TreeDepth + 3
        BY <1>1, <2>6, <3>2 DEF FetchAt, MatchAge
      <4>2. VectorReady
        BY <2>5, <4>1 DEF WriteRamToBuffer, AwaitMatch, AwaitMem
      <4> QED
        BY <1>1, <2>1, <2>6, <3>2, <4>1, <4>2 DEF VectorReady, FetchAt
    <3>3. CASE a >= TreeDepth + 2 /\ a < TreeDepth + 4 /\ Asked /\ Fetched
      <4>1. ram_read_state = "AWAIT_MEM" /\ MatchAge = TreeDepth + 5
        BY <1>1, <2>6, <3>3 DEF FetchAt, MatchAge
      <4>2. AwaitMem
        BY <2>5, <4>1 DEF WriteRamToBuffer, AwaitMatch, VectorReady
      <4> QED
        BY <1>1, <2>1, <2>6, <3>3, <4>1, <4>2 DEF AwaitMem, FetchAt
    <3>4. CASE a >= TreeDepth + 4 /\ Asked /\ Fetched
      <4>1. ram_read_state = "READY" /\ MatchAge = TreeDepth + 5
        BY <1>1, <2>6, <3>4 DEF FetchAt, MatchAge
      <4>2. VectorReady
        BY <2>5, <4>1 DEF WriteRamToBuffer, AwaitMatch, AwaitMem
      <4> QED
        BY <1>1, <2>1, <2>6, <3>4, <4>1, <4>2 DEF VectorReady, FetchAt
    <3> QED
      BY <1>1, <3>1, <3>2, <3>3, <3>4
  <2>8. TreeOf(node, Hitting, b)'
    BY <1>5 DEF TreeOf, Reports, Under, Width, First
  <2> QED
    BY <2>1, <2>3, <2>4, <2>7, <2>8 DEF MemoryAt
<1> QED
  BY <1>1, <1>8, <1>9

\* A single bit leads to a single-bit state.
LEMMA ActiveStates ==
    ASSUME NEW type, type \notin {"FI_DLC", "FI_DATA"}
    PROVE  ActiveState(type) \in {"OU_BIT", "OU_BSDY", "OU_BSFX", "OU_DONE"}
BY DEF ActiveState

\* Whatever the slot asks for: the unit goes on or is done, but for a match.
LEMMA OuMoves ==
    ASSUME NEW in, in.sleep = 0, OuStateMachine(in)
    PROVE  /\ NewMatch(in) => /\ ou_state' = ActiveState(in.fi.type) /\ late_strobe' = 1
                              /\ << prep_strobe, xcvr_prep, interrupt_req >>' = << 0, 0, 0 >>
                              /\ bsfx_shift' = bsfx_shift /\ inj_pending' = 1
           /\ ~NewMatch(in) => /\ ou_state' \in {ou_state, "OU_DONE"} /\ late_strobe' = 0
                               /\ interrupt_req' = 0
           /\ ~NewMatch(in) /\ ou_state \in {"OU_AWAIT_FI", "OU_DONE"} =>
                 /\ fsm_state /= "ERRF" => ou_state' = ou_state
                 /\ << prep_strobe, xcvr_prep >>' = << 0, 0 >> /\ bsfx_shift' = bsfx_shift
<1>1. CASE fsm_state = "ERRF"
  BY <1>1 DEF OuStateMachine, NewMatch, OuErrorFrame, NoStrobe
<1>2. CASE NewMatch(in)
  <2>1. OuMatch(in)
    BY <1>2 DEF OuStateMachine, NewMatch
  <2> QED
    BY <1>2, <2>1 DEF OuMatch
<1>3. CASE fsm_state /= "ERRF" /\ ou_state = "OU_AWAIT_FI" /\ ~NewMatch(in)
  BY <1>3 DEF OuStateMachine, OuHold, NoStrobe
<1>4. CASE fsm_state /= "ERRF" /\ ou_state /= "OU_AWAIT_FI"
  <2>1. ~NewMatch(in)
    BY <1>4 DEF NewMatch
  <2>2. CASE OuDominant \/ OuHold
    BY <1>4, <2>1, <2>2 DEF OuDominant, OuHold, NoStrobe
  <2>3. CASE OuTransceive
    BY <1>4, <2>1, <2>3 DEF OuTransceive, OverrideSent
  <2>4. CASE OuSample(in)
    <3>1. PICK v : v = Verdict(in)
      OBVIOUS
    <3>2. ou_state = "OU_DONE" => v = "Stop"
      BY <3>1 DEF Verdict
    <3> QED
      BY <1>4, <2>1, <2>4, <3>1, <3>2 DEF OuSample
  <2> QED
    BY <1>4, <2>1, <2>2, <2>3, <2>4 DEF OuStateMachine
<1> QED
  BY <1>1, <1>2, <1>3, <1>4

\* Without a strobe stage II rests.
LEMMA PrepRests ==
    ASSUME NEW in, in.sleep = 0, prep_strobe /= 1, xcvr_prep /= 1, PrepOverride(in)
    PROVE  /\ queue' = (IF ou_state = "OU_DONE" THEN 1 ELSE queue)
           /\ UNCHANGED << bs_cnt, xcvr_req >> /\ << subst, stage_iii >>' = << 0, 0 >>
           /\ sf' = sf
           /\ ou_state /= "OU_AWAIT_FI" => UNCHANGED << data_cnt, dlc_sr >>
           /\ NewMatch(in) => data_cnt' = VectorBits - 1 /\ dlc_sr' = in.fi.meta % 16
           /\ data_cnt' \in {data_cnt, VectorBits - 1}
BY DEF PrepOverride, NoPrep, VectorIndex, QueueAtRest, SyncedSf, NewMatch

\* What of its inputs tells the unit about its frame.
Fed(in) ==
    /\ in.sleep = 0 /\ in.fi = fi_frame /\ in.fi_ready = fi_frame_ready
    /\ in.vec_ready = data_vector_ready /\ (in.psp_strb = 1 => phase = Psp)
LEMMA FedUnits == \A in : Inputs(in) \/ Wires(in) => Fed(in)
BY DEF Inputs, Wires, Fed

\* No stage sends or wants to.
Quiet == << xcvr_prep, xcvr_req, subst, stage_iii >> = << 0, 0, 0, 0 >>

\* The unit picks up no frame but the one that the identifier asks for, when the
\* announcement of its vector has come.
LEMMA MatchedFrame ==
    ASSUME NEW in, Fed(in), NEW a \in 0 .. Evaluated, MemoryAt(a), OverrideAt(a),
           NewMatch(in)
    PROVE  a = MatchAge /\ Asked /\ fi_frame = Fi
<1>1. /\ Evaluated = TreeDepth + 7 /\ a \in Int /\ TreeDepth \in Int
      /\ MatchAge \in {TreeDepth + 3, TreeDepth + 5}
  BY Phases DEF Evaluated, MatchAge
<1>2. ou_state = "OU_AWAIT_FI" /\ data_vector_ready = 1
  BY DEF NewMatch, Fed
<1>3. a >= MatchAge /\ Asked
  BY <1>2 DEF MemoryAt
<1>4. ActiveState(Fi.type) /= "OU_AWAIT_FI"
  BY DEF ActiveState
<1>5. a = MatchAge
  BY <1>1, <1>2, <1>3, <1>4 DEF OverrideAt
<1> QED
  BY <1>1, <1>3, <1>5 DEF MemoryAt

\* A match is picked up exactly MatchAge edges after the identifier came.
LEMMA MatchAt ==
    ASSUME BusTypes, NEW in, Fed(in), NEW a \in 0 .. Evaluated, NEW b, Older(a, b),
           MemoryAt(a), OverrideAt(a)
    PROVE  NewMatch(in) <=> a = MatchAge /\ Asked
<1> USE Phases
<1>1. /\ Evaluated = TreeDepth + 7 /\ a \in Int
      /\ MatchAge \in {TreeDepth + 3, TreeDepth + 5}
  BY DEF Evaluated, MatchAge
<1>2. ASSUME NewMatch(in) PROVE a = MatchAge /\ Asked
  BY <1>2, MatchedFrame
<1>3. ASSUME a = MatchAge, Asked PROVE NewMatch(in)
  <2>1. ou_state = "OU_AWAIT_FI" /\ data_vector_ready = 1 /\ fi_parsed = 1
    <3>1. a >= MatchAge /\ a >= TreeDepth + 2 /\ ~(a > MatchAge)
      BY <1>1, <1>3
    <3> QED
      BY <1>3, <3>1 DEF MemoryAt, OverrideAt
  <2>2. fsm_state = "CTRL"
    <3>1. id_ready \in {0, 1} /\ a /= Evaluated /\ a /= 0
      BY <1>1, <1>3 DEF BusTypes, TypeOK, ParserTypeOK, Bit
    <3> QED
      BY <3>1 DEF Older
  <2> QED
    BY <2>1, <2>2 DEF NewMatch, Fed
<1> QED
  BY <1>2, <1>3

\* The override unit, up to its late look at the bit.
LEMMA OverrideStep ==
    ASSUME BusTypes, queue \in {0, 1}, NEW in, Fed(in), OuClock(in),
           NEW a \in 0 .. Evaluated, NEW b, Older(a, b), MemoryAt(a), OverrideAt(a),
           ~Asked \/ a <= MatchAge + 1 => Quiet
    PROVE  /\ fi_parsed' = (IF b >= TreeDepth + 2 /\ Asked' THEN 1 ELSE 0)
           /\ fi_parsed' = 1 => fi_can_field' = CanField(Fi'.field)
           /\ late_strobe' = (IF b = MatchAge' + 1 /\ Asked' THEN 1 ELSE 0)
           /\ b > MatchAge' /\ Asked' =>
                 /\ ou_state' \in {ActiveState(Fi'.type), "OU_DONE"}
                 /\ b <= MatchAge' + 1 => prep_strobe' = 0 /\ err_dom' = 0
                 /\ b <= MatchAge' + 2 /\ b /= Evaluated => queue' = 1
           /\ ~(b > MatchAge' /\ Asked') =>
                 /\ \/ ou_state' = "OU_AWAIT_FI"
                    \/ ou_state' = "OU_DONE" /\ id_ready' = 1 /\ ~Asked'
                 /\ << prep_strobe, bsfx_shift, bs_cnt >>' = << 0, 0, 0 >>
                 /\ queue' = 1
<1> USE Phases
<1>1. /\ Evaluated = TreeDepth + 7 /\ a \in Int /\ b \in Int /\ id_ready \in {0, 1}
      /\ MatchAge \in {TreeDepth + 3, TreeDepth + 5}
      /\ MatchAge' \in {TreeDepth + 3, TreeDepth + 5}
  BY DEF Evaluated, Older, BusTypes, TypeOK, ParserTypeOK, Bit, MatchAge
<1>2. OuStateMachine(in) /\ PrepOverride(in) /\ in.sleep = 0
  BY DEF Fed, OuClock
<1>3. prep_strobe /= 1 /\ xcvr_prep = 0 =>
        bs_cnt' = bs_cnt /\ queue' = (IF ou_state = "OU_DONE" THEN 1 ELSE queue)
  BY <1>2, PrepRests
<1>4. NewMatch(in) <=> a = MatchAge /\ Asked
  BY MatchAt
<1>5. \/ fi_frame_ready = 1 /\ fi_parsed' = 1 /\ fi_can_field' = CanField(fi_frame.field)
      \/ fi_frame_ready = 0 /\ UNCHANGED << fi_parsed, fi_can_field >>
  BY DEF Fed, OuClock, ParseFiFrame
<1>6. CASE id_ready = 0
  <2>1. a = 0 /\ b = 0 /\ fsm_state /= "ERRF"
    BY <1>6 DEF Older
  <2>2. /\ fi_frame_ready = 0 /\ fi_parsed = 0 /\ ou_state = "OU_AWAIT_FI" /\ queue = 1
        /\ << prep_strobe, bsfx_shift, bs_cnt >> = << 0, 0, 0 >> /\ ~NewMatch(in)
    BY <1>1, <1>4, <1>6, <2>1 DEF MemoryAt, OverrideAt
  <2>3. /\ xcvr_prep = 0 /\ ou_state' = "OU_AWAIT_FI" /\ late_strobe' = 0
        /\ prep_strobe' = 0 /\ bsfx_shift' = bsfx_shift
    BY <1>1, <1>2, <2>1, <2>2, OuMoves DEF Quiet
  <2>4. PICK m : m = MatchAge' /\ m \in {TreeDepth + 3, TreeDepth + 5}
    BY <1>1
  <2>5. queue' = 1 /\ bs_cnt' = 0 /\ fi_parsed' = 0
    BY <1>3, <1>5, <2>2, <2>3
  <2>6. ~(b > m) /\ ~(b = m + 1) /\ ~(b >= TreeDepth + 2)
    <3>1. ASSUME NEW k \in {TreeDepth + 3, TreeDepth + 5} PROVE ~(0 > k) /\ ~(0 = k + 1)
      OBVIOUS
    <3>2. ~(0 >= TreeDepth + 2)
      OBVIOUS
    <3> QED
      BY <2>1, <2>4, <3>1, <3>2, Zenon
  <2>7. ~(b > MatchAge') /\ ~(b = MatchAge' + 1)
    BY <2>4, <2>6, ZenonT(30)
  <2>8. << prep_strobe, bsfx_shift, bs_cnt >>' = << 0, 0, 0 >> /\ ~(fi_parsed' = 1)
    BY <2>2, <2>3, <2>5
  <2> QED
    BY <2>3, <2>5, <2>6, <2>7, <2>8, ZenonT(60)
<1>7. CASE id_ready = 1
  <2>1. /\ (Asked' <=> Asked) /\ Fi' = Fi /\ id_ready' = 1
        /\ b = (IF a = Evaluated THEN a ELSE a + 1)
        /\ a /= Evaluated => fsm_state = "CTRL" /\ a = phase - 1
    BY <1>7 DEF Older, Hitting, Asked, Fi
  <2>2. MatchAge' = MatchAge
    BY <2>1 DEF MatchAge, Fetched
  <2>3. /\ fi_parsed' = (IF b >= TreeDepth + 2 /\ Asked' THEN 1 ELSE 0)
        /\ fi_parsed' = 1 => fi_can_field' = CanField(Fi'.field)
    BY <1>1, <1>5, <2>1 DEF MemoryAt, OverrideAt
  <2>4. CASE a > MatchAge /\ Asked
    <3>1. /\ ou_state \in {ActiveState(Fi.type), "OU_DONE"} /\ ou_state /= "OU_AWAIT_FI"
      BY <2>4 DEF OverrideAt, ActiveState
    <3>2. ou_state' \in {ou_state, "OU_DONE"} /\ late_strobe' = 0
      BY <1>1, <1>2, <1>4, <2>4, OuMoves
    <3>3. a = MatchAge + 1 => queue' = 1
      BY <1>1, <1>3, <2>4 DEF OverrideAt, Quiet
    <3> QED
      BY <1>1, <2>1, <2>2, <2>3, <2>4, <3>1, <3>2, <3>3
  <2>5. CASE a = MatchAge /\ Asked
    <3>1. NewMatch(in) /\ b = MatchAge + 1
      BY <1>1, <1>4, <2>1, <2>5
    <3>2. /\ queue = 1 /\ prep_strobe = 0 /\ ou_state = "OU_AWAIT_FI"
          /\ xcvr_prep = 0 /\ stage_iii = 0
      BY <1>1, <2>5, <3>1 DEF OverrideAt, NewMatch, Quiet
    <3>3. ou_state' = ActiveState(Fi.type) /\ prep_strobe' = 0 /\ late_strobe' = 1
      <4>1. in.fi = Fi
        BY <3>1, MatchedFrame DEF Fed
      <4> QED
        BY <1>2, <3>1, <4>1, OuMoves
    <3>4. err_dom' = 0
      <4>1. in.psp_strb /= 1
        <5>1. a = phase - 1 /\ phase \in Int
          BY <1>1, <2>1, <2>5 DEF BusTypes
        <5> QED
          BY <1>1, <2>5, <5>1 DEF Fed
      <4> QED
        BY <1>2, <3>1, <3>2, <4>1 DEF OuClock, ArmInjection
    <3>5. queue' = 1
      BY <1>3, <3>2
    <3> QED
      BY <1>1, <2>1, <2>2, <2>3, <2>5, <3>1, <3>3, <3>4, <3>5
  <2>6. CASE ~(a > MatchAge /\ Asked) /\ ~(a = MatchAge /\ Asked)
    <3>1. ~(b > MatchAge /\ Asked) /\ ~NewMatch(in)
      BY <1>1, <1>4, <2>1, <2>6
    <3>2. /\ ou_state = "OU_AWAIT_FI" \/ (ou_state = "OU_DONE" /\ ~Asked)
          /\ << prep_strobe, bsfx_shift, bs_cnt >> = << 0, 0, 0 >> /\ queue = 1
          /\ xcvr_prep = 0
      BY <1>1, <2>6 DEF OverrideAt, Quiet
    <3>3. fsm_state = "ERRF" => ~Asked
      BY <1>1, <2>1, <2>6
    <3>4. prep_strobe' = 0 /\ late_strobe' = 0 /\ bsfx_shift' = bsfx_shift
      BY <1>2, <3>1, <3>2, OuMoves
    <3>5. ou_state' = "OU_AWAIT_FI" \/ (ou_state' = "OU_DONE" /\ ~Asked)
      BY <1>2, <3>1, <3>2, <3>3, OuMoves
    <3> QED
      BY <1>1, <1>3, <2>1, <2>2, <2>3, <3>1, <3>2, <3>4, <3>5
  <2> QED
    BY <1>1, <2>4, <2>5, <2>6
<1> QED
  BY <1>1, <1>6, <1>7

\* The identifier's way through the units goes on with every edge of a frame, if
\* nothing is sent before the unit has had its late look.
LEMMA ChainStep ==
    ASSUME BusTypes, BusInv, ChainInv, awake = 1, can_tx = 0 => id_ready = 1,
           queue \in {0, 1}, ou_state = "OU_AWAIT_FI" \/ ~Asked \/ late_strobe = 1 => Quiet,
           CoreNext
    PROVE  ChainInv'
<1> SUFFICES ASSUME awake' = 1 PROVE ChainInv'
  BY DEF ChainInv
<1>1. PICK a \in 0 .. Evaluated : AgeOk(a) /\ ChainAt(a)
  BY DEF ChainInv
<1>2. PICK b \in 0 .. Evaluated : Older(a, b)
  BY <1>1, AgeStep
<1>3. BusEdge
  BY FrameEdges
<1>4. PICK in : Fed(in) /\ OuClock(in)
  BY FrameEdges, FedUnits
<1>5. MemoryAt(a) /\ OverrideAt(a)
  BY <1>1 DEF ChainAt
<1>6. ~Asked \/ a <= MatchAge + 1 => Quiet
  <2>1. a \in Int /\ MatchAge \in Int
    BY Phases DEF Evaluated, MatchAge
  <2> QED
    BY <1>5, <2>1 DEF OverrideAt
<1>7. MemoryAt(b)'
  BY <1>2, <1>3, <1>5, MemoryStep
<1>8. OverrideAt(b)'
  BY <1>2, <1>4, <1>5, <1>6, OverrideStep DEF OverrideAt, Evaluated
<1>9. AgeOk(b)'
  BY <1>2 DEF Older, AgeOk, Evaluated
<1> QED
  BY <1>7, <1>8, <1>9 DEF ChainInv, ChainAt, Evaluated
-----------------------------------------------------------------------------
(* The stages of the override unit within the bit *)

\* What the edges at which the unit picks up a frame and looks at it late say
\* of the place in the bit.
LEMMA MatchInBit ==
    ASSUME BusTypes, ChainInv, awake = 1, NEW in, Fed(in), NewMatch(in)
    PROVE  /\ phase = MatchAge + 1 /\ fsm_state = "CTRL" /\ queue = 1 /\ prep_strobe = 0
           /\ in.fi = Fi /\ Asked /\ data_vector_ready = 1 /\ ou_state = "OU_AWAIT_FI"
<1>1. PICK a \in 0 .. Evaluated : AgeOk(a) /\ ChainAt(a)
  BY DEF ChainInv
<1>2. a = MatchAge /\ Asked /\ fi_frame = Fi
  BY <1>1, MatchedFrame DEF ChainAt
<1>3. /\ TreeDepth \in Nat /\ id_ready \in {0, 1} /\ phase \in Int /\ Evaluated = TreeDepth + 7
      /\ MatchAge \in {TreeDepth + 3, TreeDepth + 5}
  BY Phases DEF Evaluated, BusTypes, TypeOK, ParserTypeOK, Bit, MatchAge
<1>4. a = phase - 1 /\ fsm_state = "CTRL"
  BY <1>1, <1>2, <1>3 DEF AgeOk
<1>5. ~(a > MatchAge)
  BY <1>2, <1>3
<1> QED
  BY <1>1, <1>2, <1>3, <1>4, <1>5 DEF ChainAt, OverrideAt, Fed, NewMatch

\* The late look at the bit comes an edge later.
LEMMA LateInBit ==
    ASSUME BusTypes, ChainInv, awake = 1, late_strobe = 1
    PROVE  /\ phase = MatchAge + 2 /\ fsm_state = "CTRL" /\ queue = 1 /\ prep_strobe = 0
           /\ ou_state \in {ActiveState(Fi.type), "OU_DONE"} /\ err_dom = 0
           /\ Asked /\ data_vector_ready = 1
<1>1. PICK a \in 0 .. Evaluated : AgeOk(a) /\ ChainAt(a)
  BY DEF ChainInv
<1>2. a = MatchAge + 1 /\ Asked
  BY <1>1 DEF ChainAt, OverrideAt
<1>3. /\ TreeDepth \in Nat /\ id_ready \in {0, 1} /\ phase \in Int /\ Evaluated = TreeDepth + 7
      /\ MatchAge \in {TreeDepth + 3, TreeDepth + 5}
  BY Phases DEF Evaluated, BusTypes, TypeOK, ParserTypeOK, Bit, MatchAge
<1>4. a = phase - 1 /\ fsm_state = "CTRL"
  BY <1>1, <1>2, <1>3 DEF AgeOk
<1>5. a >= MatchAge
  BY <1>2, <1>3
<1> QED
  BY <1>1, <1>2, <1>3, <1>4, <1>5 DEF ChainAt, OverrideAt, MemoryAt

\* A frame that asks for a single bit is matched as early as can be.
LEMMA PlainAge == Plain /\ data_vector_ready = 1 => MatchAge = TreeDepth + 3
BY DEF Plain, MatchAge, Fetched

\* The edge of an awake core: no rest of a sample but at phase 1, no late look
\* but at TreeDepth + 5, no match but at TreeDepth + 4.
UnitEdge(in) ==
    /\ AwakeEdge /\ Inputs(in) /\ OuClock(in)
    /\ Matched(in) \/ GoesOn(in) \/ GivesUp(in) \/ Judges(in)
    /\ interrupt_req' = 0
    /\ Receiver'
    /\ queue' \in {0, 1}
    /\ prep_strobe /= 1 => queue' = (IF ou_state = "OU_DONE" THEN 1 ELSE queue)
    /\ LET dom == IF NewMatch(in) THEN 0 ELSE err_dom
       IN  /\ ou_state' = "OU_DONE" => arm' = 0 /\ err_dom' = dom
           /\ ou_state' /= "OU_DONE" /\ phase = Psp =>
                 /\ arm' = (IF queue = 0 /\ Level = 1 THEN 1 ELSE 0)
                 /\ err_dom' = (IF queue = 0 /\ Level = 0 THEN 1 ELSE dom)
           /\ ou_state' /= "OU_DONE" /\ phase /= Psp => arm' = arm /\ err_dom' = dom
    /\ NewMatch(in) => phase = TreeDepth + 4 /\ fsm_state = "CTRL" /\ queue = 1
                       /\ prep_strobe = 0 /\ ou_state = "OU_AWAIT_FI"
    /\ late_strobe = 1 => phase = TreeDepth + 5 /\ fsm_state = "CTRL" /\ queue = 1
                          /\ prep_strobe = 0
    /\ sample_ready = 1 <=> phase = 1
    /\ phase \in 0 .. BitEdges - 1 /\ status.eof \in {0, 1} /\ Level \in {0, 1}

\* Every edge of a frame is one of the unit as UnitEdge describes it.
LEMMA UnitEdges ==
    ASSUME BusTypes, BusInv, ChainInv, UnitInv, awake = 1, CoreNext
    PROVE  \E in : UnitEdge(in)
<1>1. /\ Receiver /\ queue \in {0, 1} /\ bs_insert \in {0, 1}
      /\ prep_strobe = 1 => Active
  BY DEF UnitInv, Strobed, Queued, BusTypes, TypeOK, DestuffTypeOK, Bit
<1>2. PICK in : Inputs(in) /\ OuClock(in)
  BY <1>1, AwakeEdges
<1>3. AwakeEdge
  BY <1>1, AwakeEdges
<1>4. /\ Matched(in) \/ GoesOn(in) \/ GivesUp(in) \/ Judges(in)
      /\ xcvr_prep' = 0 /\ interrupt_req' = 0
  BY <1>1, <1>2, OuBranches DEF Inputs, OuClock
<1>5. /\ << xcvr_req, subst, stage_iii >>' = << 0, 0, 0 >>
      /\ queue' \in {0, 1}
      /\ prep_strobe /= 1 => queue' = (IF ou_state = "OU_DONE" THEN 1 ELSE queue)
  BY <1>1, <1>2, PrepBranches DEF Inputs, OuClock
<1>6. ou_state' \in OuStates \ {"OU_DLC", "OU_DATA_CRC"}
  <2>1. CASE Matched(in)
    BY <1>2, <2>1, MatchInBit, ActiveStates, FedUnits DEF Matched, OuStates, UnitInv, Plain
  <2>2. CASE ~Matched(in)
    BY <1>1, <1>4, <2>2 DEF GoesOn, GivesUp, Judges, Receiver, OuStates
  <2> QED
    BY <2>1, <2>2
<1>7. Receiver'
  BY <1>1, <1>3, <1>4, <1>5, <1>6 DEF Receiver, AwakeEdge
<1>8. LET dom == IF NewMatch(in) THEN 0 ELSE err_dom
      IN  /\ ou_state' = "OU_DONE" => arm' = 0 /\ err_dom' = dom
          /\ ou_state' /= "OU_DONE" /\ phase = Psp =>
                /\ arm' = (IF queue = 0 /\ Level = 1 THEN 1 ELSE 0)
                /\ err_dom' = (IF queue = 0 /\ Level = 0 THEN 1 ELSE dom)
          /\ ou_state' /= "OU_DONE" /\ phase /= Psp => arm' = arm /\ err_dom' = dom
  <2>1. ArmInjection(in) /\ in.sleep = 0 /\ in.psp = Level
        /\ in.psp_strb = (IF phase = Psp THEN 1 ELSE 0)
    BY <1>2 DEF Inputs, OuClock
  <2> QED
    BY <1>1, <2>1, ArmBranches
<1>9. sample_ready = 1 <=> phase = 1
  BY DEF BusInv
<1>10. phase \in 0 .. BitEdges - 1 /\ status.eof \in {0, 1} /\ Level \in {0, 1}
  BY LevelTypes DEF BusTypes, TypeOK, ParserTypeOK, Statuses, Bit
<1>11. NewMatch(in) => phase = TreeDepth + 4 /\ fsm_state = "CTRL" /\ queue = 1
                       /\ prep_strobe = 0 /\ ou_state = "OU_AWAIT_FI"
  BY <1>2, MatchInBit, FedUnits, PlainAge, Phases DEF UnitInv
<1>12. late_strobe = 1 => phase = TreeDepth + 5 /\ fsm_state = "CTRL" /\ queue = 1
                          /\ prep_strobe = 0
  BY LateInBit, PlainAge, Phases DEF UnitInv
<1> QED
  BY <1>2, <1>3, <1>4, <1>5, <1>7, <1>8, <1>9, <1>10, <1>11, <1>12 DEF UnitEdge

\* The strobes of the stages stay at their places in the bit.
LEMMA StrobedStep ==
    ASSUME Strobed, Queued, Armed, awake' = 1, NEW in, UnitEdge(in)
    PROVE  Strobed'
<1> USE Phases
<1>1. /\ AwakeEdge /\ Inputs(in) /\ status.eof = 0 /\ phase \in 0 .. BitEdges - 1
      /\ Matched(in) \/ GoesOn(in) \/ GivesUp(in) \/ Judges(in)
      /\ phase' = (IF phase = BitEdges - 1 THEN 0 ELSE phase + 1)
  BY DEF UnitEdge, AwakeEdge
<1>2. fip_strb' = 1 <=> phase' = Fip + 1
  BY <1>1 DEF AwakeEdge
<1>3. interrupt_req' = 0
  BY DEF UnitEdge
<1>4. ASSUME prep_strobe' = 1
      PROVE  Active' /\ queue' = 1 /\ phase' \in {2, TreeDepth + 6}
  <2>1. Judges(in) /\ Active /\ arm /= 1 /\ ou_state' = ou_state
    BY <1>1, <1>4 DEF Matched, GoesOn, GivesUp, Judges
  <2>2. CASE phase = 1
    <3>1. prep_strobe /= 1 /\ queue \in {0, 1}
      BY <2>2 DEF Strobed, Queued, Bit
    <3>2. queue = 1
      BY <2>1, <2>2, <3>1 DEF Queued, Decided
    <3> QED
      BY <1>1, <2>1, <2>2, <3>1, <3>2 DEF UnitEdge, Active
  <2>3. CASE late_strobe = 1
    BY <1>1, <2>1, <2>3 DEF UnitEdge, Active
  <2> QED
    BY <2>1, <2>2, <2>3 DEF Judges, UnitEdge
<1> QED
  BY <1>2, <1>3, <1>4 DEF Strobed

\* Between two samples the unit goes on, but for the late look and what stops it.
LEMMA UnitBetween ==
    ASSUME Finished, Queued, NEW in, UnitEdge(in), phase /= 1, late_strobe /= 1,
           Active, err_dom = 1 => phase /= Fip + 1, Strobed
    PROVE  ou_state' = ou_state /\ ~NewMatch(in) /\ prep_strobe' = 0
<1>1. ~NewMatch(in)
  BY DEF NewMatch, Active
<1>2. fsm_state /= "ERRF"
  BY DEF Finished, Active
<1>3. ~(err_dom = 1 /\ in.fip_strb = 1)
  BY DEF UnitEdge, Inputs, Strobed
<1> QED
  BY <1>1, <1>2, <1>3 DEF UnitEdge, Matched, GoesOn, GivesUp, Judges

\* A queued bit stays with an active unit, or is withdrawn within the bit.
LEMMA QueuedStep ==
    ASSUME Strobed, Queued, Armed, Finished, awake' = 1, NEW in, UnitEdge(in)
    PROVE  Queued'
<1> USE Phases
<1>1. /\ AwakeEdge /\ Inputs(in) /\ status.eof = 0 /\ phase \in 0 .. BitEdges - 1
      /\ Matched(in) \/ GoesOn(in) \/ GivesUp(in) \/ Judges(in)
      /\ phase' = (IF phase = BitEdges - 1 THEN 0 ELSE phase + 1)
      /\ queue \in {0, 1} /\ queue' \in {0, 1} /\ Level \in {0, 1}
      /\ prep_strobe /= 1 => queue' = (IF ou_state = "OU_DONE" THEN 1 ELSE queue)
  BY DEF UnitEdge, AwakeEdge, Queued, Bit
<1>2. ASSUME queue' = 0
      PROVE  \/ Active' /\ phase' /= 2
             \/ ou_state' = "OU_DONE" /\ phase' \in {0, 2, Fip + 2}
  <2>1. CASE prep_strobe = 1
    <3>1. Active /\ phase \in {2, TreeDepth + 6} /\ late_strobe /= 1
      BY <2>1 DEF Strobed, UnitEdge
    <3>2. ou_state' = ou_state
      BY <3>1, UnitBetween DEF Queued
    <3> QED
      BY <1>1, <3>1, <3>2 DEF Active
  <2>2. CASE prep_strobe /= 1
    <3>1. queue = 0 /\ ou_state /= "OU_DONE"
      BY <1>1, <1>2, <2>2
    <3>2. Active /\ phase /= 2 /\ late_strobe /= 1
      BY <3>1 DEF Queued, UnitEdge
    <3>3. CASE phase = 1
      <4>1. arm = 1 /\ ~NewMatch(in) /\ err_dom /= 1
        BY <3>1, <3>2, <3>3 DEF Queued, Decided, Armed, Active, NewMatch
      <4>2. ou_state' = "OU_DONE"
        BY <1>1, <3>2, <3>3, <4>1 DEF Matched, GoesOn, GivesUp, Judges, UnitEdge, Active
      <4> QED
        BY <1>1, <3>3, <4>2
    <3>4. CASE phase = Fip + 1
      BY <1>1, <3>2, <3>4 DEF Matched, GoesOn, GivesUp, Judges, Active, NewMatch
    <3>5. CASE phase \notin {1, Fip + 1}
      <4>1. ou_state' = ou_state
        BY <3>2, <3>5, UnitBetween
      <4> QED
        BY <1>1, <3>2, <3>5, <4>1 DEF Active
    <3> QED
      BY <3>3, <3>4, <3>5
  <2> QED
    BY <2>1, <2>2
<1>3. ASSUME Active' PROVE NewMatch(in) \/ (Active /\ ou_state' = ou_state)
  BY <1>1, <1>3 DEF Matched, GoesOn, GivesUp, Judges, Active
<1>4. ASSUME Active', queue' = 0, Decided'
      PROVE  arm' = 1 \/ err_dom' = 1
  <2>1. ~NewMatch(in)
    BY <1>1, <1>4 DEF UnitEdge
  <2>2. prep_strobe /= 1
    BY <1>1, <1>4 DEF Strobed, Decided
  <2>3. queue = 0 /\ Active /\ ou_state' /= "OU_DONE"
    BY <1>1, <1>3, <1>4, <2>1, <2>2 DEF Active
  <2>4. CASE phase = Psp
    BY <1>1, <2>1, <2>3, <2>4 DEF UnitEdge
  <2>5. CASE phase /= Psp
    <3>1. Decided
      BY <1>1, <1>4, <2>5 DEF Decided
    <3> QED
      BY <2>1, <2>3, <2>5, <3>1 DEF UnitEdge, Queued
  <2> QED
    BY <2>4, <2>5
<1>5. ASSUME Active', err_dom' = 1
      PROVE  phase' \in Psp + 1 .. Fip + 1
  <2>1. CASE NewMatch(in)
    <3>1. phase /= Psp
      BY <2>1 DEF UnitEdge
    <3> QED
      BY <1>5, <2>1, <3>1 DEF UnitEdge, Active
  <2>2. CASE ~NewMatch(in)
    <3>1. Active /\ ou_state' = ou_state /\ ou_state' /= "OU_DONE"
      BY <1>3, <1>5, <2>2 DEF Active
    <3>2. CASE phase = Psp
      BY <1>1, <3>2
    <3>3. CASE phase /= Psp
      <4>1. err_dom = 1
        BY <1>5, <2>2, <3>1, <3>3 DEF UnitEdge
      <4>2. phase \in Psp + 1 .. Fip + 1
        BY <3>1, <4>1 DEF Queued
      <4>3. phase /= Fip + 1
        <5>1. SUFFICES ASSUME phase = Fip + 1 PROVE FALSE
          OBVIOUS
        <5>2. in.fip_strb = 1 /\ late_strobe /= 1 /\ phase /= 1
          BY <1>1, <5>1 DEF Inputs, Strobed, UnitEdge
        <5> QED
          BY <1>1, <2>2, <3>1, <4>1, <5>2 DEF Matched, GoesOn, GivesUp, Judges, Active, UnitEdge
      <4> QED
        BY <1>1, <4>2, <4>3
    <3> QED
      BY <3>2, <3>3
  <2> QED
    BY <2>1, <2>2
<1> QED
  BY <1>1, <1>2, <1>4, <1>5 DEF Queued, Bit

\* A unit that acts does so for the slot that the identifier asks for, and a
\* request outlives the edge.
LEMMA AskedStep ==
    ASSUME BusTypes, BusInv, ChainInv, UnitInv, awake = 1, awake' = 1, CoreNext,
           Active \/ can_tx = 0
    PROVE  id_ready' = 1 /\ Asked'
<1>1. PICK a \in 0 .. Evaluated : AgeOk(a) /\ ChainAt(a)
  BY DEF ChainInv
<1>2. Receiver /\ (can_tx = 0 => id_ready = 1 /\ Asked)
  BY DEF UnitInv, Armed
<1>3. PICK b \in 0 .. Evaluated : Older(a, b)
  BY <1>1, <1>2, AgeStep
<1>4. Active => a > MatchAge /\ Asked
  BY <1>1 DEF ChainAt, OverrideAt, Active
<1>5. id_ready = 1 /\ Asked
  <2>1. id_ready \in {0, 1} /\ a \in Int
    BY DEF BusTypes, TypeOK, ParserTypeOK, Bit, Evaluated
  <2> QED
    BY <1>1, <1>2, <1>4, <2>1, Phases DEF AgeOk, MatchAge
<1> QED
  BY <1>3, <1>5 DEF Older, Asked, Hitting

\* While the injector drives, the parser has read its dominant level.
LEMMA SampleHeld ==
    ASSUME BusTypes, BusInv, awake = 1, awake' = 1, AwakeEdge, can_tx = 0, id_ready = 1
    PROVE  sample_buf' = (IF phase = 0 THEN 0 ELSE sample_buf)
<1>1. status.eof = 0 /\ phase \in 0 .. BitEdges - 1
  BY DEF BusTypes, TypeOK, ParserTypeOK, Statuses, Bit, AwakeEdge
<1>2. fsm_state /= "SLEEP"
  BY <1>1 DEF BusInv, Framing, Broken, Receiving, Following, Entering, Starting, Clean,
     Leaving, Done
<1>3. Level = 0
  BY DEF Level
<1> QED
  BY <1>2, <1>3, ParserSamples, ParserBetween DEF AwakeEdge

\* The injector drives for an armed unit only, from the FIP to the boundary.
LEMMA ArmedStep ==
    ASSUME BusTypes, BusInv, ChainInv, UnitInv, awake = 1, awake' = 1, CoreNext,
           NEW in, UnitEdge(in)
    PROVE  Armed'
<1> USE Phases
<1>1. /\ AwakeEdge /\ status.eof = 0 /\ phase \in 0 .. BitEdges - 1
      /\ Matched(in) \/ GoesOn(in) \/ GivesUp(in) \/ Judges(in)
      /\ phase' = (IF phase = BitEdges - 1 THEN 0 ELSE phase + 1)
      /\ queue \in {0, 1} /\ queue' \in {0, 1} /\ Level \in {0, 1} /\ arm \in {0, 1}
      /\ prep_strobe /= 1 => queue' = (IF ou_state = "OU_DONE" THEN 1 ELSE queue)
      /\ Strobed /\ Queued /\ Armed /\ Finished /\ can_tx \in {0, 1}
  BY DEF UnitEdge, AwakeEdge, UnitInv, Queued, Armed, Bit, BusTypes
<1>2. arm' \in {0, 1}
  BY <1>1 DEF UnitEdge
\* An armed unit stays armed until the sample of the bit.
<1>3. ASSUME arm = 1
      PROVE  /\ Active /\ queue = 0 /\ Decided /\ err_dom /= 1 /\ phase /= Psp
             /\ prep_strobe /= 1 /\ ~NewMatch(in) /\ late_strobe /= 1
             /\ phase = 1 => ou_state' = "OU_DONE"
             /\ phase /= 1 => ou_state' = ou_state /\ arm' = 1 /\ err_dom' /= 1
  <2>1. Active /\ queue = 0 /\ Decided /\ err_dom /= 1
    BY <1>1, <1>3 DEF Armed
  <2>2. ~NewMatch(in) /\ late_strobe /= 1
    BY <2>1 DEF NewMatch, Active, UnitEdge
  <2>3. phase = 1 => ou_state' = "OU_DONE"
    BY <1>1, <1>3, <2>1, <2>2
    DEF Matched, GoesOn, GivesUp, Judges, UnitEdge, Active
  <2>4. phase /= Psp
    <3>1. SUFFICES ASSUME phase = Psp PROVE FALSE
      OBVIOUS
    <3> QED
      BY <1>1, <2>1, <3>1 DEF Decided
  <2>5. prep_strobe /= 1
    BY <1>1, <2>1 DEF Strobed
  <2>6. ASSUME phase /= 1 PROVE ou_state' = ou_state /\ arm' = 1 /\ err_dom' /= 1
    <3>1. ou_state' = ou_state
      BY <1>1, <2>1, <2>2, <2>6, UnitBetween
    <3> QED
      BY <1>3, <2>1, <2>2, <2>4, <3>1 DEF UnitEdge, Active
  <2> QED
    BY <2>1, <2>2, <2>3, <2>4, <2>5, <2>6
<1>4. ASSUME arm' = 1
      PROVE  Active' /\ queue' = 0 /\ Decided' /\ err_dom' /= 1
  <2>1. ou_state' /= "OU_DONE"
    BY <1>4 DEF UnitEdge
  <2>2. CASE phase = Psp
    <3>1. queue = 0 /\ Level = 1
      BY <1>1, <1>4, <2>1, <2>2 DEF UnitEdge
    <3>2. Active /\ prep_strobe /= 1 /\ late_strobe /= 1 /\ err_dom /= 1
      BY <1>1, <2>2, <3>1 DEF Queued, Strobed, UnitEdge
    <3>3. ou_state' = ou_state /\ ~NewMatch(in)
      BY <1>1, <2>2, <3>2, UnitBetween
    <3> QED
      BY <1>1, <2>1, <2>2, <3>1, <3>2, <3>3 DEF UnitEdge, Active, Decided
  <2>3. CASE phase /= Psp
    <3>1. arm = 1
      BY <1>4, <2>1, <2>3 DEF UnitEdge
    <3>2. phase /= 1 /\ ou_state' = ou_state /\ err_dom' /= 1
      BY <1>3, <2>1, <3>1
    <3>3. Active' /\ queue' = 0
      BY <1>1, <1>3, <3>1, <3>2 DEF Active
    <3>4. Decided'
      BY <1>1, <1>3, <3>1, <3>2 DEF Decided
    <3> QED
      BY <3>2, <3>3, <3>4
  <2> QED
    BY <2>2, <2>3
<1>5. can_tx' = (IF phase = Boundary THEN 1 ELSE IF phase = Fip THEN 1 - arm ELSE can_tx)
  BY <1>1 DEF AwakeEdge, Not
<1>6. ASSUME arm' = 1, Driving'
      PROVE  can_tx' = 0
  <2>1. phase /= Psp /\ phase /= Boundary
    BY <1>1, <1>6 DEF Driving
  <2>2. arm = 1
    BY <1>6, <2>1 DEF UnitEdge
  <2>3. phase /= 1
    BY <1>3, <1>6, <2>2 DEF UnitEdge
  <2>4. phase = Fip \/ Driving
    BY <1>1, <1>6, <2>3 DEF Driving
  <2> QED
    BY <1>1, <1>5, <2>1, <2>2, <2>4 DEF Armed
<1>7. ASSUME can_tx' = 0
      PROVE  /\ phase' \in 2 .. Boundary \/ (Driving' /\ arm' = 1)
             /\ Active \/ can_tx = 0
  <2>1. phase /= Boundary
    BY <1>5, <1>7
  <2>2. CASE phase = Fip
    <3>1. arm = 1
      BY <1>1, <1>5, <1>7, <2>2
    <3> QED
      BY <1>1, <1>3, <2>2, <3>1 DEF Driving
  <2>3. CASE phase /= Fip
    <3>1. can_tx = 0
      BY <1>5, <1>7, <2>1, <2>3
    <3>2. CASE phase \in 2 .. Boundary
      BY <1>1, <2>1, <3>1, <3>2
    <3>3. CASE Driving /\ arm = 1
      <4>1. CASE phase = 1
        BY <1>1, <3>1, <4>1
      <4>2. CASE phase /= 1
        BY <1>1, <1>3, <3>1, <3>3, <4>2 DEF Driving
      <4> QED
        BY <4>1, <4>2
    <3> QED
      BY <1>1, <3>1, <3>2, <3>3 DEF Armed
  <2> QED
    BY <2>2, <2>3
<1>8. ASSUME can_tx' = 0, phase' \in 1 .. Boundary
      PROVE  sample_buf' = 0
  <2>1. phase \in 0 .. Boundary - 1 /\ can_tx = 0
    BY <1>1, <1>5, <1>8
  <2>2. sample_buf' = (IF phase = 0 THEN 0 ELSE sample_buf)
    BY <1>1, <2>1, SampleHeld DEF Armed
  <2> QED
    BY <1>1, <2>1, <2>2 DEF Armed
<1>9. can_tx' = 0 => id_ready' = 1 /\ Asked'
  BY <1>7, AskedStep
<1> QED
  BY <1>2, <1>4, <1>6, <1>7, <1>8, <1>9 DEF Armed, Bit

\* What a sample does to the states at the end of the frame.
LEMMA TailSampled ==
    ASSUME NEW s, Clock(1, s, 0), fsm_state /= "SLEEP"
    PROVE  /\ fsm_state' = "AWAIT_EOF" => fsm_state \in {"ERRF", "AWAIT_EOF"}
           /\ fsm_state' = "EOF" =>
                 \/ fsm_state = "CRC" /\ fsm_cnt' = 0
                 \/ fsm_state = "EOF" /\ fsm_cnt' \in {fsm_cnt, fsm_cnt + 1}
           /\ status'.eof = 1 =>
                 fsm_state = "AWAIT_EOF" \/ (fsm_state = "EOF" /\ fsm_cnt = 8 /\ s = 1)
<1>1. CASE ParserStuffError(1, s)
  BY <1>1 DEF ParserStuffError, GoTo, NoStatus
<1>2. CASE SkipStuffBit(s)
  BY <1>2 DEF SkipStuffBit, NoStatus
<1>3. CASE ParseBit(s)
  <2>1. CASE ArbitrationBit(s) \/ ArbitrationEnd(s)
    BY <2>1 DEF ArbitrationBit, ArbitrationEnd, GoTo, NoStatus
  <2>2. CASE FdfBit(s) \/ ReservedBit \/ BrsOrEsiBit \/ DlcBit(s)
    BY <2>2 DEF FdfBit, ReservedBit, BrsOrEsiBit, DlcBit, GoTo, NoStatus
  <2>3. CASE LastDlcBit(s) \/ DataBit \/ StuffCountBit
    BY <2>3 DEF LastDlcBit, DataBit, StuffCountBit, GoTo, EnterCrc, NoStatus
  <2>4. CASE CrcBit
    BY <2>4 DEF CrcBit, GoTo, NoStatus
  <2>5. CASE TailBit(s)
    BY <2>5 DEF TailBit, GoTo, NoStatus
  <2>6. CASE LastTailBit(s)
    BY <2>6 DEF LastTailBit, GoTo, NoStatus
  <2>7. CASE ErrorFlagBit(s) \/ AwaitEofBit(s)
    BY <2>7 DEF ErrorFlagBit, AwaitEofBit, GoTo, NoStatus
  <2> QED
    BY <1>3, <2>1, <2>2, <2>3, <2>4, <2>5, <2>6, <2>7 DEF ParseBit
<1> QED
  BY <1>1, <1>2, <1>3 DEF Clock, ParserClock, ParserSleep, Asleep

\* Between two samples the states stay, but for the first edge of a frame.
LEMMA TailBetween ==
    ASSUME BusTypes, BusInv, awake = 1, awake' = 1, AwakeEdge, phase /= 0
    PROVE  /\ UNCHANGED << fsm_state, fsm_cnt >> \/ fsm_state' = "ABIT"
           /\ status'.eof = 0
<1>1. status.eof = 0
  BY DEF BusTypes, TypeOK, ParserTypeOK, Statuses, Bit, AwakeEdge
<1>2. Clock(0, Level, 0)
  BY DEF AwakeEdge
<1>3. CASE fsm_state = "SLEEP"
  BY <1>2, <1>3 DEF Clock, ParserClock, Asleep, ParserSleep, GoTo, NoStatus
<1>4. CASE fsm_state /= "SLEEP"
  BY <1>1, <1>2, <1>4, ParserBetween
<1> QED
  BY <1>3, <1>4

\* The window for fixed stuff bits closes with the CRC.
LEMMA BsfxWindowClosed ==
    ASSUME NEW in, Judges(in), ou_state = "OU_BSFX", BsfxWindow = "EOF"
    PROVE  ou_state' = "OU_DONE"
<1>1. After("EOF", "CRC")
  BY DEF After, FsmPos, FsmStates, FsmOrder
<1>2. Verdict(in) \in {"Stop", "Miss"}
  BY <1>1 DEF Verdict, BsfxVerdict
<1> QED
  BY <1>2 DEF Judges, OuSample

\* The end of a frame, and an error flag, find the unit done.
LEMMA FinishedStep ==
    ASSUME BusTypes, BusInv, ChainInv, UnitInv, awake = 1, awake' = 1, CoreNext,
           NEW in, UnitEdge(in)
    PROVE  Finished'
<1> USE Phases
<1>1. /\ AwakeEdge /\ status.eof = 0 /\ phase \in 0 .. BitEdges - 1
      /\ Matched(in) \/ GoesOn(in) \/ GivesUp(in) \/ Judges(in)
      /\ phase' = (IF phase = BitEdges - 1 THEN 0 ELSE phase + 1)
      /\ queue \in {0, 1} /\ queue' \in {0, 1} /\ Level \in {0, 1} /\ arm \in {0, 1}
      /\ prep_strobe /= 1 => queue' = (IF ou_state = "OU_DONE" THEN 1 ELSE queue)
      /\ Strobed /\ Queued /\ Armed /\ Finished /\ can_tx \in {0, 1}
      /\ fsm_cnt \in Nat
  BY DEF UnitEdge, AwakeEdge, UnitInv, Queued, Armed, Bit, BusTypes, TypeOK, ParserTypeOK
<1>2. CASE phase = 0
  <2>1. Clock(1, Level, 0) /\ fsm_state /= "SLEEP" /\ phase' = 1
    BY <1>1, <1>2
    DEF AwakeEdge, BusInv, Framing, Broken, Receiving, Following, Entering, Leaving, Done
  <2>2. /\ ~NewMatch(in) /\ late_strobe /= 1 /\ sample_ready /= 1
        /\ prep_strobe /= 1 /\ err_dom = 1 => ~Active
    BY <1>1, <1>2 DEF UnitEdge, Strobed, Queued
  <2>3. prep_strobe /= 1
    BY <1>1, <1>2 DEF Strobed
  <2>4. /\ ou_state' \in {ou_state, "OU_DONE"}
        /\ UNCHANGED << bsfx_shift, shadow_state >>
    BY <1>1, <2>2 DEF Matched, GoesOn, GivesUp, Judges
  <2>5. fsm_state' = "AWAIT_EOF" => ou_state' = "OU_DONE"
    BY <1>1, <1>2, <2>1, <2>4, TailSampled DEF Finished
  <2>6. ASSUME ou_state' = "OU_BSFX", fsm_state' = "EOF"
        PROVE  \/ fsm_cnt' = 0
               \/ fsm_cnt' = 1 /\ (bsfx_shift' = 1 => shadow_state' = "EOF")
    <3>1. ou_state = "OU_BSFX"
      BY <2>4, <2>6
    <3>2. CASE fsm_state = "EOF"
      <4>1. fsm_cnt = 0 /\ (bsfx_shift = 1 => shadow_state = "EOF")
        BY <1>1, <1>2, <3>1, <3>2 DEF Finished
      <4>2. fsm_cnt' \in {fsm_cnt, fsm_cnt + 1}
        BY <2>1, <2>6, <3>2, TailSampled
      <4> QED
        BY <2>4, <4>1, <4>2
    <3>3. CASE fsm_state /= "EOF"
      BY <2>1, <2>6, <3>3, TailSampled
    <3> QED
      BY <3>2, <3>3
  <2>7. ASSUME status'.eof = 1
        PROVE  queue' = 1 /\ can_tx' = 1 /\ ou_state' /= "OU_BSFX"
    <3>1. fsm_state = "AWAIT_EOF" \/ (fsm_state = "EOF" /\ fsm_cnt = 8 /\ Level = 1)
      BY <2>1, <2>7, TailSampled
    <3>2. ou_state /= "OU_BSFX"
      BY <1>1, <1>2, <3>1 DEF Finished
    <3>3. fsm_state = "AWAIT_EOF" => ~Active
      BY <1>1, <3>1 DEF Finished, Active
    <3>4. can_tx = 1
      <4>1. can_tx = 0 => Driving /\ arm = 1 /\ Active
        BY <1>1, <1>2 DEF Armed
      <4>2. Level = 1 => can_tx = 1
        BY DEF Level
      <4> QED
        BY <1>1, <3>1, <3>3, <4>1, <4>2
    <3>5. queue' = 1
      <4>1. SUFFICES ASSUME queue = 0, ou_state /= "OU_DONE" PROVE FALSE
        BY <1>1, <2>3
      <4>2. Active /\ arm = 1
        BY <1>1, <1>2, <4>1 DEF Queued, Decided
      <4> QED
        BY <1>1, <1>2, <3>4, <4>2 DEF Armed, Driving
    <3>6. can_tx' = 1
      BY <1>1, <1>2, <3>4 DEF AwakeEdge
    <3> QED
      BY <2>4, <3>2, <3>5, <3>6
  <2> QED
    BY <2>1, <2>5, <2>6, <2>7 DEF Finished
<1>3. CASE phase /= 0
  <2>1. /\ UNCHANGED << fsm_state, fsm_cnt >> \/ fsm_state' = "ABIT"
        /\ status'.eof = 0
    BY <1>1, <1>3, TailBetween
  <2>2. phase' /= 1
    BY <1>1, <1>3
  <2>3. fsm_state = "ERRF" => ou_state' = "OU_DONE"
    BY <1>1 DEF Matched, NewMatch, GoesOn, GivesUp, Judges
  <2>4. fsm_state = "AWAIT_EOF" => ou_state' = "OU_DONE"
    BY <1>1 DEF Finished, Matched, NewMatch, GoesOn, GivesUp, Judges
  <2>5. ASSUME ou_state' = "OU_BSFX", fsm_state' = "EOF"
        PROVE  fsm_cnt' = 0 /\ bsfx_shift' = 1 /\ shadow_state' = "EOF"
    <3>1. fsm_state = "EOF" /\ fsm_cnt' = fsm_cnt
      BY <2>1, <2>5
    <3>2. ~NewMatch(in) /\ late_strobe /= 1
      BY <3>1 DEF UnitEdge
    <3>3. ou_state = "OU_BSFX"
      BY <1>1, <2>5, <3>2 DEF Matched, GoesOn, GivesUp, Judges
    <3>4. CASE phase = 1
      <4>1. Judges(in)
        BY <1>1, <2>5, <3>2, <3>4 DEF Matched, GoesOn, GivesUp, UnitEdge, NewMatch
      <4>2. shadow_state' = "EOF"
        BY <3>1, <4>1 DEF Judges
      <4>3. ~(bsfx_shift /= 1 \/ shadow_state = "EOF")
        BY <2>5, <3>1, <3>3, <4>1, BsfxWindowClosed DEF BsfxWindow
      <4>4. fsm_cnt = 0
        BY <1>1, <3>1, <3>3, <3>4, <4>3 DEF Finished
      <4> QED
        BY <3>1, <4>1, <4>2, <4>3, <4>4 DEF Judges
    <3>5. CASE phase /= 1
      <4>1. bsfx_shift = 1 /\ shadow_state = "EOF" /\ fsm_cnt = 0
        BY <1>1, <3>1, <3>3, <3>5 DEF Finished
      <4>2. UNCHANGED << bsfx_shift, shadow_state >>
        BY <1>1, <3>2, <3>5 DEF Matched, GoesOn, GivesUp, Judges, UnitEdge
      <4> QED
        BY <3>1, <4>1, <4>2
    <3> QED
      BY <3>4, <3>5
  <2> QED
    BY <2>1, <2>2, <2>3, <2>4, <2>5 DEF Finished
<1> QED
  BY <1>2, <1>3

\* All parts of the unit's invariant are kept by every edge of a frame in which
\* no override is picked up.
LEMMA UnitStep ==
    ASSUME BusTypes, BusInv, ChainInv, UnitInv, awake = 1, CoreNext
    PROVE  /\ Receiver'
           /\ awake' = 1 => Strobed' /\ Queued' /\ Armed' /\ Finished'
<1>1. PICK in : UnitEdge(in)
  BY UnitEdges
<1>2. Receiver'
  BY <1>1 DEF UnitEdge
<1>3. ASSUME awake' = 1 PROVE Strobed' /\ Queued' /\ Armed' /\ Finished'
  BY <1>1, <1>3, StrobedStep, QueuedStep, ArmedStep, FinishedStep DEF UnitInv
<1> QED
  BY <1>2, <1>3

-----------------------------------------------------------------------------
(* Between the frames *)

\* The edge after eof_stat: nothing is left queued, armed or on the bus.
LEMMA FallAsleep ==
    ASSUME BusTypes, BusInv, ChainInv, UnitInv, awake = 1, awake' /= 1, CoreNext
    PROVE  AsleepInv' /\ BusTypes' /\ awake' = 0
<1> USE Phases
<1>1. PICK in : UnitEdge(in)
  BY UnitEdges
<1>2. BusTypes'
  BY BusTypesStep DEF UnitInv, Armed
<1>3. status.eof = 1 /\ awake' = 0 /\ phase' = 0
  BY <1>1 DEF UnitEdge, AwakeEdge
<1>4. phase = 1
  BY <1>3 DEF BusInv, Framing, Broken, Receiving, Following, Entering, Starting, Clean,
     Leaving, NoStatus
<1>5. queue = 1 /\ can_tx = 1 /\ ou_state /= "OU_BSFX" /\ arm = 0 /\ prep_strobe /= 1
  BY <1>3, <1>4 DEF UnitInv, Finished, Armed, Strobed, Bit
<1>6. ~NewMatch(in) /\ ou_state' \in {ou_state, "OU_DONE"}
  BY <1>1, <1>4 DEF UnitEdge, Matched, GoesOn, GivesUp, Judges
<1>7. queue' = 1 /\ arm' = 0
  BY <1>1, <1>4, <1>5 DEF UnitEdge
<1>8. can_tx' = 1 /\ fip_strb' = 0
  BY <1>1, <1>4, <1>5 DEF UnitEdge, AwakeEdge
<1> QED
  BY <1>2, <1>3, <1>5, <1>6, <1>7, <1>8 DEF AsleepInv

\* What Units is between the frames: every unit at rest.
LEMMA UnitsAsleep ==
    ASSUME ou_state \in OuStates \ {"OU_DLC", "OU_DATA_CRC"}, Units(1, 0, 0, 0),
           ou_state /= "OU_BSFX"
    PROVE  /\ Clock(0, Level, 1) /\ UNCHANGED id_mem
           /\ \A n \in Nodes : node'[n] = NodeReset
           /\ << fi_frame_ready, data_vector_ready, fi_parsed >>' = << 0, 0, 0 >>
           /\ ram_read_state' = "AWAIT_MATCH" /\ mem_rd_latency' = 0
           /\ << prep_strobe, xcvr_prep, late_strobe, bsfx_shift, bs_cnt >>'
                = << 0, 0, 0, 0, 0 >>
           /\ << xcvr_req, subst, stage_iii >>' = << 0, 0, 0 >>
           /\ queue' = queue /\ arm' = 0
           /\ ou_state' = (IF ou_state \in {"OU_BIT", "OU_BSDY"} THEN "OU_DONE"
                           ELSE "OU_AWAIT_FI")
           /\ ou_state = "OU_AWAIT_FI" => interrupt_req' = 0
<1>1. Clock(0, Level, 1) /\ UNCHANGED id_mem
      /\ MuClock(1, id_buffer, id_ready, 0, NoHostWrite, interrupt_req, 0)
  BY DEF Units
<1>2. /\ \A n \in Nodes : node'[n] = NodeReset
      /\ fi_frame_ready' = 0 /\ data_vector_ready' = 0
      /\ ram_read_state' = "AWAIT_MATCH" /\ mem_rd_latency' = 0
  BY <1>1 DEF MuClock, ChildNodeIntegrate, ExtractFiFrame, WriteRamToBuffer, ReadSleep
<1>3. PICK in : OuClock(in) /\ in.sleep = 1
  <2>1. PICK d \in DataBits :
          OuClock([sleep |-> 1, fi |-> fi_frame, fi_ready |-> fi_frame_ready,
                   vec_ready |-> data_vector_ready, data |-> d, psp |-> Level,
                   psp_strb |-> 0, fip_strb |-> fip_strb, xcvr_strb |-> 0])
    BY DEF Units
  <2> QED
    BY <2>1
<1>4. fi_parsed' = 0
  BY <1>3 DEF OuClock, ParseFiFrame
<1>5. OuSleep
  BY <1>3 DEF OuClock, OuStateMachine, NewMatch
<1>6. NoPrep(in)
  BY <1>3 DEF OuClock, PrepOverride
<1>7. arm' = 0
  BY <1>3 DEF OuClock, ArmInjection
<1> QED
  BY <1>1, <1>2, <1>3, <1>4, <1>5, <1>6, <1>7
  DEF OuSleep, NoStrobe, NoPrep, VectorIndex, QueueAtRest, OuStates

\* An edge between two frames clears what the frame before has left.
LEMMA SleepStep ==
    ASSUME BusTypes, ou_state \in OuStates \ {"OU_DLC", "OU_DATA_CRC"}, AsleepInv,
           SleepEdge
    PROVE  BusTypes' /\ Receiver' /\ AsleepInv' /\ awake' = 0
<1> USE Phases
<1>1. /\ awake = 0 /\ awake' = 0 /\ Units(1, 0, 0, 0) /\ can_tx' = 1 /\ xcvr_mode' = 0
      /\ fip_strb' = 0 /\ sent' = 1 /\ phase \in 0 .. BitEdges - 1
      /\ phase' = (IF phase < BitEdges - 1 THEN phase + 1 ELSE phase)
      /\ queue = 1 /\ ou_state /= "OU_BSFX" /\ 0 \in Bit /\ 1 \in Bit
  BY DEF SleepEdge, AsleepInv, BusTypes, Bit
<1>2. TypeOK' /\ GroupOpen' /\ id_mem' = id_mem
  BY <1>1, UnitsAsleep, ClockTypes, LevelTypes DEF BusTypes
<1>3. BusTypes'
  BY <1>1, <1>2 DEF BusTypes
<1>4. Receiver'
  BY <1>1, UnitsAsleep DEF Receiver, OuStates
<1>5. AsleepInv'
  <2>1. /\ phase' >= 2 => ou_state \in {"OU_AWAIT_FI", "OU_DONE"}
        /\ phase' >= 3 => ou_state = "OU_AWAIT_FI"
    BY <1>1 DEF AsleepInv
  <2> QED
    BY <1>1, <2>1, UnitsAsleep DEF AsleepInv
<1> QED
  BY <1>1, <1>3, <1>4, <1>5

\* The wake-up finds everything at rest, and the sender at its SOF.
LEMMA WakeUpStep ==
    ASSUME BusTypes, Receiver, AsleepInv, WakeUp
    PROVE  BusTypes' /\ BusInv' /\ ChainInv' /\ UnitInv' /\ awake' = 1
<1> USE Phases
<1>1. /\ awake = 0 /\ awake' = 1 /\ Units(1, 0, 0, 0) /\ can_tx' = 1 /\ xcvr_mode' = 0
      /\ fip_strb' = 0 /\ sent' = 1 /\ phase' = Boundary /\ StartFrame /\ mode' = "frame"
      /\ queue = 1 /\ ou_state = "OU_AWAIT_FI" /\ 0 \in Bit /\ 1 \in Bit
      /\ TreeDepth + 7 = Evaluated
  BY DEF WakeUp, AsleepInv, BusTypes, Receiver, Bit, Evaluated
<1>2. Clock(0, Level, 1) /\ TypeOK' /\ GroupOpen' /\ id_mem' = id_mem
  BY <1>1, UnitsAsleep, ClockTypes, LevelTypes DEF BusTypes, Receiver
<1>3. BusTypes'
  BY <1>1, <1>2 DEF BusTypes
<1>4. Starting'
  BY <1>2, PhaseOfWakeUp, LevelTypes
<1>5. BusInv'
  <2>1. Entering'
    BY <1>1, <1>4 DEF Entering, StartFrame
  <2>2. TxInv'
    BY <1>1, SenderStarts
  <2>3. << destuff_strobe, dlc_ready, sample_ready >>' = << 0, 0, 0 >>
    BY <1>2, SampleStrobes
  <2> QED
    BY <1>1, <2>1, <2>2, <2>3 DEF BusInv, Framing
<1>6. id_ready' = 0 /\ fsm_state' = "SLEEP" /\ status'.eof = 0
  BY <1>4 DEF Starting, Clean, NoStatus
<1>7. ChainInv'
  <2>1. TreeOf(node', Hitting', 0)
    BY <1>1, UnitsAsleep, TreeCleared DEF Receiver
  <2>2. MemoryAt(0)'
    BY <1>1, <2>1, UnitsAsleep
    DEF MemoryAt, FetchAt, MatchAge, TreeOf, Reports, Under, Width, First, Receiver
  <2>3. OverrideAt(0)'
    BY <1>1, UnitsAsleep DEF OverrideAt, MatchAge, Receiver
  <2>4. AgeOk(0)'
    BY <1>6 DEF AgeOk
  <2> QED
    BY <1>1, <2>2, <2>3, <2>4 DEF ChainInv, ChainAt, Evaluated
<1>8. UnitInv'
  <2>1. Receiver'
    BY <1>1, UnitsAsleep DEF Receiver, OuStates
  <2>2. Plain' /\ Strobed' /\ Queued' /\ Armed' /\ Finished'
    BY <1>1, <1>6, UnitsAsleep
    DEF Plain, Strobed, Queued, Armed, Finished, Active, Bit, Receiver
  <2> QED
    BY <2>1, <2>2 DEF UnitInv
<1> QED
  BY <1>1, <1>3, <1>5, <1>7, <1>8

\* A reset is a start between two frames.
LEMMA ResetStep ==
    ASSUME BusTypes, AsleepInv, ResetEdge
    PROVE  BusTypes' /\ Receiver' /\ AsleepInv' /\ awake' = 0
<1>1. /\ awake' = 0 /\ phase' = 0 /\ can_tx' = 1 /\ xcvr_mode' = 0 /\ fip_strb' = 0
      /\ UNCHANGED << id_mem, sent >> /\ OuReset
  BY DEF ResetEdge, busVars
<1>2. TypeOK' /\ GroupOpen'
  BY ResetTypes DEF ResetEdge, BusTypes
<1>3. BusTypes'
  BY <1>1, <1>2, Phases DEF BusTypes, Bit
<1> QED
  BY <1>1, <1>3 DEF OuReset, Receiver, OuStates, AsleepInv
-----------------------------------------------------------------------------
(* The invariant *)

\* The core starts at rest.
LEMMA CoreInitInv == CoreInit => CoreInv
<1> SUFFICES ASSUME CoreInit PROVE CoreInv
  OBVIOUS
<1>1. awake = 0 /\ phase = 0
  BY DEF CoreInit
<1>2. BusTypes
  <2>1. 0 \in 0 .. IdModulus - 1
    BY WidthsAssumption
  <2>2. TypeOK /\ GroupOpen
    BY <2>1, FsmStateNames, StatusTypes
    DEF CoreInit, Init, TypeOK, ParserTypeOK, DestuffTypeOK, GroupOpen, BsStates, Bit
  <2> QED
    BY <2>2, Phases DEF CoreInit, BusTypes, Bit
<1>3. UnitInv /\ AsleepInv
  BY <1>1 DEF CoreInit, OuInit, UnitInv, Receiver, OuStates, AsleepInv
<1> QED
  BY <1>1, <1>2, <1>3 DEF CoreInv, BusInv, ChainInv

\* So does a stuttering step, each part by itself.
LEMMA PartsStutter ==
    ASSUME UNCHANGED coreVars
    PROVE  /\ BusTypes => BusTypes'
           /\ BusInv => BusInv'
           /\ ChainInv => ChainInv'
           /\ UnitInv => UnitInv'
           /\ AsleepInv => AsleepInv'
           /\ Plain' <=> Plain
<1>1. /\ UNCHANGED << fsm_state, fsm_cnt, fd_mode, ext_id, id_ready, id_buffer >>
      /\ UNCHANGED << dlc_ready, dlc_buffer, bs_disable, bs_crc_mode, sample_buf >>
      /\ UNCHANGED << sample_ready, destuff_strobe, status, data_width, crc_width >>
      /\ UNCHANGED << bs_state, bs_insert, bs_last, bs_run, bs_crc_cnt >>
      /\ UNCHANGED << field, pos, format, id, stuff, last, run, group >>
  BY DEF coreVars, fsmVars, parserVars, dlcVars, bsVars, busVars, txVars
<1>2. /\ UNCHANGED << phase, awake, can_tx, xcvr_mode, fip_strb, sent, mode, id_mem >>
      /\ UNCHANGED << node, fi_frame, fi_frame_ready, data_vector_ready, ram_read_state >>
      /\ UNCHANGED mem_rd_latency
      /\ UNCHANGED << ou_state, fi_parsed, fi_can_field, prep_strobe, xcvr_prep >>
      /\ UNCHANGED << late_strobe, shadow_state, bsfx_shift, interrupt_req >>
      /\ UNCHANGED << queue, bs_cnt, xcvr_req, subst, stage_iii, arm, err_dom >>
  BY DEF coreVars, timerVars, busVars, muVars, ouVars
<1>3. BusTypes => BusTypes'
  BY <1>1, <1>2 DEF BusTypes, TypeOK, ParserTypeOK, DestuffTypeOK, GroupOpen
<1>4. BusInv => BusInv'
  <2>1. TxInv => TxInv'
    BY <1>1, SenderKeeps DEF txVars
  <2>2. Following => Following'
    BY <1>1 DEF Following, InStep, Clean
  <2>3. (Decoding => Decoding') /\ (Aligned => Aligned') /\ (Announcing => Announcing')
    BY <1>1 DEF Decoding, Aligned, Announcing, ParserState, ParserCount
  <2>4. Destuffing => Destuffing'
    BY <1>1 DEF Destuffing, CaughtUp, Behind, Not
  <2>5. (Entering => Entering') /\ (Done => Done')
    BY <1>1 DEF Entering, Starting, Clean, Done
  <2>6. Framing => Framing'
    BY <1>1, <1>2, <2>2, <2>3, <2>4, <2>5 DEF Framing, Receiving, Leaving
  <2>7. Broken => Broken'
    BY <1>1, <1>2, <2>2, <2>5 DEF Broken
  <2> QED
    BY <1>1, <1>2, <2>1, <2>6, <2>7 DEF BusInv
<1>5. ChainInv => ChainInv'
  <2>1. SUFFICES ASSUME ChainInv, awake = 1 PROVE ChainInv'
    BY <1>2 DEF ChainInv
  <2>2. PICK a \in 0 .. Evaluated : AgeOk(a) /\ ChainAt(a)
    BY <2>1 DEF ChainInv
  <2>3. Hitting' = Hitting /\ (Asked' <=> Asked) /\ Fi' = Fi
    BY <1>1, <1>2 DEF Hitting, Asked, Fi
  <2>4. MemoryAt(a)'
    BY <1>2, <2>2, <2>3
    DEF ChainAt, MemoryAt, FetchAt, MatchAge, Fetched, TreeOf, Reports, Under, Width, First
  <2>5. OverrideAt(a)'
    BY <1>1, <1>2, <2>2, <2>3 DEF ChainAt, OverrideAt, MatchAge, Fetched, Evaluated
  <2>6. AgeOk(a)'
    BY <1>1, <1>2, <2>2 DEF AgeOk
  <2> QED
    BY <2>4, <2>5, <2>6 DEF ChainInv, ChainAt, Evaluated
<1>6. (UnitInv => UnitInv') /\ (Plain' <=> Plain)
  <2>1. (Active' <=> Active) /\ (Decided' <=> Decided) /\ (Driving' <=> Driving)
        /\ (Asked' <=> Asked) /\ (Plain <=> Plain')
    BY <1>1, <1>2 DEF Active, Decided, Driving, Asked, Hitting, Plain, Fi
  <2> QED
    BY <1>1, <1>2, <2>1 DEF UnitInv, Receiver, Strobed, Queued, Armed, Finished
<1>7. AsleepInv => AsleepInv'
  BY <1>1, <1>2 DEF AsleepInv
<1> QED
  BY <1>3, <1>4, <1>5, <1>6, <1>7

-----------------------------------------------------------------------------
(* The one bit *)

\* The bit that parser and sender are at: until the boundary it is still to
\* come, then it is on the bus, as onbus, until its sample.
Upcoming ==
    IF stuff = NoStuff THEN [NoBit EXCEPT !.state = ParserState, !.cnt = ParserCount]
    ELSE [onbus EXCEPT !.kind = IF FixedStuffed THEN "fixed" ELSE "dynamic"]
OnBus == phase > Boundary \/ phase = 0

\* Does it count as one of the slot's stuff bits, after how many of them would it
\* be the slot's target, and how many were there before it.
Adds == IF Counted(Upcoming) THEN 1 ELSE 0
Targets == { n \in Nat : Targeted(Upcoming, n) }
Passed == IF OnBus THEN seen - Adds ELSE seen

\* The unit has not taken the bit into account yet, but will.
Untaken == phase = 1 \/ ou_state = "OU_AWAIT_FI" \/ late_strobe = 1 \/ prep_strobe = 1

BitTypes ==
    /\ onbus \in [state : FsmStates, cnt : Nat, hot : BOOLEAN,
                  kind : {"field", "fixed", "dynamic"}]
    /\ seen \in Nat /\ hits \in Nat

\* A unit that made a bit dominant is done for the frame; only a sender that was
\* overridden falls silent.
HitInv ==
    awake = 1 =>
        /\ hits > 0 => ou_state = "OU_DONE" \/ (phase = 1 /\ arm = 1)
        /\ mode = "silent" => hits > 0
        /\ arm = 1 => sent = 1

\* The ghosts, against the sender's place in the frame.
GhostInv ==
    /\ OnBus => onbus.state = Upcoming.state /\ onbus.cnt = Upcoming.cnt
                /\ onbus.kind = Upcoming.kind
    /\ ~OnBus /\ stuff /= NoStuff => onbus.kind = "field"
    /\ onbus.hot => target = (IF sent = 1 THEN "recessive" ELSE "dominant")
    /\ id_ready = 0 => seen = 0

\* The unit has counted the stuff bits that the slot counts, and has let no
\* target pass.
CountInv ==
    id_ready = 1 /\ Asked /\ (ou_state = "OU_AWAIT_FI" \/ Active) /\ queue = 1 =>
        /\ bs_cnt \in Nat /\ bs_cnt <= Fi.meta
        /\ Untaken => bs_cnt = Passed /\ (OnBus /\ bs_cnt \in Targets => onbus.hot)
        /\ ~Untaken => bs_cnt = Passed + Adds

\* What is queued is the target.
QueueInv ==
    Active /\ queue = 0 => IF OnBus \/ phase = 1 THEN onbus.hot ELSE seen \in Targets

\* What the unit remembers of the parser's states is that of the bit before this.
ShadowInv ==
    /\ Active /\ late_strobe /= 1 =>
          IF phase = 1 THEN onbus.kind = "field" => shadow_state = onbus.state
          ELSE shadow_state = fsm_state
    /\ ou_state = "OU_AWAIT_FI" \/ late_strobe = 1 =>
          /\ shadow_state = "ABIT"
          /\ id_ready = 1 /\ Asked /\ stuff /= NoStuff => onbus.state = "ABIT"
    /\ ou_state = "OU_BSFX" /\ bsfx_shift = 1 =>
          /\ fsm_state \in {"CRC_STF", "CRC", "EOF", "SLEEP"}
          /\ fsm_state \in {"CRC_STF", "CRC"} => shadow_state \in {"CRC_STF", "CRC"}

\* A bit that is prepared is in the slot's field.
PrepInv ==
    prep_strobe = 1 =>
        /\ ou_state = "OU_BIT" => fsm_state = CanField(Fi.field) /\ fsm_cnt = Fi.meta
        /\ ou_state = "OU_BSDY" /\ stuff /= NoStuff => Upcoming.state = CanField(Fi.field)

ExactInv ==
    /\ BitTypes /\ HitInv
    /\ awake = 1 /\ mode = "frame" =>
          GhostInv /\ CountInv /\ QueueInv /\ ShadowInv /\ PrepInv
-----------------------------------------------------------------------------
(* The slot *)

\* The unit acts for the slot that the identifier asks for, from the match on.
LEMMA ActiveSlot ==
    ASSUME BusTypes, BusInv, ChainInv, UnitInv, awake = 1, Active, NEW in, UnitEdge(in)
    PROVE  /\ id_ready = 1 /\ Asked /\ ou_state = ActiveState(Fi.type)
           /\ in.fi = Fi /\ fi_can_field' = CanField(Fi.field)
<1>1. PICK a \in 0 .. Evaluated : AgeOk(a) /\ ChainAt(a)
  BY DEF ChainInv
<1>2. id_ready \in {0, 1} /\ a \in Int /\ TreeDepth \in Nat
  BY Phases DEF BusTypes, TypeOK, ParserTypeOK, Bit, Evaluated
<1>3. a > MatchAge /\ Asked
  BY <1>1 DEF ChainAt, OverrideAt, Active
<1>4. id_ready = 1 /\ a >= TreeDepth + 1
  BY <1>1, <1>2, <1>3 DEF AgeOk, MatchAge
<1>5. ou_state = ActiveState(Fi.type)
  BY <1>1, <1>3 DEF ChainAt, OverrideAt, Active
<1>6. fi_frame_ready = 1 /\ fi_frame = Fi
  BY <1>1, <1>3, <1>4 DEF ChainAt, MemoryAt
<1>7. in.fi = Fi /\ in.sleep = 0 /\ in.fi_ready = 1
  BY <1>6 DEF UnitEdge, Inputs
<1>8. fi_can_field' = CanField(Fi.field)
  BY <1>7 DEF UnitEdge, OuClock, ParseFiFrame
<1> QED
  BY <1>3, <1>4, <1>5, <1>7, <1>8

\* A unit that still awaits its frame when the first sample comes gets none.
LEMMA AwaitsAtSample ==
    ASSUME BusTypes, ChainInv, awake = 1, ou_state = "OU_AWAIT_FI"
    PROVE  /\ id_ready = 1 /\ Asked => phase /= 0
           /\ bsfx_shift = 0 /\ bs_cnt = 0 /\ queue = 1 /\ late_strobe /= 1
<1>1. PICK a \in 0 .. Evaluated : AgeOk(a) /\ ChainAt(a)
  BY DEF ChainInv
<1>2. a \in Int /\ TreeDepth \in Nat /\ Evaluated = TreeDepth + 7
  BY Phases DEF Evaluated
<1>3. ActiveState(Fi.type) /= "OU_AWAIT_FI"
  BY DEF ActiveState
<1>4. ~(a > MatchAge /\ Asked)
  BY <1>1, <1>3 DEF ChainAt, OverrideAt
<1>5. bsfx_shift = 0 /\ bs_cnt = 0 /\ queue = 1 /\ late_strobe /= 1
  BY <1>1, <1>2, <1>4 DEF ChainAt, OverrideAt, MatchAge
<1>6. id_ready = 1 /\ Asked => phase /= 0
  BY <1>1, <1>2, <1>4 DEF AgeOk, MatchAge
<1> QED
  BY <1>5, <1>6
-----------------------------------------------------------------------------
(* The bit ahead, for the sender and for the units *)

\* The bit ahead is a bit of a field, or the stuff bit of the bit before it.
LEMMA BitAhead ==
    ASSUME BitTypes
    PROVE  /\ stuff = NoStuff => /\ Upcoming.kind = "field" /\ Upcoming.state = ParserState
                                 /\ Upcoming.cnt = ParserCount
           /\ stuff /= NoStuff =>
                 /\ Upcoming.kind = (IF FixedStuffed THEN "fixed" ELSE "dynamic")
                 /\ Upcoming.state = onbus.state /\ Upcoming.cnt = onbus.cnt
BY DEF BitTypes, Upcoming, NoBit

\* What the three kinds of slots count and target.
LEMMA SlotKinds ==
    /\ Adds \in {0, 1}
    /\ Adds = 1 <=> \/ Fi.type = "FI_BSFX" /\ Upcoming.kind = "fixed"
                    \/ /\ Fi.type = "FI_BSDY" /\ Upcoming.kind = "dynamic"
                       /\ Upcoming.state = CanField(Fi.field)
    /\ \A n \in Nat : n \in Targets <=>
          \/ Adds = 1 /\ n = Fi.meta
          \/ /\ Fi.type = "FI_BIT" /\ Upcoming.kind = "field"
             /\ Upcoming.state = CanField(Fi.field) /\ Upcoming.cnt = Fi.meta
BY DEF Adds, Targets, Counted, Targeted

\* The state of the unit says which kind the slot is of.
LEMMA KindOfState ==
    ASSUME Active, ou_state = ActiveState(Fi.type)
    PROVE  /\ ou_state = "OU_BIT" <=> Fi.type = "FI_BIT"
           /\ ou_state = "OU_BSDY" <=> Fi.type = "FI_BSDY"
           /\ ou_state = "OU_BSFX" <=> Fi.type = "FI_BSFX"
BY DEF Active, ActiveState

\* Once a bit is parsed, parser and destuffer know the bit ahead: its state and
\* count, and whether it is a stuff bit, and of which kind.
LEMMA Foreseen ==
    ASSUME BusTypes, BusInv, awake = 1, mode = "frame", status.eof = 0, id_ready = 1
    PROVE  /\ Receiving /\ fsm_state = ParserState /\ fsm_cnt = ParserCount
           /\ FixedStuffed => fsm_state \in {"CRC_STF", "CRC"} /\ fd_mode = 1
           /\ phase /= 1 => /\ bs_insert = 1 <=> stuff /= NoStuff
                            /\ InsertFixed <=> stuff /= NoStuff /\ FixedStuffed
                            /\ InsertDynamic <=> stuff /= NoStuff /\ ~FixedStuffed
<1>1. Receiving /\ TypeOK /\ TxInv /\ (phase /= 1 => destuff_strobe = 0)
  BY DEF BusInv, BusTypes, Framing, Leaving, Done, Entering, Starting, Clean
<1>2. Following /\ Aligned /\ Decoding /\ fsm_state = ParserState /\ fsm_cnt = ParserCount
  BY <1>1 DEF Receiving, Aligned
<1>3. ASSUME FixedStuffed
      PROVE  fsm_state \in {"CRC_STF", "CRC"} /\ fd_mode = 1
  <2>1. field \in {"sbc", "crc"} /\ format.fdf = 1
    BY <1>1, <1>3 DEF FixedStuffed, TxInv, TxTypeOK, Present
  <2> QED
    BY <1>2, <2>1 DEF ParserState, Decoding, ToFdf, ToRrs, ToIde
<1>4. ASSUME phase /= 1
      PROVE  /\ bs_insert = 1 <=> stuff /= NoStuff
             /\ InsertFixed <=> stuff /= NoStuff /\ FixedStuffed
             /\ InsertDynamic <=> stuff /= NoStuff /\ ~FixedStuffed
  <2>1. /\ bs_insert = 1 <=> bs_state \in {"INSERT", "CRC_INSERT"}
        /\ bs_state \in {"CRC", "CRC_INSERT"} => FixedStuffed
    BY <1>1, <1>2, <1>4, SameStuffing
  <2>2. bs_insert = 1 <=> stuff /= NoStuff
    BY <1>1, <1>4 DEF Receiving, Destuffing, CaughtUp
  <2>3. FixedStuffed => bs_state /= "INSERT"
    BY <1>2, <1>3 DEF Following, InStep
  <2> QED
    BY <2>1, <2>2, <2>3 DEF InsertFixed, InsertDynamic
<1> QED
  BY <1>1, <1>2, <1>3, <1>4

\* Until the sample, all agree on the bit ahead, and the ghosts move at the
\* boundary only.
LEMMA Ahead ==
    ASSUME BusTypes, Receiver, BitTypes, awake = 1, CoreNext, phase /= 0,
           mode = "frame", mode' = "frame"
    PROVE  /\ UNCHANGED << stuff, hits >>
           /\ Fi' = Fi /\ (Asked' <=> Asked)
           /\ Upcoming'.state = Upcoming.state /\ Upcoming'.cnt = Upcoming.cnt
           /\ Upcoming'.kind = Upcoming.kind
           /\ Adds' = Adds /\ Targets' = Targets
           /\ phase /= Boundary => UNCHANGED << onbus, seen, target, sent >>
           /\ phase = Boundary =>
                 /\ onbus'.state = Upcoming.state /\ onbus'.cnt = Upcoming.cnt
                 /\ onbus'.kind = Upcoming.kind
                 /\ onbus'.hot <=> Arbitrated /\ seen \in Targets
                 /\ onbus'.hot => target' = (IF sent' = 1 THEN "recessive" ELSE "dominant")
                 /\ ~onbus'.hot => target' = target
                 /\ seen' = (IF Arbitrated /\ Adds = 1 /\ seen <= Fi.meta THEN seen + 1
                             ELSE seen)
<1>1. AwakeEdge /\ (phase = Boundary => BitStart)
  BY AwakeEdges
<1>2. id_mem' = id_mem
  BY <1>1 DEF AwakeEdge
<1>3. CASE phase /= Boundary
  <2>1. UNCHANGED << txVars, onbus, seen, target, sent, hits >>
    <3>1. PreSample \/ FaultInjectionPoint \/ OtherEdge
      BY <1>3 DEF CoreNext, FrameNext, Sample, BitStart, SleepEdge, WakeUp, ResetEdge
    <3> QED
      BY <3>1 DEF PreSample, FaultInjectionPoint, OtherEdge, busVars
  <2>2. UNCHANGED << field, pos, format, id, stuff >>
    BY <2>1 DEF txVars
  <2>3. Hitting' = Hitting /\ (Asked' <=> Asked) /\ Fi' = Fi
    BY <1>2, <2>2 DEF Hitting, Asked, Fi
  <2>4. Upcoming' = Upcoming
    BY <2>1, <2>2 DEF Upcoming, ParserState, ParserCount, FixedStuffed
  <2>5. Adds' = Adds /\ Targets' = Targets
    BY <2>3, <2>4 DEF Adds, Targets, Counted, Targeted
  <2> QED
    BY <1>3, <2>1, <2>2, <2>3, <2>4, <2>5
<1>4. CASE phase = Boundary
  <2>1. SendBit /\ UNCHANGED << txVars, hits >>
    BY <1>1, <1>4 DEF BitStart, SendBit, SendFlagBit, StaySilent, ReceiverFlags
  <2>2. UNCHANGED << field, pos, format, id, stuff >>
    BY <2>1 DEF txVars
  <2>3. Hitting' = Hitting /\ (Asked' <=> Asked) /\ Fi' = Fi
    BY <1>2, <2>2 DEF Hitting, Asked, Fi
  <2>4. NextSent(Upcoming)
    <3>1. sent' \in {0, 1} /\ NoStuff \notin {0, 1}
      BY <1>1, <1>4 DEF BitStart, Bit, NoStuff
    <3>2. CASE stuff = NoStuff
      <4>1. Upcoming = [NoBit EXCEPT !.state = ParserState, !.cnt = ParserCount]
        BY <3>2 DEF Upcoming
      <4> QED
        BY <2>1, <3>1, <3>2, <4>1 DEF SendBit
    <3>3. CASE stuff /= NoStuff
      <4>1. Upcoming = [onbus EXCEPT !.kind = IF FixedStuffed THEN "fixed" ELSE "dynamic"]
        BY <3>3 DEF Upcoming
      <4> QED
        BY <2>1, <3>3, <4>1 DEF SendBit
    <3> QED
      BY <3>2, <3>3
  <2>5. /\ onbus' = [Upcoming EXCEPT !.hot = Arbitrated /\ Targeted(Upcoming, seen)]
        /\ target' = (IF ~(Arbitrated /\ Targeted(Upcoming, seen)) THEN target
                      ELSE IF sent' = 1 THEN "recessive" ELSE "dominant")
        /\ seen' = (IF Arbitrated /\ Counted(Upcoming) /\ seen <= Fi.meta THEN seen + 1
                    ELSE seen)
    BY <2>4 DEF NextSent
  <2>6. \E s, c, k, h : Upcoming = [state |-> s, cnt |-> c, kind |-> k, hot |-> h]
    BY DEF Upcoming, NoBit, BitTypes
  <2>7. /\ onbus'.state = Upcoming.state /\ onbus'.cnt = Upcoming.cnt
        /\ onbus'.kind = Upcoming.kind
        /\ onbus'.hot = (Arbitrated /\ Targeted(Upcoming, seen))
        /\ \E s, c, k, h : onbus' = [state |-> s, cnt |-> c, kind |-> k, hot |-> h]
    BY <2>5, <2>6
  <2>8. /\ Upcoming'.state = Upcoming.state /\ Upcoming'.cnt = Upcoming.cnt
        /\ Upcoming'.kind = Upcoming.kind
    <3>1. (ParserState' = ParserState) /\ (ParserCount' = ParserCount)
          /\ (FixedStuffed' <=> FixedStuffed)
      BY <2>2 DEF ParserState, ParserCount, FixedStuffed
    <3>2. CASE stuff = NoStuff
      BY <2>2, <3>1, <3>2 DEF Upcoming, NoBit
    <3>3. CASE stuff /= NoStuff
      <4>1. Upcoming.kind = (IF FixedStuffed THEN "fixed" ELSE "dynamic")
        BY <3>3, BitAhead
      <4>2. Upcoming' = [onbus' EXCEPT !.kind = IF FixedStuffed THEN "fixed" ELSE "dynamic"]
        BY <2>2, <3>1, <3>3 DEF Upcoming
      <4> QED
        BY <2>7, <4>1, <4>2
    <3> QED
      BY <3>2, <3>3
  <2>9. Adds' = Adds /\ Targets' = Targets
    BY <2>3, <2>8 DEF Adds, Targets, Counted, Targeted
  <2>10. (seen \in Targets <=> Targeted(Upcoming, seen)) /\ (Adds = 1 <=> Counted(Upcoming))
    BY DEF Targets, Adds, BitTypes
  <2> QED
    BY <1>4, <2>1, <2>2, <2>3, <2>5, <2>7, <2>8, <2>9, <2>10
<1> QED
  BY <1>3, <1>4
-----------------------------------------------------------------------------
(* The stages and the bit ahead *)

\* Stage I: a bit that is not prepared neither counts nor is the target, and one
\* that is prepared is of the slot's field.
LEMMA StageOne ==
    ASSUME BusTypes, BusInv, ChainInv, UnitInv, BitTypes, GhostInv, ShadowInv,
           awake = 1, status.eof = 0, mode = "frame", Active,
           NEW in, UnitEdge(in), Judges(in), ou_state' = ou_state
    PROVE  /\ prep_strobe' /= 1 => Adds = 0 /\ \A n \in Nat : n \notin Targets
           /\ prep_strobe' = 1 =>
                 /\ ou_state = "OU_BIT" => fsm_state = CanField(Fi.field) /\ fsm_cnt = Fi.meta
                 /\ ou_state = "OU_BSDY" /\ stuff /= NoStuff =>
                       Upcoming.state = CanField(Fi.field)
                 /\ ou_state = "OU_BSFX" => BsfxWindow \in {"CRC_STF", "CRC"}
<1>1. /\ id_ready = 1 /\ Asked /\ ou_state = ActiveState(Fi.type)
      /\ in.fi = Fi /\ fi_can_field' = CanField(Fi.field)
  BY ActiveSlot
<1>2. /\ ou_state = "OU_BIT" <=> Fi.type = "FI_BIT"
      /\ ou_state = "OU_BSDY" <=> Fi.type = "FI_BSDY"
      /\ ou_state = "OU_BSFX" <=> Fi.type = "FI_BSFX"
  BY <1>1, KindOfState
<1>3. /\ fsm_state = ParserState /\ fsm_cnt = ParserCount
      /\ FixedStuffed => fsm_state \in {"CRC_STF", "CRC"} /\ fd_mode = 1
  BY <1>1, Foreseen
<1>4. Verdict(in) \in {"Prep", "Keep"} /\ (prep_strobe' = 1 <=> Verdict(in) = "Prep")
  <2>1. ou_state' /= "OU_DONE"
    BY DEF Active
  <2>2. Verdict(in) \in {"Stop", "Miss", "Prep", "Keep"}
    BY DEF Active, Verdict, BitVerdict, BsdyVerdict, BsfxVerdict
  <2> QED
    BY <2>1, <2>2 DEF Judges, OuSample
<1>5. CASE ou_state = "OU_BIT"
  <2>1. prep_strobe' = 1 <=> fsm_state = CanField(Fi.field) /\ fsm_cnt = Fi.meta
    BY <1>1, <1>4, <1>5 DEF Verdict, BitVerdict
  <2>2. stuff = NoStuff \/ Upcoming.kind /= "field"
    BY BitAhead
  <2> QED
    BY <1>2, <1>3, <1>5, <2>1, <2>2, BitAhead, SlotKinds
<1>6. CASE ou_state = "OU_BSDY"
  <2>1. prep_strobe' = 1 <=> shadow_state = CanField(Fi.field)
    BY <1>1, <1>4, <1>6 DEF Verdict, BsdyVerdict
  <2>2. stuff /= NoStuff => shadow_state = Upcoming.state
    <3>1. SUFFICES ASSUME stuff /= NoStuff PROVE shadow_state = onbus.state
      BY BitAhead
    <3>2. CASE late_strobe = 1
      BY <1>1, <3>1, <3>2 DEF ShadowInv
    <3>3. CASE late_strobe /= 1
      <4>1. phase = 1 /\ ~OnBus
        BY <3>3, Phases DEF Judges, UnitEdge, OnBus
      <4> QED
        BY <3>1, <3>3, <4>1 DEF ShadowInv, GhostInv
    <3> QED
      BY <3>2, <3>3
  <2> QED
    BY <1>2, <1>6, <2>1, <2>2, BitAhead, SlotKinds
<1>7. CASE ou_state = "OU_BSFX"
  <2>1. prep_strobe' = 1 <=> BsfxWindow \in {"CRC_STF", "CRC"} /\ fd_mode = 1
    BY <1>4, <1>7 DEF Verdict, BsfxVerdict
  <2>2. fsm_state \in {"CRC_STF", "CRC"} => BsfxWindow \in {"CRC_STF", "CRC"}
    BY <1>7 DEF ShadowInv, BsfxWindow
  <2> QED
    BY <1>2, <1>3, <1>7, <2>1, <2>2, BitAhead, SlotKinds
<1> QED
  BY <1>5, <1>6, <1>7 DEF Active

\* Stage II: a prepared bit is queued if it is the target, and counted if it
\* counts but comes before the target.
LEMMA StageTwo ==
    ASSUME BusTypes, BusInv, ChainInv, UnitInv, BitTypes, PrepInv,
           awake = 1, status.eof = 0, mode = "frame",
           NEW in, UnitEdge(in), prep_strobe = 1, bs_cnt \in Nat
    PROVE  /\ queue' = (IF bs_cnt \in Targets THEN 0 ELSE 1)
           /\ bs_cnt' = (IF bs_cnt \in Targets THEN bs_cnt ELSE bs_cnt + Adds)
<1>1. Active /\ queue = 1 /\ phase /= 1
  BY Phases DEF UnitInv, Strobed
<1>2. /\ id_ready = 1 /\ Asked /\ ou_state = ActiveState(Fi.type) /\ in.fi = Fi
  BY <1>1, ActiveSlot
<1>3. /\ ou_state = "OU_BIT" <=> Fi.type = "FI_BIT"
      /\ ou_state = "OU_BSDY" <=> Fi.type = "FI_BSDY"
      /\ ou_state = "OU_BSFX" <=> Fi.type = "FI_BSFX"
  BY <1>1, <1>2, KindOfState
<1>4. /\ fsm_state = ParserState /\ fsm_cnt = ParserCount
      /\ bs_insert = 1 <=> stuff /= NoStuff
      /\ InsertFixed <=> stuff /= NoStuff /\ FixedStuffed
      /\ InsertDynamic <=> stuff /= NoStuff /\ ~FixedStuffed
  BY <1>1, <1>2, Foreseen
<1>5. bs_insert \in {0, 1} /\ Adds \in {0, 1}
  BY SlotKinds DEF BusTypes, TypeOK, DestuffTypeOK, Bit
<1>6. PrepBit \/ PrepStuff(in)
  <2>1. ou_state \notin {"OU_AWAIT_FI", "OU_DONE", "OU_DLC", "OU_DATA_CRC"}
    BY <1>1 DEF Active
  <2>2. in.sleep = 0 /\ PrepOverride(in)
    BY DEF UnitEdge, Inputs, OuClock
  <2> QED
    BY <2>1, <2>2 DEF PrepOverride, PrepStuffBit, PrepDlc, PrepData
<1>7. CASE ou_state = "OU_BIT"
  <2>1. queue' = bs_insert /\ bs_cnt' = bs_cnt
    BY <1>6, <1>7 DEF PrepBit, PrepStuff
  <2>2. Adds = 0
    BY <1>3, <1>7, SlotKinds
  <2>3. bs_cnt \in Targets <=> stuff = NoStuff
    BY <1>3, <1>4, <1>7, <2>2, BitAhead, SlotKinds DEF PrepInv
  <2> QED
    BY <1>4, <1>5, <2>1, <2>2, <2>3
<1>8. CASE ou_state \in {"OU_BSDY", "OU_BSFX"}
  <2>1. PrepStuff(in) /\ in.fi.meta = Fi.meta
    BY <1>2, <1>6, <1>8 DEF PrepBit
  <2>2. (IF ou_state = "OU_BSFX" THEN InsertFixed ELSE InsertDynamic) <=> Adds = 1
    <3>1. CASE ou_state = "OU_BSFX"
      BY <1>3, <1>4, <3>1, BitAhead, SlotKinds
    <3>2. CASE ou_state = "OU_BSDY"
      BY <1>3, <1>4, <3>2, BitAhead, SlotKinds DEF PrepInv
    <3> QED
      BY <1>8, <3>1, <3>2
  <2>3. bs_cnt \in Targets <=> Adds = 1 /\ bs_cnt = Fi.meta
    BY <1>3, <1>8, SlotKinds
  <2> QED
    BY <1>5, <2>1, <2>2, <2>3 DEF PrepStuff
<1> QED
  BY <1>1, <1>7, <1>8 DEF Active

\* Without a prepared bit nothing is counted.
LEMMA NothingCounted ==
    ASSUME BusTypes, UnitInv, awake = 1, NEW in, UnitEdge(in), prep_strobe /= 1
    PROVE  bs_cnt' = bs_cnt
BY PrepBranches DEF UnitEdge, Inputs, OuClock, UnitInv, Strobed, Queued, Bit, BusTypes,
   TypeOK, DestuffTypeOK
-----------------------------------------------------------------------------
(* One edge of an unbroken frame *)

\* The sample of a bit ends it: the sender goes on to the next one, and a stuff
\* bit follows a bit of a field only.
LEMMA SampledBit ==
    ASSUME BusTypes, BusInv, Receiver, BitTypes, awake = 1, awake' = 1, CoreNext,
           phase = 0, mode = "frame", mode' = "frame"
    PROVE  /\ Receiving /\ Clock(1, Level, 0) /\ phase' = 1
           /\ UNCHANGED << onbus, seen, target, sent >>
           /\ stuff' /= NoStuff => stuff = NoStuff
<1> USE Phases
<1>1. AwakeEdge /\ Sample /\ status.eof = 0
  <2>1. status.eof \in {0, 1}
    BY DEF BusTypes, TypeOK, ParserTypeOK, Statuses, Bit
  <2> QED
    BY <2>1, AwakeEdges DEF AwakeEdge
<1>2. Receiving
  BY DEF BusInv, Framing
<1>3. ~Objects
  BY <1>1 DEF Sample
<1>4. Send(Level) /\ UNCHANGED << onbus, seen, target, sent >>
  BY <1>1, <1>3 DEF Sample
<1>5. stuff' /= NoStuff => stuff = NoStuff
  BY <1>4 DEF Send, SendStuff, SendFieldBit
<1> QED
  BY <1>1, <1>2, <1>4, <1>5 DEF AwakeEdge

\* What the slot asks for does not change once the identifier has come, and the
\* identifier comes with a sample.
LEMMA SlotKept ==
    ASSUME BusTypes, BusInv, ChainInv, UnitInv, awake = 1, awake' = 1, CoreNext
    PROVE  /\ id_ready = 1 => id_ready' = 1 /\ Fi' = Fi /\ (Asked' <=> Asked)
           /\ id_ready' = 1 /\ phase /= 0 => id_ready = 1
           /\ id_ready' \in {0, 1}
<1>1. PICK a \in 0 .. Evaluated : AgeOk(a) /\ ChainAt(a)
  BY DEF ChainInv
<1>2. Receiver /\ (can_tx = 0 => id_ready = 1) /\ id_ready \in {0, 1}
  BY DEF UnitInv, Armed, BusTypes, TypeOK, ParserTypeOK, Bit
<1>3. PICK b \in 0 .. Evaluated : Older(a, b)
  BY <1>1, <1>2, AgeStep
<1>4. id_ready = 1 => id_ready' = 1 /\ Fi' = Fi /\ (Asked' <=> Asked)
  BY <1>3 DEF Older, Hitting, Asked, Fi
<1>5. ASSUME phase /= 0 PROVE id_ready' \in {0, id_ready}
  <2>1. Clock(0, Level, 0)
    BY <1>2, <1>5, AwakeEdges DEF AwakeEdge
  <2> QED
    BY <2>1 DEF Clock, ParserClock, ParserSleep, ParserStuffError, StuffError, ParserHold
<1>6. id_ready' \in {0, 1}
  <2>1. BusTypes'
    BY <1>2, BusTypesStep DEF UnitInv, Armed
  <2> QED
    BY <2>1 DEF BusTypes, TypeOK, ParserTypeOK, Bit
<1> QED
  BY <1>2, <1>4, <1>5, <1>6

\* Between two samples the parser stays in its state.
LEMMA StateKept ==
    ASSUME BusTypes, BusInv, Receiver, awake = 1, awake' = 1, CoreNext, phase /= 0,
           mode = "frame", id_ready = 1
    PROVE  UNCHANGED << fsm_state, fsm_cnt >>
<1>1. AwakeEdge /\ status.eof = 0
  <2>1. status.eof \in {0, 1}
    BY DEF BusTypes, TypeOK, ParserTypeOK, Statuses, Bit
  <2> QED
    BY <2>1, AwakeEdges DEF AwakeEdge
<1>2. Receiving
  BY <1>1, Foreseen
<1> QED
  BY <1>1, <1>2, ParserBetween DEF AwakeEdge, Receiving, Following

\* The ghosts follow the sender.
LEMMA GhostStep ==
    ASSUME BusTypes, BusInv, ChainInv, UnitInv, BitTypes, GhostInv,
           awake = 1, awake' = 1, CoreNext, mode = "frame", mode' = "frame"
    PROVE  GhostInv'
<1> USE Phases
<1>1. /\ Receiver /\ AwakeEdge /\ status.eof = 0 /\ phase \in 0 .. BitEdges - 1
      /\ phase' = (IF phase = BitEdges - 1 THEN 0 ELSE phase + 1)
  <2>1. status.eof \in {0, 1} /\ Receiver
    BY DEF BusTypes, TypeOK, ParserTypeOK, Statuses, Bit, UnitInv
  <2> QED
    BY <2>1, AwakeEdges DEF AwakeEdge, BusTypes
<1>2. OnBus' => phase /= 0 /\ (phase = Boundary \/ OnBus)
  BY <1>1 DEF OnBus
<1>3. ~OnBus' => phase /= Boundary /\ (phase = 0 \/ ~OnBus)
  BY <1>1 DEF OnBus
<1>4. OnBus' => /\ onbus'.state = Upcoming'.state /\ onbus'.cnt = Upcoming'.cnt
                /\ onbus'.kind = Upcoming'.kind
  BY <1>1, <1>2, Ahead DEF GhostInv
<1>5. ASSUME ~OnBus', stuff' /= NoStuff PROVE onbus'.kind = "field"
  <2>1. CASE phase = 0
    <3>1. stuff = NoStuff /\ onbus' = onbus /\ OnBus
      BY <1>1, <1>5, <2>1, SampledBit DEF OnBus
    <3> QED
      BY <3>1, BitAhead DEF GhostInv
  <2>2. CASE phase /= 0
    BY <1>1, <1>3, <1>5, <2>2, Ahead DEF GhostInv
  <2> QED
    BY <2>1, <2>2
<1>6. onbus'.hot => target' = (IF sent' = 1 THEN "recessive" ELSE "dominant")
  <2>1. CASE phase = 0
    BY <1>1, <2>1, SampledBit DEF GhostInv
  <2>2. CASE phase /= 0
    BY <1>1, <2>2, Ahead DEF GhostInv
  <2> QED
    BY <2>1, <2>2
<1>7. ASSUME id_ready' = 0 PROVE seen' = 0
  <2>1. id_ready = 0 /\ seen = 0
    BY <1>7, SlotKept DEF GhostInv, BusTypes, TypeOK, ParserTypeOK, Bit
  <2>2. CASE phase = 0
    BY <1>1, <2>1, <2>2, SampledBit
  <2>3. CASE phase /= 0 /\ phase /= Boundary
    BY <1>1, <2>1, <2>3, Ahead
  <2>4. CASE phase = Boundary
    <3>1. Entering \/ Receiving
      BY <2>4 DEF BusInv, Framing
    <3>2. field \in ToRrs
      BY <2>1, <3>1 DEF Entering, Receiving, Decoding, ToRrs, ToIde
    <3> QED
      BY <1>1, <2>1, <2>4, <3>2, ArbitratedFields, Ahead
  <2> QED
    BY <2>2, <2>3, <2>4
<1> QED
  BY <1>4, <1>5, <1>6, <1>7 DEF GhostInv

\* A unit that made its bit dominant stays done, whatever becomes of the frame.
LEMMA HitStep ==
    ASSUME BusTypes, BusInv, ChainInv, UnitInv, BitTypes, HitInv,
           awake = 1, awake' = 1, CoreNext
    PROVE  HitInv'
<1> USE Phases
<1>1. PICK in : UnitEdge(in)
  BY UnitEdges
<1>2. /\ AwakeEdge /\ (phase = 0 => Sample) /\ (phase = Boundary => BitStart)
      /\ status.eof = 0 /\ phase \in 0 .. BitEdges - 1
      /\ phase' = (IF phase = BitEdges - 1 THEN 0 ELSE phase + 1)
      /\ Strobed /\ Queued /\ Armed /\ arm \in {0, 1} /\ can_tx \in {0, 1} /\ sent \in {0, 1}
      /\ Matched(in) \/ GoesOn(in) \/ GivesUp(in) \/ Judges(in)
  <2>1. Receiver
    BY DEF UnitInv
  <2>2. AwakeEdge /\ (phase = 0 => Sample) /\ (phase = Boundary => BitStart)
    BY <2>1, AwakeEdges
  <2>3. awake' = 1 - status.eof /\ status.eof \in {0, 1} /\ phase \in 0 .. BitEdges - 1
    BY <1>1 DEF UnitEdge, AwakeEdge
  <2> QED
    BY <1>1, <2>2, <2>3 DEF UnitEdge, AwakeEdge, UnitInv, Armed, Bit, BusTypes
<1>3. hits' = (IF phase = 0 /\ Overridden /\ hits < 2 THEN hits + 1 ELSE hits)
  <2>1. PreSample \/ FaultInjectionPoint \/ OtherEdge \/ BitStart \/ Sample
    BY DEF CoreNext, FrameNext, SleepEdge, WakeUp, ResetEdge
  <2> QED
    BY <1>2, <2>1 DEF PreSample, FaultInjectionPoint, OtherEdge, BitStart, Sample
<1>4. ASSUME arm = 1
      PROVE  /\ Active /\ ~NewMatch(in) /\ phase /= Boundary
             /\ phase = 1 => ou_state' = "OU_DONE"
  <2>1. Active /\ Decided /\ err_dom /= 1
    BY <1>2, <1>4 DEF Armed
  <2>2. ~NewMatch(in)
    BY <2>1 DEF NewMatch, Active
  <2>3. phase = 1 => ou_state' = "OU_DONE"
    BY <1>1, <1>2, <1>4, <2>1, <2>2 DEF Matched, GoesOn, GivesUp, Judges, UnitEdge, Active
  <2>4. phase /= Boundary
    BY <1>2, <2>1 DEF Decided
  <2> QED
    BY <2>1, <2>2, <2>3, <2>4
<1>5. ou_state = "OU_DONE" => ou_state' = "OU_DONE"
  BY <1>2 DEF Matched, NewMatch, GoesOn, GivesUp, Judges
<1>6. ASSUME hits' > 0
      PROVE  ou_state' = "OU_DONE" \/ (phase' = 1 /\ arm' = 1)
  <2>1. CASE hits > 0
    BY <1>4, <1>5, <2>1 DEF HitInv
  <2>2. CASE ~(hits > 0)
    <3>1. phase = 0 /\ Overridden
      BY <1>3, <1>6, <2>2
    <3>2. can_tx = 0
      BY <1>2, <3>1 DEF Overridden, Level
    <3>3. arm = 1
      BY <1>2, <3>1, <3>2 DEF Armed
    <3>4. ou_state' /= "OU_DONE" => arm' = arm
      BY <1>1, <3>1 DEF UnitEdge
    <3> QED
      BY <1>2, <3>1, <3>3, <3>4
  <2> QED
    BY <2>1, <2>2
<1>7. ASSUME mode' = "silent" PROVE hits' > 0
  <2>1. CASE mode = "silent"
    BY <1>3, <2>1 DEF HitInv, BitTypes
  <2>2. CASE mode /= "silent"
    <3>1. phase = 0
      <4>1. SUFFICES ASSUME phase /= 0 PROVE FALSE
        OBVIOUS
      <4>2. phase = Boundary
        BY <1>2, <1>7, <2>2, <4>1 DEF AwakeEdge
      <4> QED
        BY <1>2, <1>7, <2>2, <4>2
        DEF BitStart, SendBit, NextSent, SendFlagBit, StaySilent, ReceiverFlags
    <3>2. Overridden
      BY <1>2, <1>7, <2>2, <3>1 DEF Sample, Objects
    <3> QED
      BY <1>3, <3>1, <3>2 DEF BitTypes
  <2> QED
    BY <2>1, <2>2
<1>8. ASSUME arm' = 1 PROVE sent' = 1
  <2>1. ou_state' /= "OU_DONE"
    BY <1>1, <1>8 DEF UnitEdge
  <2>2. CASE phase = Psp
    <3>1. Level = 1
      BY <1>1, <1>8, <2>1, <2>2 DEF UnitEdge
    <3> QED
      BY <1>2, <2>2, <3>1 DEF Level, AwakeEdge
  <2>3. CASE phase /= Psp
    <3>1. arm = 1
      BY <1>1, <1>8, <2>1, <2>3 DEF UnitEdge
    <3>2. sent' = sent
      BY <1>2, <1>4, <3>1 DEF AwakeEdge, Sample
    <3> QED
      BY <3>1, <3>2 DEF HitInv
  <2> QED
    BY <2>2, <2>3
<1> QED
  BY <1>6, <1>7, <1>8 DEF HitInv

\* The names and counts of the bits that the sender sends are the parser's.
LEMMA BitNames ==
    /\ ParserState \in FsmStates
    /\ TxInv => ParserCount \in Nat
<1>1. ParserState \in FsmStates
  BY FsmStateNames DEF ParserState
<1>2. ASSUME TxInv PROVE ParserCount \in Nat
  <2>1. pos \in Nat /\ BaseIdBits \in Nat /\ ExtIdBits \in Nat
    <3>1. pos \in 0 .. FieldLen - 1
      BY <1>2 DEF TxInv, TxTypeOK
    <3> QED
      BY <3>1, WidthsAssumption
  <2> QED
    BY <2>1 DEF ParserCount
<1> QED
  BY <1>1, <1>2

\* The types of the ghosts.
LEMMA BitTypesStep ==
    ASSUME BusInv, BitTypes, CoreNext
    PROVE  BitTypes'
<1>1. "SLEEP" \in FsmStates /\ NoBit \in [state : FsmStates, cnt : Nat, hot : BOOLEAN,
                                          kind : {"field", "fixed", "dynamic"}]
  BY FsmStateNames DEF NoBit
<1>2. CASE UNCHANGED << onbus, seen, hits >>
  BY <1>2 DEF BitTypes
<1>3. CASE Sample
  BY <1>1, <1>3 DEF Sample, GiveUp, BitTypes
<1>4. CASE BitStart
  <2>1. hits' = hits
    BY <1>4 DEF BitStart
  <2>2. CASE SendFlagBit \/ StaySilent
    BY <2>1, <2>2 DEF SendFlagBit, StaySilent, BitTypes
  <2>3. CASE ReceiverFlags
    BY <1>1, <2>1, <2>3 DEF ReceiverFlags, GiveUp, BitTypes
  <2>4. ASSUME NEW bit \in [state : FsmStates, cnt : Nat, hot : BOOLEAN,
                            kind : {"field", "fixed", "dynamic"}],
               NextSent(bit)
        PROVE  BitTypes'
    <3>1. PICK hot \in BOOLEAN : onbus' = [bit EXCEPT !.hot = hot]
      BY <2>4 DEF NextSent
    <3>2. seen' \in Nat
      BY <2>4 DEF NextSent, BitTypes
    <3> QED
      BY <2>1, <2>4, <3>1, <3>2 DEF BitTypes
  <2>5. CASE SendBit
    <3>1. awake = 1
      BY <1>4 DEF BitStart, Tick
    <3>2. ParserCount \in Nat /\ ParserState \in FsmStates
      BY <3>1, BitNames DEF BusInv
    <3>3. /\ [NoBit EXCEPT !.state = ParserState, !.cnt = ParserCount]
               \in [state : FsmStates, cnt : Nat, hot : BOOLEAN,
                    kind : {"field", "fixed", "dynamic"}]
          /\ [onbus EXCEPT !.kind = IF FixedStuffed THEN "fixed" ELSE "dynamic"]
               \in [state : FsmStates, cnt : Nat, hot : BOOLEAN,
                    kind : {"field", "fixed", "dynamic"}]
      BY <3>2 DEF BitTypes, NoBit
    <3> QED
      BY <2>4, <2>5, <3>3 DEF SendBit
  <2> QED
    BY <1>4, <2>2, <2>3, <2>5 DEF BitStart
<1>5. CASE WakeUp
  BY <1>1, <1>5 DEF WakeUp, BitTypes
<1> QED
  BY <1>2, <1>3, <1>4, <1>5
  DEF CoreNext, FrameNext, PreSample, FaultInjectionPoint, OtherEdge, SleepEdge, ResetEdge,
      busVars

\* Until its sample the bit ahead stays the same for the unit's count: putting it
\* on the bus adds to the stuff bits on the bus what it takes from those to come,
\* and a target that is still to be counted is marked.
LEMMA PassedKept ==
    ASSUME BusTypes, BusInv, Receiver, BitTypes, awake = 1, awake' = 1, CoreNext,
           phase /= 0, mode = "frame", mode' = "frame", id_ready = 1,
           NEW n \in Nat, n = Passed, n <= Fi.meta, OnBus /\ n \in Targets => onbus.hot
    PROVE  n = Passed' /\ (OnBus' /\ n \in Targets' => onbus'.hot)
<1> USE Phases
<1>1. /\ phase \in 0 .. BitEdges - 1 /\ seen \in Nat /\ Adds \in {0, 1} /\ Fi.meta \in Nat
      /\ phase' = (IF phase = BitEdges - 1 THEN 0 ELSE phase + 1)
  <2>1. status.eof \in {0, 1} /\ AwakeEdge
    BY AwakeEdges DEF BusTypes, TypeOK, ParserTypeOK, Statuses, Bit
  <2> QED
    BY <2>1, SlotKinds, SlotFrame DEF BusTypes, BitTypes, AwakeEdge
<1>2. Adds' = Adds /\ Targets' = Targets
  BY Ahead
<1>3. CASE phase = Boundary
  <2>1. ~OnBus /\ OnBus' /\ n = seen
    BY <1>1, <1>3 DEF OnBus, Passed
  <2>2. Arbitrated
    BY IdentifierHeld, ArbitratedFields
  <2>3. /\ onbus'.hot <=> seen \in Targets
        /\ seen' = (IF Adds = 1 THEN seen + 1 ELSE seen)
    BY <1>3, <2>1, <2>2, Ahead
  <2> QED
    BY <1>1, <1>2, <2>1, <2>3 DEF Passed
<1>4. CASE phase /= Boundary
  <2>1. OnBus' <=> OnBus
    BY <1>1, <1>4 DEF OnBus
  <2>2. UNCHANGED << onbus, seen >>
    BY <1>4, Ahead
  <2> QED
    BY <1>2, <2>1, <2>2 DEF Passed
<1> QED
  BY <1>3, <1>4

\* The same for a bit that the unit has counted already.
LEMMA PassedCounted ==
    ASSUME BusTypes, BusInv, Receiver, BitTypes, awake = 1, awake' = 1, CoreNext,
           phase /= 0, mode = "frame", mode' = "frame", id_ready = 1,
           NEW n \in Nat, n = Passed + Adds, Passed <= Fi.meta
    PROVE  n = Passed' + Adds'
<1> USE Phases
<1>1. /\ phase \in 0 .. BitEdges - 1 /\ seen \in Nat /\ Adds \in {0, 1} /\ Fi.meta \in Nat
      /\ phase' = (IF phase = BitEdges - 1 THEN 0 ELSE phase + 1)
  <2>1. status.eof \in {0, 1} /\ AwakeEdge
    BY AwakeEdges DEF BusTypes, TypeOK, ParserTypeOK, Statuses, Bit
  <2> QED
    BY <2>1, SlotKinds, SlotFrame DEF BusTypes, BitTypes, AwakeEdge
<1>2. Adds' = Adds
  BY Ahead
<1>3. CASE phase = Boundary
  <2>1. ~OnBus /\ OnBus' /\ Passed = seen
    BY <1>1, <1>3 DEF OnBus, Passed
  <2>2. Arbitrated
    BY IdentifierHeld, ArbitratedFields
  <2>3. seen' = (IF Adds = 1 THEN seen + 1 ELSE seen)
    BY <1>3, <2>1, <2>2, Ahead
  <2> QED
    BY <1>1, <1>2, <2>1, <2>3 DEF Passed
<1>4. CASE phase /= Boundary
  <2>1. OnBus' <=> OnBus
    BY <1>1, <1>4 DEF OnBus
  <2>2. seen' = seen
    BY <1>4, Ahead
  <2> QED
    BY <1>2, <2>1, <2>2 DEF Passed
<1> QED
  BY <1>3, <1>4

\* The unit's count stays that of the slot's stuff bits, and no target passes it.
LEMMA CountStep ==
    ASSUME BusTypes, BusInv, ChainInv, UnitInv, BitTypes,
           GhostInv, CountInv, ShadowInv, PrepInv,
           awake = 1, awake' = 1, CoreNext, mode = "frame", mode' = "frame"
    PROVE  CountInv'
<1> USE Phases
<1> SUFFICES ASSUME id_ready' = 1, Asked', (ou_state = "OU_AWAIT_FI" \/ Active)', queue' = 1
             PROVE  /\ bs_cnt' \in Nat /\ bs_cnt' <= Fi'.meta
                    /\ Untaken' => bs_cnt' = Passed'
                                   /\ (OnBus' /\ bs_cnt' \in Targets' => onbus'.hot)
                    /\ ~Untaken' => bs_cnt' = Passed' + Adds'
  BY DEF CountInv
<1>1. PICK in : UnitEdge(in)
  BY UnitEdges
<1>2. /\ Receiver /\ AwakeEdge /\ status.eof = 0 /\ phase \in 0 .. BitEdges - 1
      /\ phase' = (IF phase = BitEdges - 1 THEN 0 ELSE phase + 1)
      /\ Matched(in) \/ GoesOn(in) \/ GivesUp(in) \/ Judges(in)
      /\ Strobed /\ Queued
  BY <1>1 DEF UnitEdge, AwakeEdge, UnitInv
<1>3. seen \in Nat /\ Adds \in {0, 1} /\ Fi.meta \in Nat
  BY SlotKinds, SlotFrame DEF BitTypes
<1>4. \/ Matched(in) /\ ou_state = "OU_AWAIT_FI" /\ ou_state' /= "OU_AWAIT_FI"
      \/ GoesOn(in) /\ ou_state' = ou_state /\ (ou_state = "OU_AWAIT_FI" \/ Active)
      \/ Judges(in) /\ ou_state' = ou_state /\ Active
  <2>1. Matched(in) => ou_state = "OU_AWAIT_FI" /\ ou_state' /= "OU_AWAIT_FI"
    BY DEF Matched, NewMatch, ActiveState
  <2> QED
    BY <1>2, <2>1 DEF GoesOn, GivesUp, Judges, Active
<1>5. queue = 1
  <2>1. prep_strobe = 1 => queue = 1
    BY <1>2 DEF Strobed
  <2>2. prep_strobe /= 1 => queue = 1
    BY <1>1, <1>4 DEF UnitEdge, Active
  <2> QED
    BY <2>1, <2>2
<1>6. CASE phase = 0
  <2>1. Untaken' /\ ~OnBus' /\ Passed' = seen
    BY <1>2, <1>6, SampledBit DEF Untaken, OnBus, Passed
  <2>2. prep_strobe /= 1 /\ late_strobe /= 1 /\ ~NewMatch(in)
    BY <1>1, <1>2, <1>6 DEF Strobed, UnitEdge
  <2>3. bs_cnt' = bs_cnt
    BY <1>1, <2>2, NothingCounted
  <2>4. CASE id_ready = 0
    <3>1. PICK a \in 0 .. Evaluated : AgeOk(a) /\ ChainAt(a)
      BY DEF ChainInv
    <3>2. a = 0 /\ ~(a > MatchAge)
      BY <2>4, <3>1, Phases DEF AgeOk, MatchAge
    <3>3. bs_cnt = 0 /\ seen = 0
      BY <2>4, <3>1, <3>2 DEF ChainAt, OverrideAt, GhostInv
    <3>4. Fi'.meta \in Nat
      <4>1. BusTypes'
        BY <1>2, BusTypesStep DEF UnitInv, Armed
      <4>2. (BusTypes => Fi.meta \in Nat)'
        BY SlotFrame, PTL
      <4> QED
        BY <4>1, <4>2
    <3> QED
      BY <2>1, <2>3, <3>3, <3>4
  <2>5. CASE id_ready /= 0
    <3>1. id_ready = 1
      BY <2>5 DEF BusTypes, TypeOK, ParserTypeOK, Bit
    <3>2. Fi' = Fi /\ Asked
      BY <3>1, SlotKept
    <3>3. ou_state /= "OU_AWAIT_FI"
      BY <1>6, <3>1, <3>2, AwaitsAtSample
    <3>4. Active /\ ~Untaken
      BY <1>4, <1>6, <2>2, <3>3 DEF Matched, Untaken
    <3>5. bs_cnt \in Nat /\ bs_cnt <= Fi.meta /\ bs_cnt = Passed + Adds
      BY <1>5, <3>1, <3>2, <3>4 DEF CountInv
    <3>6. Passed + Adds = seen
      BY <1>3, <1>6 DEF Passed, OnBus
    <3> QED
      BY <2>1, <2>3, <3>2, <3>5, <3>6
  <2> QED
    BY <2>4, <2>5
<1>7. CASE phase /= 0
  <2>1. id_ready = 1 /\ Fi' = Fi /\ Asked /\ Targets' = Targets /\ Adds' = Adds
    BY <1>2, <1>7, SlotKept, Ahead
  <2>2. phase' /= 1
    BY <1>2, <1>7
  <2>3. /\ bs_cnt \in Nat /\ bs_cnt <= Fi.meta
        /\ Untaken => bs_cnt = Passed /\ (OnBus /\ bs_cnt \in Targets => onbus.hot)
        /\ ~Untaken => bs_cnt = Passed + Adds
    BY <1>4, <1>5, <2>1 DEF CountInv
  <2>4. Passed \in Int /\ Passed <= Fi.meta
    BY <1>3, <2>3 DEF Passed
  <2>5. ASSUME Untaken, bs_cnt' = bs_cnt
        PROVE  bs_cnt' = Passed' /\ (OnBus' /\ bs_cnt' \in Targets' => onbus'.hot)
    <3>1. /\ bs_cnt = Passed'
          /\ OnBus' /\ bs_cnt \in Targets' => onbus'.hot
      BY <1>2, <1>7, <2>1, <2>3, <2>5, PassedKept
    <3> QED
      BY <2>5, <3>1
  <2>6. CASE ou_state = "OU_AWAIT_FI"
    <3>1. prep_strobe /= 1 /\ Untaken
      BY <1>2, <2>6 DEF Strobed, Active, Untaken
    <3>2. bs_cnt' = bs_cnt
      BY <1>1, <3>1, NothingCounted
    <3>3. Untaken'
      BY <1>4, <2>6 DEF Matched, Judges, Active, Untaken
    <3> QED
      BY <2>1, <2>3, <2>5, <3>1, <3>2, <3>3
  <2>7. CASE Active /\ prep_strobe = 1
    <3>1. Untaken /\ bs_cnt = Passed
      BY <2>3, <2>7 DEF Untaken
    <3>2. bs_cnt \notin Targets /\ bs_cnt' = bs_cnt + Adds
      BY <1>1, <1>2, <2>3, <2>7, StageTwo
    <3>3. Adds = 1 => bs_cnt /= Fi.meta
      BY <2>3, <3>2, SlotKinds
    <3>4. bs_cnt' \in Nat /\ bs_cnt' <= Fi.meta
      BY <1>3, <2>3, <3>2, <3>3
    <3>5. bs_cnt' = Passed' + Adds'
      BY <1>2, <1>7, <2>1, <2>4, <3>1, <3>2, <3>4, PassedCounted
    <3>6. ~Untaken'
      <4>1. phase \in {2, TreeDepth + 6} /\ late_strobe /= 1
        BY <1>1, <1>2, <2>7 DEF Strobed, UnitEdge
      <4>2. GoesOn(in)
        BY <1>1, <1>2, <1>4, <2>7, <4>1 DEF Judges, UnitEdge, Active
      <4> QED
        BY <1>4, <2>2, <2>7, <4>2 DEF GoesOn, Untaken, Active
    <3> QED
      BY <2>1, <3>4, <3>5, <3>6
  <2>8. CASE Active /\ prep_strobe /= 1
    <3>1. bs_cnt' = bs_cnt
      BY <1>1, <2>8, NothingCounted
    <3>2. CASE GoesOn(in)
      <4>1. ~Untaken
        BY <1>1, <2>8, <3>2 DEF GoesOn, UnitEdge, Untaken, Active
      <4>2. ~Untaken'
        BY <1>4, <2>2, <2>8, <3>2 DEF GoesOn, Untaken, Active, Matched
      <4>3. bs_cnt = Passed' + Adds'
        BY <1>2, <1>7, <2>1, <2>3, <2>4, <4>1, PassedCounted
      <4> QED
        BY <2>1, <2>3, <3>1, <4>2, <4>3
    <3>3. CASE Judges(in) /\ ou_state' = ou_state
      <4>1. Untaken
        BY <1>1, <3>3 DEF Judges, UnitEdge, Untaken
      <4>2. bs_cnt' = Passed' /\ (OnBus' /\ bs_cnt' \in Targets' => onbus'.hot)
        BY <2>5, <3>1, <4>1
      <4>3. prep_strobe' /= 1 => Adds = 0
        BY <1>1, <1>2, <2>8, <3>3, StageOne
      <4> QED
        BY <2>1, <2>3, <3>1, <4>2, <4>3 DEF Untaken
    <3> QED
      BY <1>4, <2>8, <3>2, <3>3 DEF Active
  <2> QED
    BY <1>4, <2>6, <2>7, <2>8 DEF Active
<1> QED
  BY <1>6, <1>7

\* What is queued is the target and stays so until its sample.
LEMMA QueueStep ==
    ASSUME BusTypes, BusInv, ChainInv, UnitInv, BitTypes,
           CountInv, QueueInv, PrepInv,
           awake = 1, awake' = 1, CoreNext, mode = "frame", mode' = "frame"
    PROVE  QueueInv'
<1> USE Phases
<1> SUFFICES ASSUME Active', queue' = 0
             PROVE  IF OnBus' \/ phase' = 1 THEN onbus'.hot ELSE seen' \in Targets'
  BY DEF QueueInv
<1>1. PICK in : UnitEdge(in)
  BY UnitEdges
<1>2. /\ Receiver /\ AwakeEdge /\ status.eof = 0 /\ phase \in 0 .. BitEdges - 1
      /\ phase' = (IF phase = BitEdges - 1 THEN 0 ELSE phase + 1)
      /\ Matched(in) \/ GoesOn(in) \/ GivesUp(in) \/ Judges(in)
      /\ Strobed /\ Queued /\ Armed /\ arm \in {0, 1}
  BY <1>1 DEF UnitEdge, AwakeEdge, UnitInv, Armed, Bit
<1>3. Active /\ ou_state' = ou_state /\ ~NewMatch(in)
  <2>1. ~NewMatch(in)
    BY <1>1 DEF UnitEdge
  <2> QED
    BY <1>2, <2>1 DEF Matched, GoesOn, GivesUp, Judges, Active
<1>4. id_ready = 1 /\ Asked
  BY <1>1, <1>3, ActiveSlot
<1>5. ASSUME phase /= 0, phase /= 1,
             IF OnBus THEN onbus.hot ELSE seen \in Targets
      PROVE  IF OnBus' \/ phase' = 1 THEN onbus'.hot ELSE seen' \in Targets'
  <2>1. phase' /= 1 /\ Targets' = Targets
    BY <1>2, <1>5, Ahead
  <2>2. CASE phase = Boundary
    <3>1. ~OnBus /\ OnBus'
      BY <1>2, <2>2 DEF OnBus
    <3>2. Arbitrated
      BY <1>4, IdentifierHeld, ArbitratedFields
    <3> QED
      BY <1>2, <1>5, <2>2, <3>1, <3>2, Ahead
  <2>3. CASE phase /= Boundary
    <3>1. OnBus' <=> OnBus
      BY <1>2, <1>5, <2>3 DEF OnBus
    <3>2. UNCHANGED << onbus, seen >>
      BY <1>2, <1>5, <2>3, Ahead
    <3> QED
      BY <1>5, <2>1, <3>1, <3>2
  <2> QED
    BY <2>2, <2>3
<1>6. CASE prep_strobe = 1
  <2>1. queue = 1 /\ phase /= 0 /\ phase /= 1
    BY <1>2, <1>6 DEF Strobed
  <2>2. /\ bs_cnt \in Nat /\ bs_cnt = Passed
        /\ OnBus /\ bs_cnt \in Targets => onbus.hot
    BY <1>3, <1>4, <1>6, <2>1 DEF CountInv, Untaken
  <2>3. bs_cnt \in Targets
    BY <1>1, <1>2, <1>6, <2>2, StageTwo
  <2>4. IF OnBus THEN onbus.hot ELSE seen \in Targets
    BY <2>2, <2>3 DEF Passed
  <2> QED
    BY <1>5, <2>1, <2>4
<1>7. CASE prep_strobe /= 1
  <2>1. queue = 0
    BY <1>1, <1>3, <1>7 DEF UnitEdge, Active
  <2>2. CASE phase = 0
    BY <1>2, <1>3, <2>1, <2>2, SampledBit DEF QueueInv, OnBus
  <2>3. phase /= 1
    <3>1. SUFFICES ASSUME phase = 1 PROVE FALSE
      OBVIOUS
    <3>2. arm = 1
      BY <1>2, <1>3, <2>1, <3>1 DEF Queued, Decided
    <3>3. ou_state' = "OU_DONE"
      BY <1>1, <1>2, <1>3, <3>1, <3>2
      DEF Matched, GoesOn, GivesUp, Judges, UnitEdge, Active
    <3> QED
      BY <3>3 DEF Active
  <2>4. CASE phase /= 0
    <3>1. IF OnBus THEN onbus.hot ELSE seen \in Targets
      BY <1>3, <2>1, <2>3 DEF QueueInv
    <3> QED
      BY <1>5, <2>3, <2>4, <3>1
  <2> QED
    BY <2>2, <2>4
<1> QED
  BY <1>6, <1>7

\* From the CRC on there is no way back into it.
LEMMA CrcSampled ==
    ASSUME NEW s, Clock(1, s, 0), fsm_state \in {"CRC_STF", "CRC", "EOF"}
    PROVE  /\ fsm_state' \in {"CRC_STF", "CRC", "EOF", "SLEEP", "ERRF"}
           /\ fsm_state = "EOF" => fsm_state' \notin {"CRC_STF", "CRC"}
<1>1. CASE ParserStuffError(1, s)
  BY <1>1 DEF ParserStuffError, GoTo
<1>2. CASE SkipStuffBit(s)
  BY <1>2 DEF SkipStuffBit
<1>3. CASE ParseBit(s)
  <2>1. StuffCountBit \/ CrcBit \/ TailBit(s) \/ LastTailBit(s)
    BY <1>3 DEF ParseBit, ArbitrationBit, ArbitrationEnd, FdfBit, ReservedBit, BrsOrEsiBit,
       DlcBit, LastDlcBit, DataBit, ErrorFlagBit, AwaitEofBit
  <2> QED
    BY <2>1 DEF StuffCountBit, CrcBit, TailBit, LastTailBit, GoTo
<1> QED
  BY <1>1, <1>2, <1>3 DEF Clock, ParserClock, ParserSleep, Asleep

\* A frame that is not broken brings the parser to no error flag.
LEMMA NoErrorFlag ==
    ASSUME BusTypes, BusInv, Receiver, can_tx = 0 => id_ready = 1, awake = 1, awake' = 1,
           CoreNext, mode = "frame", mode' = "frame"
    PROVE  fsm_state' /= "ERRF"
<1>1. Framing'
  BY FramingStep
<1> QED
  BY <1>1 DEF Framing, Receiving, Aligned, ParserState, Entering, Starting, Leaving, Done

\* What the unit remembers of the parser stays that of the bit before.
LEMMA ShadowStep ==
    ASSUME BusTypes, BusInv, ChainInv, UnitInv, BitTypes, GhostInv, ShadowInv,
           awake = 1, awake' = 1, CoreNext, mode = "frame", mode' = "frame"
    PROVE  ShadowInv'
<1> USE Phases
<1>1. PICK in : UnitEdge(in)
  BY UnitEdges
<1>2. /\ Receiver /\ AwakeEdge /\ status.eof = 0 /\ phase \in 0 .. BitEdges - 1
      /\ phase' = (IF phase = BitEdges - 1 THEN 0 ELSE phase + 1)
      /\ Matched(in) \/ GoesOn(in) \/ GivesUp(in) \/ Judges(in)
      /\ can_tx = 0 => id_ready = 1
  BY <1>1 DEF UnitEdge, AwakeEdge, UnitInv, Armed
<1>3. ASSUME Active', ~NewMatch(in)
      PROVE  /\ Active /\ ou_state' = ou_state /\ (GoesOn(in) \/ Judges(in))
             /\ id_ready = 1 /\ Receiving /\ fsm_state = ParserState
             /\ phase /= 0 => fsm_state' = fsm_state
  <2>1. Active /\ ou_state' = ou_state /\ (GoesOn(in) \/ Judges(in))
    BY <1>2, <1>3 DEF Matched, GoesOn, GivesUp, Judges, Active
  <2>2. id_ready = 1
    BY <1>1, <2>1, ActiveSlot
  <2> QED
    BY <1>2, <2>1, <2>2, Foreseen, StateKept
<1>4. ASSUME Active', late_strobe' /= 1
      PROVE  IF phase' = 1 THEN onbus'.kind = "field" => shadow_state' = onbus'.state
             ELSE shadow_state' = fsm_state'
  <2>1. ~NewMatch(in)
    BY <1>2, <1>4 DEF Matched, GoesOn, GivesUp, Judges
  <2>2. CASE phase = 0
    <3>1. GoesOn(in) /\ late_strobe /= 1
      BY <1>1, <1>2, <1>3, <1>4, <2>1, <2>2 DEF Judges, UnitEdge
    <3>2. shadow_state' = fsm_state
      BY <1>3, <1>4, <2>1, <2>2, <3>1 DEF GoesOn, ShadowInv
    <3>3. onbus' = onbus /\ phase' = 1
      BY <1>2, <2>2, SampledBit
    <3>4. onbus.kind = "field" => onbus.state = ParserState
      BY <2>2, BitAhead DEF GhostInv, OnBus
    <3> QED
      BY <1>3, <1>4, <2>1, <3>2, <3>3, <3>4
  <2>3. CASE phase /= 0
    <3>1. shadow_state' = fsm_state
      <4>1. CASE Judges(in)
        BY <4>1 DEF Judges
      <4>2. CASE GoesOn(in)
        BY <1>1, <1>3, <1>4, <2>1, <4>2 DEF GoesOn, UnitEdge, ShadowInv, Active
      <4> QED
        BY <1>3, <1>4, <2>1, <4>1, <4>2
    <3> QED
      BY <1>2, <1>3, <1>4, <2>1, <2>3, <3>1
  <2> QED
    BY <2>2, <2>3
<1>5. ASSUME ou_state' = "OU_AWAIT_FI" \/ late_strobe' = 1
      PROVE  /\ shadow_state' = "ABIT"
             /\ id_ready' = 1 /\ Asked' /\ stuff' /= NoStuff => onbus'.state = "ABIT"
  <2>1. ou_state = "OU_AWAIT_FI" /\ shadow_state' = shadow_state
    BY <1>2, <1>5 DEF Matched, NewMatch, GoesOn, GivesUp, Judges
  <2>2. ASSUME id_ready' = 1, Asked', stuff' /= NoStuff
        PROVE  onbus'.state = "ABIT"
    <3>1. CASE phase = 0
      <4>1. stuff = NoStuff /\ onbus' = onbus /\ Receiving
        BY <1>2, <2>2, <3>1, SampledBit
      <4>2. id_ready = 0
        <5>1. id_ready = 1 => Asked
          BY <2>2, SlotKept
        <5>2. id_ready \in {0, 1}
          BY DEF BusTypes, TypeOK, ParserTypeOK, Bit
        <5> QED
          BY <2>1, <3>1, <5>1, <5>2, AwaitsAtSample
      <4>3. ParserState = "ABIT"
        BY <4>1, <4>2 DEF Receiving, Decoding, ToRrs, ToIde, ParserState
      <4> QED
        BY <3>1, <4>1, <4>3, BitAhead DEF GhostInv, OnBus
    <3>2. CASE phase /= 0
      <4>1. id_ready = 1 /\ Asked /\ stuff /= NoStuff
        BY <1>2, <2>2, <3>2, SlotKept, Ahead
      <4>2. onbus.state = "ABIT"
        BY <2>1, <4>1 DEF ShadowInv
      <4>3. Upcoming.state = onbus.state
        BY <4>1, BitAhead
      <4> QED
        BY <1>2, <3>2, <4>2, <4>3, Ahead
    <3> QED
      BY <3>1, <3>2
  <2> QED
    BY <2>1, <2>2 DEF ShadowInv
<1>6. ASSUME ou_state' = "OU_BSFX", bsfx_shift' = 1
      PROVE  /\ fsm_state' \in {"CRC_STF", "CRC", "EOF", "SLEEP"}
             /\ fsm_state' \in {"CRC_STF", "CRC"} => shadow_state' \in {"CRC_STF", "CRC"}
  <2>1. ~NewMatch(in)
    <3>1. SUFFICES ASSUME NewMatch(in) PROVE FALSE
      OBVIOUS
    <3>2. bsfx_shift = 0
      BY <3>1, AwaitsAtSample DEF NewMatch
    <3> QED
      BY <1>2, <1>6, <3>1, <3>2 DEF Matched, GoesOn, GivesUp, Judges
  <2>2. Active'
    BY <1>6 DEF Active
  <2>3. ou_state = "OU_BSFX" /\ fsm_state /= "SLEEP"
    BY <1>3, <1>6, <2>1, <2>2 DEF Receiving, Following
  <2>4. CASE phase = 0
    <3>1. GoesOn(in) /\ Clock(1, Level, 0)
      BY <1>1, <1>2, <1>3, <2>1, <2>2, <2>4, SampledBit DEF Judges, UnitEdge
    <3>2. bsfx_shift = 1 /\ shadow_state' = shadow_state
      BY <1>6, <3>1 DEF GoesOn
    <3>3. /\ fsm_state \in {"CRC_STF", "CRC", "EOF"}
          /\ fsm_state \in {"CRC_STF", "CRC"} => shadow_state \in {"CRC_STF", "CRC"}
      BY <2>3, <3>2 DEF ShadowInv
    <3> QED
      BY <1>2, <3>1, <3>2, <3>3, CrcSampled, NoErrorFlag
  <2>5. CASE phase /= 0
    <3>1. fsm_state' = fsm_state
      BY <1>3, <2>1, <2>2, <2>5
    <3>2. CASE GoesOn(in)
      BY <1>6, <2>3, <3>1, <3>2 DEF GoesOn, ShadowInv
    <3>3. CASE Judges(in)
      <4>1. shadow_state' = fsm_state
        BY <3>3 DEF Judges
      <4>2. bsfx_shift = 1 => fsm_state \in {"CRC_STF", "CRC", "EOF", "SLEEP"}
        BY <2>3 DEF ShadowInv
      <4>3. bsfx_shift /= 1 => fsm_state \in {"CRC_STF", "CRC"}
        <5>1. SUFFICES ASSUME bsfx_shift /= 1 PROVE fsm_state \in {"CRC_STF", "CRC"}
          OBVIOUS
        <5>2. prep_strobe' = 1
          BY <1>6, <3>3, <5>1 DEF Judges
        <5>3. BsfxWindow \in {"CRC_STF", "CRC"}
          BY <1>1, <1>2, <1>3, <2>1, <2>2, <2>3, <3>3, <5>2, StageOne
        <5> QED
          BY <5>1, <5>3 DEF BsfxWindow
      <4> QED
        BY <3>1, <4>1, <4>2, <4>3
    <3> QED
      BY <1>3, <2>1, <2>2, <3>2, <3>3
  <2> QED
    BY <2>4, <2>5
<1> QED
  BY <1>4, <1>5, <1>6 DEF ShadowInv

\* A bit is prepared in the slot's field only.
LEMMA PrepStep ==
    ASSUME BusTypes, BusInv, ChainInv, UnitInv, BitTypes, GhostInv, ShadowInv,
           awake = 1, awake' = 1, CoreNext, mode = "frame", mode' = "frame"
    PROVE  PrepInv'
<1> USE Phases
<1> SUFFICES ASSUME prep_strobe' = 1
    PROVE  /\ ou_state' = "OU_BIT" => fsm_state' = CanField(Fi'.field) /\ fsm_cnt' = Fi'.meta
           /\ ou_state' = "OU_BSDY" /\ stuff' /= NoStuff =>
                 Upcoming'.state = CanField(Fi'.field)
  BY DEF PrepInv
<1>1. PICK in : UnitEdge(in)
  BY UnitEdges
<1>2. /\ Receiver /\ status.eof = 0
      /\ Matched(in) \/ GoesOn(in) \/ GivesUp(in) \/ Judges(in)
  BY <1>1 DEF UnitEdge, AwakeEdge, UnitInv
<1>3. Judges(in) /\ Active /\ ou_state' = ou_state
  BY <1>2 DEF Matched, GoesOn, GivesUp, Judges
<1>4. phase /= 0
  BY <1>1, <1>3 DEF Judges, UnitEdge
<1>5. /\ ou_state = "OU_BIT" => fsm_state = CanField(Fi.field) /\ fsm_cnt = Fi.meta
      /\ ou_state = "OU_BSDY" /\ stuff /= NoStuff => Upcoming.state = CanField(Fi.field)
  BY <1>1, <1>2, <1>3, StageOne
<1>6. id_ready = 1
  BY <1>1, <1>3, ActiveSlot
<1>7. UNCHANGED << fsm_state, fsm_cnt >>
  BY <1>2, <1>4, <1>6, StateKept
<1> QED
  BY <1>2, <1>3, <1>4, <1>5, <1>7, Ahead
-----------------------------------------------------------------------------
(* The invariant of the one bit *)

\* The core starts with no bit on the bus.
LEMMA ExactInit == CoreInit => ExactInv
<1> SUFFICES ASSUME CoreInit PROVE ExactInv
  OBVIOUS
<1>1. awake = 0 /\ onbus = NoBit /\ seen = 0 /\ hits = 0
  BY DEF CoreInit
<1>2. BitTypes
  BY <1>1, FsmStateNames DEF BitTypes, NoBit
<1> QED
  BY <1>1, <1>2 DEF ExactInv, HitInv

\* The wake-up finds the unit and the ghosts as before the first bit.
LEMMA ExactWakeUp ==
    ASSUME CoreInv, ExactInv, WakeUp
    PROVE  ExactInv'
<1> USE Phases
<1>1. /\ awake = 0 /\ phase = BitEdges - 1 /\ Units(1, 0, 0, 0) /\ StartFrame
      /\ phase' = Boundary /\ mode' = "frame" /\ onbus' = NoBit /\ seen' = 0 /\ hits' = 0
  BY DEF WakeUp
<1>2. Receiver /\ ou_state = "OU_AWAIT_FI" /\ AsleepInv
  BY <1>1 DEF CoreInv, UnitInv, AsleepInv
<1>3. /\ Clock(0, Level, 1) /\ ou_state' = "OU_AWAIT_FI"
      /\ prep_strobe' = 0 /\ late_strobe' = 0 /\ arm' = 0
  BY <1>1, <1>2, UnitsAsleep DEF Receiver
<1>4. id_ready' = 0
  BY <1>3 DEF Clock, ParserClock, ParserSleep, Asleep
<1>5. shadow_state' = "ABIT"
  <2>1. PICK d \in DataBits :
          OuClock([sleep |-> 1, fi |-> fi_frame, fi_ready |-> fi_frame_ready,
                   vec_ready |-> data_vector_ready, data |-> d, psp |-> Level,
                   psp_strb |-> 0, fip_strb |-> fip_strb, xcvr_strb |-> 0])
    BY <1>1 DEF Units
  <2> QED
    BY <2>1 DEF OuClock, OuStateMachine, NewMatch, OuSleep
<1>6. stuff' = NoStuff
  BY <1>1 DEF StartFrame
<1>7. BitTypes'
  BY <1>1, FsmStateNames DEF BitTypes, NoBit
<1>8. HitInv'
  BY <1>1, <1>3 DEF HitInv
<1>9. GhostInv'
  <2>1. ~OnBus'
    BY <1>1 DEF OnBus
  <2>2. ~onbus'.hot
    BY <1>1 DEF NoBit
  <2> QED
    BY <1>1, <1>6, <2>1, <2>2 DEF GhostInv
<1>10. CountInv' /\ QueueInv' /\ PrepInv'
  BY <1>3, <1>4 DEF CountInv, QueueInv, PrepInv, Active
<1>11. ShadowInv'
  BY <1>3, <1>4, <1>5 DEF ShadowInv, Active
<1> QED
  BY <1>7, <1>8, <1>9, <1>10, <1>11 DEF ExactInv

\* Every edge keeps the invariant.
LEMMA ExactStep ==
    ASSUME CoreInv, ExactInv, CoreNext
    PROVE  ExactInv'
<1>1. BitTypes'
  BY BitTypesStep DEF CoreInv, ExactInv
<1>2. CASE awake = 1 /\ awake' = 1
  <2>1. /\ BusTypes /\ BusInv /\ ChainInv /\ UnitInv /\ Receiver /\ BitTypes /\ HitInv
        /\ can_tx = 0 => id_ready = 1
    BY <1>2 DEF CoreInv, ExactInv, UnitInv, Armed
  <2>2. HitInv'
    BY <1>2, <2>1, HitStep
  <2>3. CASE mode = "frame" /\ mode' = "frame"
    <3>1. GhostInv /\ CountInv /\ QueueInv /\ ShadowInv /\ PrepInv
      BY <1>2, <2>3 DEF ExactInv
    <3>2. GhostInv'
      BY <1>2, <2>1, <2>3, <3>1, GhostStep
    <3>3. CountInv'
      BY <1>2, <2>1, <2>3, <3>1, CountStep
    <3>4. QueueInv'
      BY <1>2, <2>1, <2>3, <3>1, QueueStep
    <3>5. ShadowInv'
      BY <1>2, <2>1, <2>3, <3>1, ShadowStep
    <3>6. PrepInv'
      BY <1>2, <2>1, <2>3, <3>1, PrepStep
    <3> QED
      BY <1>1, <2>2, <3>2, <3>3, <3>4, <3>5, <3>6 DEF ExactInv
  <2>4. CASE mode /= "frame"
    <3>1. mode' /= "frame"
      BY <1>2, <2>1, <2>4, BrokenStep
    <3> QED
      BY <1>1, <2>2, <3>1 DEF ExactInv
  <2>5. CASE mode' /= "frame"
    BY <1>1, <2>2, <2>5 DEF ExactInv
  <2> QED
    BY <2>3, <2>4, <2>5
<1>3. CASE awake' /= 1
  BY <1>1, <1>3 DEF ExactInv, HitInv
<1>4. CASE awake /= 1 /\ awake' = 1
  <2>1. WakeUp
    BY <1>4 DEF CoreNext, FrameNext, Sample, BitStart, PreSample, FaultInjectionPoint,
       OtherEdge, Tick, SleepEdge, ResetEdge
  <2> QED
    BY <2>1, ExactWakeUp
<1> QED
  BY <1>2, <1>3, <1>4

\* So does a stuttering step.
LEMMA ExactStutter ==
    ASSUME ExactInv, UNCHANGED coreVars
    PROVE  ExactInv'
<1>1. /\ UNCHANGED << fsm_state, fsm_cnt, fd_mode, id_ready >>
      /\ UNCHANGED << field, pos, format, id, stuff >>
      /\ UNCHANGED << phase, awake, sent, mode, id_mem, onbus, seen, target, hits >>
      /\ UNCHANGED << ou_state, prep_strobe, late_strobe, shadow_state, bsfx_shift >>
      /\ UNCHANGED << queue, bs_cnt, arm >>
  BY DEF coreVars, fsmVars, parserVars, timerVars, busVars, txVars, ouVars
<1>2. Hitting' = Hitting /\ (Asked' <=> Asked) /\ Fi' = Fi
  BY <1>1 DEF Hitting, Asked, Fi
<1>3. Upcoming' = Upcoming
  BY <1>1 DEF Upcoming, ParserState, ParserCount, FixedStuffed
<1>4. /\ Adds' = Adds /\ Targets' = Targets /\ (OnBus' <=> OnBus)
      /\ (Active' <=> Active) /\ (Untaken' <=> Untaken)
  BY <1>1, <1>2, <1>3 DEF Adds, Targets, Counted, Targeted, OnBus, Active, Untaken
<1>5. Passed' = Passed
  BY <1>1, <1>4 DEF Passed
<1>6. BitTypes' /\ HitInv'
  BY <1>1 DEF ExactInv, BitTypes, HitInv
<1>7. SUFFICES ASSUME awake = 1, mode = "frame"
               PROVE  GhostInv' /\ CountInv' /\ QueueInv' /\ ShadowInv' /\ PrepInv'
  BY <1>1, <1>6 DEF ExactInv
<1>8. GhostInv'
  BY <1>1, <1>3, <1>4, <1>7 DEF ExactInv, GhostInv
<1>9. CountInv' /\ QueueInv'
  BY <1>1, <1>2, <1>4, <1>5, <1>7 DEF ExactInv, CountInv, QueueInv
<1>10. ShadowInv' /\ PrepInv'
  BY <1>1, <1>2, <1>3, <1>4, <1>7 DEF ExactInv, ShadowInv, PrepInv
<1> QED
  BY <1>8, <1>9, <1>10

\* A sampled bit that the injector drives is the slot's target, was recessive,
\* and is the first one that it drives.
LEMMA DrivenTarget == CoreInv /\ ExactInv => SingleBitExact
<1> SUFFICES ASSUME CoreInv, ExactInv, can_tx = 0, AtSample, Unflagged
             PROVE  onbus.hot /\ target = "recessive" /\ hits = 0
  BY DEF SingleBitExact
<1>1. phase = 0 /\ awake = 1
  BY DEF AtSample
<1>2. Active /\ queue = 0 /\ arm = 1
  BY <1>1 DEF CoreInv, UnitInv, Armed
<1>3. hits = 0 /\ sent = 1 /\ mode /= "silent"
  BY <1>1, <1>2 DEF ExactInv, HitInv, BitTypes, Active
<1>4. mode = "frame"
  BY <1>3 DEF Unflagged
<1>5. onbus.hot
  BY <1>1, <1>2, <1>4 DEF ExactInv, QueueInv, OnBus
<1> QED
  BY <1>1, <1>3, <1>4, <1>5 DEF ExactInv, GhostInv

-----------------------------------------------------------------------------
(* The feedback *)

\* The slot's target is on the bus; the unit has a frame to report on.
Current == awake = 1 /\ mode = "frame" /\ OnBus /\ onbus.hot
Reporting == Asked /\ (ou_state /= "OU_AWAIT_FI" \/ interrupt_req = 1)

\* The slot's target will not come (any more): its field is past, or the bit or
\* stuff bit of its number is.
Past(state) == After(state, CanField(Fi.field))
Over ==
    \/ /\ Fi.type = "FI_BIT"
       /\ Past(fsm_state) \/ (fsm_state = CanField(Fi.field) /\ fsm_cnt > Fi.meta)
    \/ /\ Fi.type = "FI_BSDY"
       /\ (Past(fsm_state) /\ (stuff /= NoStuff => Past(Upcoming.state))) \/ seen > Fi.meta
    \/ Fi.type = "FI_BSFX" /\ (After(fsm_state, "CRC") \/ seen > Fi.meta)

FlagTypes ==
    /\ err \in [miss : Bit, fsm : Bit, dlc : Bit] /\ inj_pending \in Bit /\ err_dom \in Bit
    /\ target \in {"none", "recessive", "dominant"}
    /\ interrupt_req = 1 => ou_state = "OU_AWAIT_FI"
    /\ shadow_state \in FsmStates /\ mode \in {"frame", "flag", "flagged", "silent"}

\* Pending falls with the arming of the bit that will be hit.
PendInv ==
    Reporting => /\ inj_pending = 0 => arm = 1 \/ hits > 0
                 /\ phase = 1 /\ arm = 1 => hits > 0
                 /\ hits > 0 /\ arm = 0 => inj_pending = 0

\* A unit that still hunts has reported nothing; one that awaits its frame has
\* missed nothing.
HuntInv ==
    awake = 1 =>
        /\ Active => err.miss = 0 /\ (err_dom = 1 => queue = 0 /\ arm = 0 /\ sent = 0)
        /\ ou_state = "OU_AWAIT_FI" /\ ~Current => target = "none"

\* The target finds the unit hunting, unless the unit gave way to it.
TargetInv ==
    Current => /\ id_ready = 1 /\ hits = 0 /\ Passed \in Targets
               /\ ou_state = "OU_DONE" => sent = 0 /\ err_dom = 1 /\ err.miss = 0
TakenInv ==
    Active /\ queue = 1 /\ ~Untaken => Passed \notin Targets

\* The unit remembers no state that is still to come.
OrderInv ==
    (Active /\ phase = 1) \/ ou_state = "OU_AWAIT_FI" => ~After(shadow_state, fsm_state)

\* A unit that is done has nothing left to hit.
OverInv ==
    id_ready = 1 /\ SingleBit /\ ~Current /\ (target /= "none" \/ ou_state = "OU_DONE") => Over

\* What became of the target.
OutcomeInv ==
    Reporting /\ ~Current =>
        /\ target = "recessive" =>
              /\ hits = 1 /\ err_dom = 0 /\ err.miss = 0
              /\ Active => awake = 1 /\ phase = 1 /\ arm = 1
        /\ target = "dominant" => hits = 0 /\ err_dom = 1 /\ err.miss = 0 /\ ~Active
NoneInv ==
    Reporting /\ SingleBit /\ target = "none" /\ Unflagged =>
        hits = 0 /\ err_dom = 0 /\ err.fsm = 0 /\ (err.miss = 1 \/ Active)

FlagInv ==
    /\ FlagTypes /\ PendInv /\ HuntInv /\ TargetInv /\ OutcomeInv /\ NoneInv
    /\ awake = 1 /\ mode = "frame" => TakenInv /\ OrderInv /\ OverInv
-----------------------------------------------------------------------------
(* The order of the fields *)

\* The states of the parser in the order of the enumeration.
LEMMA StateOrder ==
    /\ \A s \in FsmStates : FsmPos[s] \in Nat \ {0}
    /\ FsmPos["ABIT"] = 1 /\ FsmPos["CTRL"] = 2 /\ FsmPos["DATA"] = 3
    /\ FsmPos["CRC_STF"] = 4 /\ FsmPos["CRC"] = 5 /\ FsmPos["EOF"] = 6
    /\ FsmPos["ERRF"] = 7 /\ FsmPos["AWAIT_EOF"] = 8 /\ FsmPos["RESET"] = 9
    /\ FsmPos["SLEEP"] = 10
<1>1. DOMAIN FsmOrder = 1 .. 10
  BY DEF FsmOrder
<1>2. ASSUME NEW i \in 1 .. 10
      PROVE  FsmOrder[i] \in FsmStates /\ FsmPos[FsmOrder[i]] = i
  <2>1. i \in {1, 2, 3, 4, 5, 6, 7, 8, 9, 10}
    OBVIOUS
  <2>2. \A j \in 1 .. 10 : j \in {1, 2, 3, 4, 5, 6, 7, 8, 9, 10}
    OBVIOUS
  <2>3. \A j \in DOMAIN FsmOrder : FsmOrder[j] = FsmOrder[i] => j = i
    BY <1>1, <2>1, <2>2 DEF FsmOrder
  <2>4. FsmOrder[i] \in FsmStates
    BY <1>1 DEF FsmStates
  <2>5. FsmPos[FsmOrder[i]] = CHOOSE j \in DOMAIN FsmOrder : FsmOrder[j] = FsmOrder[i]
    BY <2>4 DEF FsmPos
  <2> QED
    BY <1>1, <2>3, <2>4, <2>5
<1>3. \A s \in FsmStates : FsmPos[s] \in Nat \ {0}
  BY <1>1, <1>2 DEF FsmStates
<1>4. /\ FsmOrder[1] = "ABIT" /\ FsmOrder[2] = "CTRL" /\ FsmOrder[3] = "DATA"
      /\ FsmOrder[4] = "CRC_STF" /\ FsmOrder[5] = "CRC" /\ FsmOrder[6] = "EOF"
      /\ FsmOrder[7] = "ERRF" /\ FsmOrder[8] = "AWAIT_EOF" /\ FsmOrder[9] = "RESET"
      /\ FsmOrder[10] = "SLEEP"
  BY DEF FsmOrder
<1> QED
  BY <1>2, <1>3, <1>4

\* The parser never goes back: a stuff bit leaves it where it is, or breaks the
\* frame, and any other bit takes it on.
LEMMA Onward ==
    ASSUME NEW s, Clock(1, s, 0), TypeOK,
           fsm_state \in {"ABIT", "CTRL", "DATA", "CRC_STF", "CRC", "EOF"}
    PROVE  \/ After(fsm_state', fsm_state)
           \/ fsm_state' = fsm_state /\ fsm_cnt' > fsm_cnt
           \/ fsm_state' = fsm_state /\ fsm_cnt' = fsm_cnt /\ bs_insert = 1
<1>1. fsm_cnt \in Nat
  BY DEF TypeOK, ParserTypeOK
<1>2. CASE ParserStuffError(1, s)
  BY <1>2, StateOrder DEF ParserStuffError, GoTo, After
<1>3. CASE SkipStuffBit(s)
  BY <1>3 DEF SkipStuffBit
<1>4. CASE ParseBit(s)
  <2>1. CASE fsm_state \in {"ABIT", "CTRL"}
    <3>1. \/ ArbitrationBit(s) \/ ArbitrationEnd(s)
          \/ FdfBit(s) \/ ReservedBit \/ BrsOrEsiBit \/ DlcBit(s) \/ LastDlcBit(s)
      BY <1>4, <2>1, Branches
    <3> QED
      BY <1>1, <3>1, StateOrder DEF ArbitrationBit, ArbitrationEnd, FdfBit, ReservedBit,
         BrsOrEsiBit, DlcBit, LastDlcBit, EnterCrc, GoTo, After
  <2>2. CASE fsm_state \in {"DATA", "CRC_STF", "CRC", "EOF"}
    <3>1. DataBit \/ StuffCountBit \/ CrcBit \/ TailBit(s) \/ LastTailBit(s)
      BY <1>4, <2>2, Branches
    <3> QED
      BY <1>1, <3>1, StateOrder DEF DataBit, StuffCountBit, CrcBit, TailBit, LastTailBit,
         EnterCrc, GoTo, After
  <2> QED
    BY <2>1, <2>2
<1> QED
  BY <1>2, <1>3, <1>4 DEF Clock, ParserClock, ParserSleep, Asleep
-----------------------------------------------------------------------------
(* What the unit reports, and what the bus does *)

\* The ways in which an edge leaves the unit: it goes on as it was, or it ends
\* the hunt, at an error flag, before a dominant bit, after its hit or when the
\* target is past.
Stays(in) == ~NewMatch(in) /\ ou_state' = ou_state /\ err' = err
Breaks(in) ==
    /\ ~NewMatch(in) /\ ou_state' = "OU_DONE" /\ fsm_state = "ERRF"
    /\ err' = [err EXCEPT !.fsm = 1]
Yields(in) ==
    /\ ~NewMatch(in) /\ ou_state' = "OU_DONE" /\ fsm_state /= "ERRF"
    /\ Active /\ err_dom = 1 /\ phase = Fip + 1 /\ err' = err
Finds(in) ==
    /\ ~NewMatch(in) /\ ou_state' = "OU_DONE" /\ fsm_state /= "ERRF"
    /\ Active /\ Judges(in) /\ phase \in {1, TreeDepth + 5}
    /\ err' = (IF arm = 1 THEN err ELSE [err EXCEPT !.miss = 1])

LEMMA UnitReports ==
    ASSUME Receiver, Strobed, arm \in Bit, NEW in, UnitEdge(in)
    PROVE  /\ inj_pending' = (IF NewMatch(in) THEN 1 ELSE IF arm = 1 THEN 0 ELSE inj_pending)
           /\ \/ Matched(in) /\ err' = NoErr
              \/ Stays(in) \/ Breaks(in) \/ Yields(in) \/ Finds(in)
<1>1. /\ in.sleep = 0 /\ in.xcvr_strb = 0 /\ in.fip_strb = fip_strb /\ OuStateMachine(in)
      /\ fip_strb = 1 <=> phase = Fip + 1
      /\ xcvr_req = 0 /\ ou_state \in OuStates \ {"OU_DLC", "OU_DATA_CRC"}
  BY DEF UnitEdge, Inputs, OuClock, Strobed, Receiver
<1>2. CASE NewMatch(in)
  <2>1. OuMatch(in)
    BY <1>1, <1>2 DEF OuStateMachine, NewMatch
  <2> QED
    BY <1>2, <2>1 DEF OuMatch, Matched
<1>3. CASE fsm_state = "ERRF"
  <2>1. OuErrorFrame /\ ~NewMatch(in)
    BY <1>1, <1>3 DEF OuStateMachine, NewMatch
  <2> QED
    BY <1>3, <2>1 DEF OuErrorFrame, PendingAfterArm, Breaks
<1>4. CASE ~NewMatch(in) /\ fsm_state /= "ERRF" /\ ou_state = "OU_AWAIT_FI"
  <2>1. OuHold
    BY <1>1, <1>4 DEF OuStateMachine
  <2> QED
    BY <1>4, <2>1 DEF OuHold, PendingAfterArm, Stays
<1>5. CASE fsm_state /= "ERRF" /\ ou_state /= "OU_AWAIT_FI"
  <2>1. ~NewMatch(in) /\ (Active \/ ou_state = "OU_DONE")
    BY <1>1, <1>5 DEF NewMatch, Active, OuStates
  <2>2. CASE OuDominant /\ err_dom = 1 /\ in.fip_strb = 1
    BY <1>1, <1>5, <2>1, <2>2 DEF OuDominant, PendingAfterArm, Stays, Yields
  <2>3. CASE OuHold
    BY <2>1, <2>3 DEF OuHold, PendingAfterArm, Stays
  <2>4. CASE OuSample(in) /\ (sample_ready = 1 \/ late_strobe = 1)
    <3>1. inj_pending' = (IF arm = 1 THEN 0 ELSE inj_pending)
      BY <2>4 DEF OuSample, PendingAfterArm
    <3>2. CASE ou_state = "OU_DONE"
      <4>1. Verdict(in) = "Stop"
        BY <3>2 DEF Verdict
      <4> QED
        BY <2>1, <2>4, <3>1, <3>2, <4>1 DEF OuSample, Stays
    <3>3. CASE Active
      <4>1. Judges(in)
        BY <1>1, <1>5, <2>1, <2>4, Judgement DEF Judges
      <4>2. phase \in {1, TreeDepth + 5}
        BY <2>4 DEF UnitEdge
      <4>3. /\ arm = 1 => Verdict(in) = "Stop"
            /\ arm /= 1 => Verdict(in) \in {"Prep", "Miss", "Keep"}
        <5>1. Verdict(in) = (CASE ou_state = "OU_BIT"  -> BitVerdict(in)
                               [] ou_state = "OU_BSDY" -> BsdyVerdict
                               [] ou_state = "OU_BSFX" -> BsfxVerdict
                               [] OTHER                -> "Stop")
          BY <1>1 DEF OuStates, Verdict
        <5> QED
          BY <3>3, <5>1 DEF Active, BitVerdict, BsdyVerdict, BsfxVerdict
      <4> QED
        BY <1>5, <2>1, <2>4, <3>1, <3>3, <4>1, <4>2, <4>3 DEF OuSample, Stays, Finds
    <3> QED
      BY <2>1, <3>2, <3>3
  <2> QED
    BY <1>1, <1>5, <2>1, <2>2, <2>3, <2>4 DEF OuStateMachine
<1> QED
  BY <1>2, <1>3, <1>4, <1>5

\* Only a sample of an armed core counts as a hit.
LEMMA HitsMove ==
    ASSUME UnitInv, BusTypes, HitInv, awake = 1, CoreNext
    PROVE  /\ hits' = (IF phase = 0 /\ arm = 1 /\ hits < 2 THEN hits + 1 ELSE hits)
           /\ phase = 0 => Sample
<1> USE Phases
<1>1. /\ AwakeEdge /\ (phase = 0 => Sample) /\ (phase = Boundary => BitStart)
  BY AwakeEdges DEF UnitInv
<1>2. Armed /\ can_tx \in {0, 1} /\ sent \in {0, 1} /\ arm \in {0, 1}
  BY DEF UnitInv, Armed, BusTypes, Bit
<1>3. hits' = (IF phase = 0 /\ Overridden /\ hits < 2 THEN hits + 1 ELSE hits)
  <2>1. PreSample \/ FaultInjectionPoint \/ OtherEdge \/ BitStart \/ Sample
    BY DEF CoreNext, FrameNext, SleepEdge, WakeUp, ResetEdge
  <2> QED
    BY <1>1, <2>1 DEF PreSample, FaultInjectionPoint, OtherEdge, BitStart, Sample
<1>4. ASSUME phase = 0 PROVE Overridden <=> arm = 1
  <2>1. ASSUME Overridden PROVE arm = 1
    <3>1. can_tx = 0
      BY <1>2, <2>1 DEF Overridden, Level
    <3> QED
      BY <1>2, <1>4, <3>1 DEF Armed
  <2>2. ASSUME arm = 1 PROVE Overridden
    <3>1. can_tx = 0 /\ sent = 1
      BY <1>2, <1>4, <2>2 DEF Armed, Driving, HitInv
    <3> QED
      BY <3>1 DEF Overridden, Level
  <2> QED
    BY <2>1, <2>2
<1> QED
  BY <1>1, <1>3, <1>4

\* What the slot asks for is kept to the end of the frame.
LEMMA SlotHeld ==
    ASSUME CoreInv, awake = 1, CoreNext, id_ready = 1
    PROVE  Fi' = Fi /\ (Asked' <=> Asked)
<1>1. BusTypes /\ BusInv /\ ChainInv /\ UnitInv /\ Receiver
  BY DEF CoreInv, UnitInv
<1>2. AwakeEdge
  BY <1>1, AwakeEdges
<1>3. CASE awake' = 1
  BY <1>1, <1>3, SlotKept
<1>4. CASE awake' /= 1
  <2>1. status.eof = 1
    BY <1>1, <1>2, <1>4 DEF AwakeEdge, BusTypes, TypeOK, ParserTypeOK, Statuses, Bit
  <2>2. phase = 1
    BY <1>1, <2>1 DEF BusInv, Framing, Broken, Receiving, Following, Entering, Starting, Clean,
       Leaving, NoStatus
  <2>3. UNCHANGED << id, id_mem >>
    BY <1>2, <2>2, Phases DEF AwakeEdge, txVars
  <2> QED
    BY <2>3 DEF Asked, Hitting, Fi
<1> QED
  BY <1>3, <1>4

\* How the ghosts move: the target comes onto the bus at the boundary and leaves it
\* with its sample, and nothing else changes what is said of it.
LEMMA Turns ==
    ASSUME CoreInv, ExactInv, awake = 1, CoreNext
    PROVE  /\ phase \in 0 .. BitEdges - 1
           /\ IF awake' = 1 THEN phase' = (IF phase = BitEdges - 1 THEN 0 ELSE phase + 1)
              ELSE awake' = 0 /\ phase = 1 /\ phase' = 0
           /\ phase \notin {0, Boundary} =>
                 UNCHANGED << onbus, seen, target, sent, mode, hits, stuff >>
           /\ phase = 0 => UNCHANGED << seen, target, sent >>
           /\ phase = Boundary => hits' = hits
           /\ phase = Boundary =>
                 \/ mode = "frame" /\ mode' = "frame"
                 \/ mode' /= "frame" /\ target' = target
           /\ mode' = "frame" => mode = "frame"
           /\ Unflagged' => Unflagged
<1> USE Phases
<1>1. BusTypes /\ BusInv /\ ChainInv /\ UnitInv /\ Receiver
  BY DEF CoreInv, UnitInv
<1>2. AwakeEdge /\ (phase = 0 => Sample) /\ (phase = Boundary => BitStart)
  BY <1>1, AwakeEdges
<1>3. phase \in 0 .. BitEdges - 1 /\ status.eof \in {0, 1}
  BY <1>1 DEF BusTypes, TypeOK, ParserTypeOK, Statuses, Bit
<1>4. status.eof = 1 => phase = 1
  BY <1>1 DEF BusInv, Framing, Broken, Receiving, Following, Entering, Starting, Clean,
     Leaving, NoStatus
<1>5. IF awake' = 1 THEN phase' = (IF phase = BitEdges - 1 THEN 0 ELSE phase + 1)
      ELSE awake' = 0 /\ phase = 1 /\ phase' = 0
  BY <1>2, <1>3, <1>4 DEF AwakeEdge
<1>6. ASSUME phase \notin {0, Boundary}
      PROVE  UNCHANGED << onbus, seen, target, sent, mode, hits, stuff >>
  <2>1. PreSample \/ FaultInjectionPoint \/ OtherEdge
    BY <1>6 DEF CoreNext, FrameNext, Sample, BitStart, SleepEdge, WakeUp, ResetEdge
  <2> QED
    BY <2>1 DEF PreSample, FaultInjectionPoint, OtherEdge, busVars, txVars
<1>7. ASSUME phase = 0 PROVE UNCHANGED << seen, target, sent >>
  BY <1>2, <1>7 DEF Sample
<1>8. ASSUME phase = Boundary
      PROVE  /\ hits' = hits
             /\ \/ mode = "frame" /\ mode' = "frame"
                \/ mode' /= "frame" /\ target' = target
             /\ Unflagged' => Unflagged
  BY <1>2, <1>8 DEF BitStart, SendBit, NextSent, SendFlagBit, StaySilent, ReceiverFlags, Unflagged
<1>9. mode' = "frame" => mode = "frame"
  <2>1. CASE awake' = 1
    BY <1>1, <2>1, BrokenStep
  <2>2. CASE awake' /= 1
    BY <1>5, <1>6, <2>2
  <2> QED
    BY <2>1, <2>2
<1>10. phase = 0 => (Unflagged' => Unflagged)
  BY <1>2 DEF Sample, Objects, Unflagged
<1> QED
  BY <1>3, <1>5, <1>6, <1>7, <1>8, <1>9, <1>10 DEF Unflagged

\* The target on the bus: from its boundary to its sample.
LEMMA CurrentTurns ==
    ASSUME CoreInv, ExactInv, awake = 1, CoreNext
    PROVE  /\ phase = 0 \/ phase = 1 => ~Current'
           /\ Current /\ ~Current' => phase = 0
           /\ ~Current /\ ~Current' => target' = target
           /\ Current' /\ phase /= Boundary => Current
           /\ Current' /\ phase = Boundary =>
                 id_ready = 1 /\ mode = "frame" /\ mode' = "frame" /\ seen \in Targets
           /\ phase \in 1 .. Boundary => ~Current
           /\ target' = "none" => target = "none"
<1> USE Phases
<1>1. /\ BusTypes /\ BusInv /\ Receiver /\ BitTypes
      /\ phase \in 0 .. BitEdges - 1
      /\ IF awake' = 1 THEN phase' = (IF phase = BitEdges - 1 THEN 0 ELSE phase + 1)
         ELSE awake' = 0 /\ phase = 1 /\ phase' = 0
      /\ phase \notin {0, Boundary} => UNCHANGED << onbus, target, mode >>
      /\ phase = 0 => target' = target
  BY Turns DEF CoreInv, UnitInv, ExactInv
<1>2. phase = 0 \/ phase = 1 => ~Current'
  BY <1>1 DEF Current, OnBus
<1>3. phase \in 1 .. Boundary => ~Current
  BY DEF Current, OnBus
<1>4. ASSUME Current, ~Current' PROVE phase = 0
  BY <1>1, <1>3, <1>4 DEF Current, OnBus
<1>5. Current' /\ phase /= Boundary => Current
  BY <1>1, <1>2 DEF Current, OnBus
<1>6. ASSUME phase = Boundary
      PROVE  /\ Current' => /\ id_ready = 1 /\ mode = "frame" /\ mode' = "frame"
                            /\ seen \in Targets
             /\ ~Current' => target' = target
             /\ target' = "none" => target = "none"
  <2>1. awake' = 1 /\ phase' = Boundary + 1
    BY <1>1, <1>6
  <2>2. CASE mode' /= "frame"
    BY <1>6, <2>2, Turns DEF Current
  <2>3. CASE mode' = "frame"
    <3>1. mode = "frame" /\ (Current' <=> onbus'.hot)
      BY <2>1, <2>3, Turns DEF Current, OnBus
    <3>2. /\ onbus'.hot <=> Arbitrated /\ seen \in Targets
          /\ onbus'.hot => target' = (IF sent' = 1 THEN "recessive" ELSE "dominant")
          /\ ~onbus'.hot => target' = target
      BY <1>1, <1>6, <2>3, <3>1, Ahead
    <3>3. Arbitrated => id_ready = 1
      <4>1. Framing
        BY <1>1, <3>1 DEF BusInv
      <4> QED
        BY <1>6, <4>1, ArbitratedFields
        DEF Framing, Entering, Leaving, Receiving, Decoding, ToRrs, ToIde
    <3> QED
      BY <2>3, <3>1, <3>2, <3>3
  <2> QED
    BY <2>2, <2>3
<1> QED
  BY <1>1, <1>2, <1>3, <1>4, <1>5, <1>6

\* Only a slot that is asked for has a target, and only one for a single bit.
LEMMA SlotAsked ==
    /\ SingleBit => Asked
    /\ \A n \in Targets : SingleBit
<1>1. SingleBit => Asked
  BY DEF SingleBit, Asked, Fi, FiNull
<1>2. ASSUME NEW n \in Targets PROVE SingleBit
  BY <1>2, SlotKinds DEF SingleBit, Targets
<1> QED
  BY <1>1, <1>2

\* A unit that has a frame to report on had it before the edge, or gets it now.
LEMMA ReportOn ==
    ASSUME CoreInv, awake = 1, CoreNext, NEW in, UnitEdge(in), Reporting'
    PROVE  /\ id_ready = 1 /\ Asked
           /\ NewMatch(in) \/ (ou_state /= "OU_AWAIT_FI" /\ Reporting)
<1> USE Phases
<1>1. /\ BusTypes /\ BusInv /\ ChainInv /\ Receiver /\ Strobed /\ queue \in {0, 1}
      /\ prep_strobe = 1 => Active
      /\ can_tx = 0 => id_ready = 1
  BY DEF CoreInv, UnitInv, Strobed, Queued, Armed, Bit
<1>2. /\ ou_state' /= "OU_AWAIT_FI" /\ Asked' /\ AwakeEdge /\ Inputs(in) /\ OuClock(in)
      /\ Matched(in) \/ GoesOn(in) \/ GivesUp(in) \/ Judges(in)
  BY DEF Reporting, UnitEdge
<1>3. CASE awake' = 1
  <2>1. PICK a \in 0 .. Evaluated : AgeOk(a) /\ ChainAt(a)
    BY <1>1 DEF ChainInv
  <2>2. PICK b \in 0 .. Evaluated : Older(a, b)
    BY <1>1, <1>3, <2>1, AgeStep
  <2>3. MemoryAt(a) /\ OverrideAt(a) /\ a \in Int /\ b \in Int
    BY <2>1 DEF ChainAt
  <2>4. ~(b > MatchAge' /\ Asked') => ou_state' = "OU_AWAIT_FI" \/ ~Asked'
    BY <1>1, <1>2, <2>2, <2>3, FedUnits, OverrideStep DEF Receiver, Quiet
  <2>5. b > MatchAge'
    BY <1>2, <2>4
  <2>6. id_ready = 1
    BY <1>1, <2>2, <2>3, <2>5 DEF Older, BusTypes, TypeOK, ParserTypeOK, Bit, MatchAge
  <2>7. Asked
    BY <1>2, <2>6, SlotHeld
  <2>8. MatchAge' = MatchAge /\ MatchAge \in Int /\ a >= MatchAge
    <3>1. b \in {a, a + 1} /\ Fi' = Fi
      BY <2>2, <2>6 DEF Older, Hitting, Fi
    <3>2. MatchAge' = MatchAge /\ MatchAge \in Int
      BY <3>1 DEF MatchAge, Fetched
    <3> QED
      BY <2>3, <2>5, <3>1, <3>2
  <2>9. CASE a = MatchAge
    BY <1>1, <1>2, <2>2, <2>3, <2>6, <2>7, <2>9, FedUnits, MatchAt
  <2>10. CASE a > MatchAge
    <3>1. ou_state \in {ActiveState(Fi.type), "OU_DONE"}
      BY <2>3, <2>7, <2>10 DEF OverrideAt
    <3> QED
      BY <2>6, <2>7, <3>1 DEF ActiveState, Reporting
  <2> QED
    BY <2>3, <2>6, <2>7, <2>8, <2>9, <2>10
<1>4. CASE awake' /= 1
  <2>1. status.eof = 1
    BY <1>1, <1>2, <1>4 DEF AwakeEdge, BusTypes, TypeOK, ParserTypeOK, Statuses, Bit
  <2>2. phase = 1 /\ fsm_state = "SLEEP" /\ id_ready = 1
    BY <1>1, <2>1 DEF BusInv, Framing, Broken, Receiving, Following, Entering, Starting, Clean,
       Leaving, NoStatus, Done, Decoding, ToRrs, ToIde
  <2>3. ~NewMatch(in)
    BY <2>2 DEF UnitEdge
  <2>4. ou_state /= "OU_AWAIT_FI"
    BY <1>2, <2>2, <2>3 DEF Matched, GoesOn, GivesUp, Judges
  <2> QED
    BY <1>2, <2>2, <2>4, SlotHeld DEF Reporting
<1> QED
  BY <1>3, <1>4
-----------------------------------------------------------------------------
(* The flags, edge by edge *)

\* The types of the flags.
LEMMA FlagTypesStep ==
    ASSUME CoreInv, ExactInv, FlagInv, awake = 1, CoreNext, NEW in, UnitEdge(in)
    PROVE  FlagTypes'
<1>1. /\ Receiver /\ Strobed /\ arm \in Bit /\ BusTypes /\ BitTypes
      /\ err \in [miss : Bit, fsm : Bit, dlc : Bit] /\ inj_pending \in Bit /\ err_dom \in Bit
      /\ target \in {"none", "recessive", "dominant"}
  BY DEF CoreInv, UnitInv, ExactInv, FlagInv, FlagTypes, Armed
<1>2. /\ 0 \in Bit /\ 1 \in Bit
      /\ \/ Matched(in) /\ err' = NoErr
         \/ Stays(in) \/ Breaks(in) \/ Yields(in) \/ Finds(in)
      /\ inj_pending' \in Bit
  BY <1>1, UnitReports DEF Bit
<1>3. err' \in [miss : Bit, fsm : Bit, dlc : Bit]
  BY <1>1, <1>2 DEF NoErr, Stays, Breaks, Yields, Finds
<1>4. err_dom' \in Bit
  BY <1>1, <1>2 DEF UnitEdge
<1>5. target' \in {"none", "recessive", "dominant"}
  <2>1. CASE phase /= Boundary
    BY <1>1, <2>1, Turns
  <2>2. CASE phase = Boundary /\ mode' /= "frame"
    BY <1>1, <2>2, Turns
  <2>3. CASE phase = Boundary /\ mode' = "frame"
    <3>1. mode = "frame" /\ phase /= 0
      BY <2>3, Turns, Phases
    <3> QED
      BY <1>1, <2>3, <3>1, Ahead
  <2> QED
    BY <2>1, <2>2, <2>3
<1>6. shadow_state' \in FsmStates
  <2>1. shadow_state \in FsmStates /\ fsm_state \in FsmStates
    BY <1>1 DEF FlagInv, FlagTypes, BusTypes, TypeOK, ParserTypeOK
  <2> QED
    BY <2>1 DEF UnitEdge, Matched, GoesOn, GivesUp, Judges
<1>7. mode' \in {"frame", "flag", "flagged", "silent"}
  <2>1. mode \in {"frame", "flag", "flagged", "silent"}
    BY DEF FlagInv, FlagTypes
  <2>2. (phase = 0 => Sample) /\ (phase = Boundary => BitStart)
    BY <1>1, AwakeEdges
  <2>3. CASE phase \in {0, Boundary}
    BY <2>1, <2>2, <2>3 DEF Sample, BitStart, SendBit, NextSent, SendFlagBit, StaySilent,
       ReceiverFlags
  <2>4. CASE phase \notin {0, Boundary}
    BY <2>1, <2>4, Turns
  <2> QED
    BY <2>3, <2>4
<1> QED
  BY <1>2, <1>3, <1>4, <1>5, <1>6, <1>7 DEF FlagTypes, UnitEdge

\* An armed unit is past the PSP, still hunting, and done with the sample.
LEMMA ArmedEdge ==
    ASSUME CoreInv, awake = 1, NEW in, UnitEdge(in), arm = 1
    PROVE  /\ Active /\ queue = 0 /\ err_dom /= 1 /\ ~NewMatch(in)
           /\ phase \in {0, 1} \cup (Psp + 1) .. (BitEdges - 1)
           /\ phase /= 1 => ou_state' = ou_state /\ arm' = 1
           /\ phase = 1 => ou_state' = "OU_DONE"
<1> USE Phases
<1>1. /\ Active /\ queue = 0 /\ Decided /\ err_dom /= 1
      /\ phase \in 0 .. BitEdges - 1
      /\ Matched(in) \/ GoesOn(in) \/ GivesUp(in) \/ Judges(in)
  BY DEF CoreInv, UnitInv, Armed, UnitEdge
<1>2. ~NewMatch(in)
  BY <1>1 DEF NewMatch, Active
<1>3. phase \in {0, 1} \cup (Psp + 1) .. (BitEdges - 1)
  BY <1>1 DEF Decided
<1>4. ASSUME phase = 1 PROVE ou_state' = "OU_DONE"
  BY <1>1, <1>2, <1>4 DEF Matched, GoesOn, GivesUp, Judges, UnitEdge, Active
<1>5. ASSUME phase /= 1 PROVE ou_state' = ou_state /\ arm' = 1
  <2>1. fsm_state /= "ERRF"
    BY <1>1, <1>5 DEF CoreInv, UnitInv, Finished, Active
  <2>2. ou_state' = ou_state
    BY <1>1, <1>2, <1>3, <1>5, <2>1 DEF Matched, GoesOn, GivesUp, Judges, UnitEdge
  <2> QED
    BY <1>1, <1>3, <2>2 DEF UnitEdge, Active
<1> QED
  BY <1>1, <1>2, <1>3, <1>4, <1>5

\* Pending is down when and only when a bit is being hit or was.
LEMMA PendStep ==
    ASSUME CoreInv, ExactInv, FlagInv, awake = 1, CoreNext, NEW in, UnitEdge(in)
    PROVE  PendInv'
<1> USE Phases
<1> SUFFICES ASSUME Reporting'
             PROVE  /\ inj_pending' = 0 => arm' = 1 \/ hits' > 0
                    /\ phase' = 1 /\ arm' = 1 => hits' > 0
                    /\ hits' > 0 /\ arm' = 0 => inj_pending' = 0
  BY DEF PendInv
<1>1. /\ hits \in Nat /\ arm \in {0, 1} /\ HitInv /\ phase \in 0 .. BitEdges - 1
      /\ inj_pending' = (IF NewMatch(in) THEN 1 ELSE IF arm = 1 THEN 0 ELSE inj_pending)
      /\ hits' = (IF phase = 0 /\ arm = 1 /\ hits < 2 THEN hits + 1 ELSE hits)
  BY UnitReports, HitsMove DEF CoreInv, UnitInv, ExactInv, BitTypes, Armed, Bit, UnitEdge
<1>2. IF awake' = 1 THEN phase' = (IF phase = BitEdges - 1 THEN 0 ELSE phase + 1)
      ELSE awake' = 0 /\ phase = 1 /\ phase' = 0
  BY Turns
<1>3. CASE NewMatch(in)
  <2>1. ou_state = "OU_AWAIT_FI" /\ phase = TreeDepth + 4
    BY <1>3 DEF UnitEdge
  <2>2. hits = 0
    BY <1>1, <2>1 DEF HitInv
  <2> QED
    BY <1>1, <1>2, <1>3, <2>1, <2>2
<1>4. CASE ~NewMatch(in)
  <2>1. /\ inj_pending = 0 => arm = 1 \/ hits > 0
        /\ phase = 1 /\ arm = 1 => hits > 0
        /\ hits > 0 /\ arm = 0 => inj_pending = 0
    BY <1>4, ReportOn DEF FlagInv, PendInv
  <2>2. CASE arm = 1
    <3>1. /\ phase /= 1 => arm' = 1
          /\ phase \in {0, 1} \cup (Psp + 1) .. (BitEdges - 1)
      BY <2>2, ArmedEdge
    <3>2. phase' = 1 => hits' > 0
      BY <1>1, <1>2, <2>2, <3>1
    <3>3. phase = 1 => hits' > 0
      BY <1>1, <2>1, <2>2
    <3> QED
      BY <1>1, <1>4, <2>2, <3>1, <3>2, <3>3
  <2>3. CASE arm = 0
    <3>1. hits' = hits /\ inj_pending' = inj_pending
      BY <1>1, <1>4, <2>3
    <3>2. phase' = 1 => arm' /= 1
      BY <1>1, <1>2, <2>3 DEF UnitEdge
    <3> QED
      BY <2>1, <2>3, <3>1, <3>2
  <2> QED
    BY <1>1, <2>2, <2>3
<1> QED
  BY <1>3, <1>4
-----------------------------------------------------------------------------
(* What is over *)

\* A field is a state of the parser, and none comes after itself.
LEMMA NeverBack ==
    /\ \A c : CanField(c) \in FsmStates
    /\ \A s \in FsmStates : ~After(s, s) /\ ~After("ABIT", s)
    /\ \A s, t, u \in FsmStates : After(s, t) /\ ~After(s, u) => After(u, t)
    /\ \A s, t, u \in FsmStates : After(s, t) /\ After(t, u) => After(s, u)
<1>1. \A c : CanField(c) \in FsmStates
  BY FsmStateNames DEF CanField
<1>2. "ABIT" \in FsmStates
  BY FsmStateNames
<1> QED
  BY <1>1, <1>2, StateOrder DEF After

\* A unit that reports a miss is right: its target is past, and is not the bit
\* ahead.
LEMMA MissOver ==
    ASSUME CoreInv, ExactInv, FlagInv, awake = 1, mode = "frame", status.eof = 0,
           NEW in, UnitEdge(in), Finds(in), arm /= 1
    PROVE  Over /\ \A n \in Nat : n \notin Targets
<1>1. /\ BusTypes /\ BusInv /\ ChainInv /\ UnitInv /\ Active /\ Judges(in) /\ OuSample(in)
      /\ GhostInv /\ ShadowInv /\ OrderInv /\ BitTypes
      /\ fsm_state \in FsmStates /\ shadow_state \in FsmStates /\ "CRC" \in FsmStates
      /\ CanField(Fi.field) \in FsmStates
  BY FsmStateNames, NeverBack
  DEF CoreInv, ExactInv, FlagInv, FlagTypes, Finds, Judges, BusTypes, TypeOK, ParserTypeOK
<1>2. /\ id_ready = 1 /\ Asked /\ ou_state = ActiveState(Fi.type)
      /\ in.fi = Fi /\ fi_can_field' = CanField(Fi.field)
  BY <1>1, ActiveSlot
<1>3. /\ ou_state = "OU_BIT" <=> Fi.type = "FI_BIT"
      /\ ou_state = "OU_BSDY" <=> Fi.type = "FI_BSDY"
      /\ ou_state = "OU_BSFX" <=> Fi.type = "FI_BSFX"
  BY <1>1, <1>2, KindOfState
<1>4. /\ fsm_state = ParserState /\ fsm_cnt = ParserCount
      /\ FixedStuffed => fsm_state \in {"CRC_STF", "CRC"}
  BY <1>1, <1>2, Foreseen
<1>5. Verdict(in) = (CASE ou_state = "OU_BIT"  -> BitVerdict(in)
                       [] ou_state = "OU_BSDY" -> BsdyVerdict
                       [] ou_state = "OU_BSFX" -> BsfxVerdict
                       [] OTHER                -> "Stop")
  BY <1>1 DEF Verdict, Active
<1>6. Verdict(in) = "Miss"
  <2>1. Verdict(in) \in {"Prep", "Miss", "Keep"}
    BY <1>1, <1>5 DEF Active, BitVerdict, BsdyVerdict, BsfxVerdict
  <2>2. PICK v : v = Verdict(in)
    OBVIOUS
  <2>3. ou_state' = (IF v \in {"Stop", "Miss", "BadDlc"} THEN "OU_DONE" ELSE ou_state)
    BY <1>1, <2>2 DEF OuSample
  <2> QED
    BY <1>1, <2>1, <2>2, <2>3 DEF Finds, Active
<1>7. /\ phase = 1 => ~After(shadow_state, fsm_state)
      /\ phase = 1 /\ onbus.kind = "field" => shadow_state = onbus.state
      /\ phase /= 1 => shadow_state = "ABIT"
  <2>1. late_strobe = 1 => phase /= 1
    BY Phases DEF UnitEdge
  <2>2. phase /= 1 => late_strobe = 1
    BY <1>1 DEF Judges, UnitEdge
  <2> QED
    BY <1>1, <2>1, <2>2 DEF ShadowInv, OrderInv
<1>8. CASE ou_state = "OU_BIT"
  <2>1. Past(fsm_state)
    BY <1>2, <1>5, <1>6, <1>8 DEF BitVerdict, Past
  <2>2. fsm_state /= CanField(Fi.field)
    BY <1>1, <2>1, NeverBack DEF Past
  <2> QED
    BY <1>1, <1>3, <1>4, <1>8, <2>1, <2>2, SlotKinds, BitAhead DEF Over
<1>9. CASE ou_state = "OU_BSDY"
  <2>1. Past(shadow_state)
    BY <1>2, <1>5, <1>6, <1>9 DEF BsdyVerdict, Past
  <2>2. phase = 1
    BY <1>1, <1>7, <2>1, NeverBack DEF Past
  <2>3. Past(fsm_state)
    BY <1>1, <1>7, <2>1, <2>2, NeverBack DEF Past
  <2>4. stuff /= NoStuff => Past(Upcoming.state)
    BY <1>1, <1>7, <2>1, <2>2, BitAhead, Phases DEF GhostInv, OnBus
  <2>5. Upcoming.kind /= "dynamic" \/ Upcoming.state /= CanField(Fi.field)
    <3>1. CASE stuff = NoStuff
      BY <1>1, <3>1, BitAhead
    <3>2. CASE stuff /= NoStuff
      BY <1>1, <2>4, <3>2, NeverBack DEF Past
    <3> QED
      BY <3>1, <3>2
  <2> QED
    BY <1>3, <1>9, <2>3, <2>4, <2>5, SlotKinds DEF Over
<1>10. CASE ou_state = "OU_BSFX"
  <2>1. After(BsfxWindow, "CRC")
    BY <1>5, <1>6, <1>10 DEF BsfxVerdict
  <2>2. After(fsm_state, "CRC")
    <3>1. CASE bsfx_shift /= 1
      BY <2>1, <3>1 DEF BsfxWindow
    <3>2. CASE bsfx_shift = 1
      <4>1. After(shadow_state, "CRC")
        BY <2>1, <3>2 DEF BsfxWindow
      <4>2. phase = 1
        BY <1>1, <1>7, <4>1, NeverBack
      <4> QED
        BY <1>1, <1>7, <4>1, <4>2, NeverBack
    <3> QED
      BY <3>1, <3>2
  <2>3. fsm_state \notin {"CRC_STF", "CRC"}
    BY <2>2, StateOrder DEF After
  <2> QED
    BY <1>1, <1>3, <1>4, <1>10, <2>2, <2>3, SlotKinds, BitAhead DEF Over
<1> QED
  BY <1>1, <1>8, <1>9, <1>10 DEF Active
-----------------------------------------------------------------------------
(* The hunt and its target *)

\* A unit that hunts has missed nothing and gives way to a dominant bit only.
LEMMA HuntStep ==
    ASSUME CoreInv, ExactInv, FlagInv, awake = 1, CoreNext, NEW in, UnitEdge(in)
    PROVE  HuntInv'
<1> USE Phases
<1>1. /\ BusTypes /\ ChainInv /\ Receiver /\ Strobed /\ Queued /\ Armed /\ HuntInv /\ TargetInv
      /\ arm \in Bit
  BY DEF CoreInv, UnitInv, FlagInv, Armed
<1>2. \/ Matched(in) /\ err' = NoErr
      \/ Stays(in) \/ Breaks(in) \/ Yields(in) \/ Finds(in)
  BY <1>1, UnitReports
<1>3. ASSUME awake' = 1, Active'
      PROVE  err'.miss = 0 /\ (err_dom' = 1 => queue' = 0 /\ arm' = 0 /\ sent' = 0)
  <2>1. CASE Matched(in) /\ err' = NoErr
    <3>1. phase = TreeDepth + 4 /\ NewMatch(in) /\ ou_state' /= "OU_DONE"
      BY <1>3, <2>1 DEF UnitEdge, Matched, Active
    <3>2. err_dom' = 0
      BY <3>1 DEF UnitEdge
    <3> QED
      BY <2>1, <3>2 DEF NoErr
  <2>2. CASE Stays(in)
    <3>1. Active /\ ~NewMatch(in) /\ err' = err /\ ou_state' /= "OU_DONE" /\ ou_state /= "OU_DONE"
      BY <1>3, <2>2 DEF Stays, Active
    <3>2. err.miss = 0 /\ (err_dom = 1 => queue = 0 /\ arm = 0 /\ sent = 0)
      BY <1>1, <3>1 DEF HuntInv
    <3>3. CASE phase = Psp
      <4>1. err_dom /= 1
        BY <1>1, <3>1, <3>3 DEF Queued
      <4>2. err_dom' = 1 => queue = 0 /\ Level = 0 /\ arm' = 0
        BY <3>1, <3>3, <4>1 DEF UnitEdge
      <4>3. queue = 0 => queue' = 0
        BY <1>1, <3>1 DEF UnitEdge, Strobed
      <4>4. can_tx = 1
        BY <1>1, <3>3 DEF Armed, Driving, BusTypes, Bit
      <4>5. Level = 0 => sent = 0
        BY <1>1, <4>4 DEF Level, BusTypes, Bit
      <4>6. sent' = sent
        BY <3>3, Turns
      <4> QED
        BY <3>1, <3>2, <4>2, <4>3, <4>5, <4>6
    <3>4. CASE phase /= Psp
      <4>1. err_dom' = err_dom /\ arm' = arm
        BY <3>1, <3>4 DEF UnitEdge
      <4>2. ASSUME err_dom = 1 PROVE queue' = 0 /\ arm' = 0 /\ sent' = 0
        <5>1. phase \notin {0, Boundary}
          BY <1>1, <3>1, <4>2 DEF Queued
        <5>2. queue' = queue
          BY <1>1, <3>1, <3>2, <4>2 DEF UnitEdge, Strobed
        <5> QED
          BY <3>2, <4>1, <4>2, <5>1, <5>2, Turns
      <4> QED
        BY <3>1, <3>2, <4>1, <4>2
    <3> QED
      BY <3>3, <3>4
  <2> QED
    BY <1>2, <1>3, <2>1, <2>2 DEF Breaks, Yields, Finds, Active
<1>4. ASSUME ou_state' = "OU_AWAIT_FI", ~Current' PROVE target' = "none"
  <2>1. ou_state = "OU_AWAIT_FI"
    BY <1>2, <1>4 DEF Matched, ActiveState, Stays, Breaks, Yields, Finds
  <2>2. CASE ~Current
    BY <1>1, <1>4, <2>1, <2>2, CurrentTurns DEF HuntInv
  <2>3. CASE Current
    <3>1. phase = 0 /\ id_ready = 1 /\ Asked
      BY <1>1, <1>4, <2>3, CurrentTurns, SlotAsked DEF TargetInv
    <3> QED
      BY <1>1, <2>1, <3>1, AwaitsAtSample
  <2> QED
    BY <2>2, <2>3
<1> QED
  BY <1>3, <1>4 DEF HuntInv

\* What is over is not the bit ahead.
LEMMA OverTargets ==
    ASSUME BusTypes, BusInv, BitTypes, awake = 1, mode = "frame", status.eof = 0, id_ready = 1,
           Over
    PROVE  seen \notin Targets
<1>1. /\ fsm_state = ParserState /\ fsm_cnt = ParserCount /\ seen \in Nat /\ Fi.meta \in Nat
      /\ FixedStuffed => fsm_state \in {"CRC_STF", "CRC"}
  BY Foreseen, SlotFrame DEF BitTypes
<1>2. fsm_cnt \in Nat /\ fsm_state \in FsmStates /\ CanField(Fi.field) \in FsmStates
  BY NeverBack DEF BusTypes, TypeOK, ParserTypeOK
<1>3. ASSUME seen \in Targets PROVE FALSE
  <2>1. CASE Fi.type = "FI_BIT"
    <3>1. Upcoming.kind = "field" /\ Upcoming.state = CanField(Fi.field) /\ Upcoming.cnt = Fi.meta
      BY <1>1, <1>3, <2>1, SlotKinds
    <3>2. fsm_state = CanField(Fi.field) /\ fsm_cnt = Fi.meta
      BY <1>1, <3>1, BitAhead
    <3> QED
      BY <1>1, <1>2, <2>1, <3>2, NeverBack DEF Over, Past
  <2>2. CASE Fi.type = "FI_BSDY"
    <3>1. Upcoming.kind = "dynamic" /\ Upcoming.state = CanField(Fi.field) /\ seen = Fi.meta
      BY <1>1, <1>3, <2>2, SlotKinds
    <3>2. stuff /= NoStuff
      BY <3>1, BitAhead
    <3> QED
      BY <1>1, <1>2, <2>2, <3>1, <3>2, NeverBack DEF Over, Past
  <2>3. CASE Fi.type = "FI_BSFX"
    <3>1. Upcoming.kind = "fixed" /\ seen = Fi.meta
      BY <1>1, <1>3, <2>3, SlotKinds
    <3>2. fsm_state \in {"CRC_STF", "CRC"}
      BY <1>1, <3>1, BitAhead
    <3> QED
      BY <1>1, <2>3, <3>1, <3>2, StateOrder DEF Over, After
  <2> QED
    BY <2>1, <2>2, <2>3 DEF Over
<1> QED
  BY <1>3

\* The parser of an unbroken frame is at no error flag.
LEMMA Unbroken ==
    ASSUME BusTypes, BusInv, awake = 1, mode = "frame", status.eof = 0, id_ready = 1
    PROVE  fsm_state \notin {"ERRF", "AWAIT_EOF"}
  BY Foreseen DEF ParserState

\* The target finds the unit at the hunt for it; only a dominant bit ends that
\* before its sample.
LEMMA TargetStep ==
    ASSUME CoreInv, ExactInv, FlagInv, awake = 1, CoreNext, NEW in, UnitEdge(in)
    PROVE  TargetInv'
<1> USE Phases
<1> SUFFICES ASSUME Current'
             PROVE  /\ id_ready' = 1 /\ hits' = 0 /\ Passed' \in Targets'
                    /\ ou_state' = "OU_DONE" => sent' = 0 /\ err_dom' = 1 /\ err'.miss = 0
  BY DEF TargetInv
<1>1. /\ BusTypes /\ BusInv /\ ChainInv /\ UnitInv /\ Receiver /\ Strobed /\ HuntInv /\ TargetInv
      /\ arm \in {0, 1} /\ BitTypes /\ HitInv /\ awake' = 1
  BY DEF CoreInv, UnitInv, FlagInv, ExactInv, Armed, Bit, Current
<1>2. \/ Matched(in) /\ err' = NoErr
      \/ Stays(in) \/ Breaks(in) \/ Yields(in) \/ Finds(in)
  BY <1>1, UnitReports DEF Bit
<1>3. /\ phase \in 0 .. BitEdges - 1
      /\ phase' = (IF phase = BitEdges - 1 THEN 0 ELSE phase + 1)
      /\ phase \notin {0, 1}
  BY <1>1, Turns, CurrentTurns
<1>4. status.eof = 0
  BY <1>1 DEF UnitEdge, AwakeEdge
<1>5. /\ mode = "frame" /\ mode' = "frame" /\ id_ready = 1 /\ id_ready' = 1
      /\ phase = Boundary => seen \in Targets
      /\ phase /= Boundary => Current
  <2>1. mode = "frame" /\ mode' = "frame"
    BY Turns DEF Current
  <2>2. id_ready = 1
    BY <1>1, CurrentTurns DEF TargetInv
  <2> QED
    BY <1>1, <2>1, <2>2, SlotKept, CurrentTurns
<1>6. /\ Fi' = Fi /\ Adds' = Adds /\ Targets' = Targets /\ Adds \in {0, 1}
      /\ seen \in Nat /\ Fi.meta \in Nat
  BY <1>1, <1>3, <1>5, Ahead, SlotKinds, SlotFrame DEF BitTypes
<1>7. fsm_state /= "ERRF"
  BY <1>1, <1>4, <1>5, Unbroken
<1>8. ASSUME NEW n \in Targets
      PROVE  /\ ~(Matched(in) /\ ou_state' = "OU_DONE")
             /\ ~(Finds(in) /\ arm /= 1)
  <2>1. n \in Nat /\ Fi.type \in {"FI_BIT", "FI_BSDY", "FI_BSFX"}
    BY <1>8, SlotAsked DEF SingleBit, Targets
  <2>2. ASSUME Matched(in) PROVE ou_state' /= "OU_DONE"
    <3>1. PICK a \in 0 .. Evaluated : AgeOk(a) /\ ChainAt(a)
      BY <1>1 DEF ChainInv
    <3>2. in.fi = Fi
      BY <2>2, <3>1, FedUnits, MatchedFrame DEF ChainAt, Matched, UnitEdge, Fed
    <3> QED
      BY <2>1, <2>2, <3>2 DEF Matched, ActiveState
  <2> QED
    BY <1>4, <1>5, <1>8, <2>1, <2>2, MissOver
<1>9. ASSUME Finds(in) PROVE arm /= 1
  BY <1>3, <1>9, ArmedEdge DEF Finds, Active
<1>10. CASE phase = Boundary
  <2>1. ~Current /\ OnBus' /\ seen \in Targets
    BY <1>3, <1>5, <1>10 DEF Current, OnBus
  <2>2. ou_state /= "OU_DONE"
    <3>1. ASSUME ou_state = "OU_DONE" PROVE Over
      BY <1>1, <1>5, <2>1, <3>1, SlotAsked DEF FlagInv, OverInv
    <3> QED
      BY <1>1, <1>4, <1>5, <2>1, <3>1, OverTargets
  <2>3. hits' = 0
    BY <1>1, <1>3, <1>10, <2>2, Turns DEF HitInv, BitTypes
  <2>4. Passed' \in Targets'
    <3>1. seen' = (IF Arbitrated /\ Adds = 1 /\ seen <= Fi.meta THEN seen + 1 ELSE seen)
          /\ Arbitrated
      BY <1>1, <1>3, <1>5, <1>10, Ahead DEF Current
    <3>2. Adds = 1 => seen = Fi.meta
      <4>1. ASSUME Adds = 1, Fi.type = "FI_BIT" PROVE FALSE
        BY <4>1, SlotKinds
      <4> QED
        BY <1>6, <2>1, <4>1, SlotKinds
    <3>3. Passed' = seen
      <4>1. Passed' = seen' - Adds'
        BY <2>1 DEF Passed
      <4> QED
        BY <1>6, <3>1, <3>2, <4>1
    <3> QED
      BY <1>6, <2>1, <3>3
  <2>5. ou_state' /= "OU_DONE"
    BY <1>2, <1>7, <1>8, <1>9, <1>10, <2>1, <2>2 DEF Stays, Breaks, Yields
  <2> QED
    BY <1>5, <2>3, <2>4, <2>5
<1>11. CASE phase /= Boundary
  <2>1. /\ id_ready = 1 /\ hits = 0 /\ Passed \in Targets
        /\ ou_state = "OU_DONE" => sent = 0 /\ err_dom = 1 /\ err.miss = 0
        /\ OnBus /\ OnBus'
    BY <1>1, <1>3, <1>5, <1>11 DEF TargetInv, Current
  <2>2. hits' = 0 /\ sent' = sent /\ seen' = seen
    BY <1>3, <1>11, <2>1, Turns
  <2>3. Passed' \in Targets'
    BY <1>6, <2>1, <2>2 DEF Passed
  <2>4. ASSUME ou_state' = "OU_DONE" PROVE sent' = 0 /\ err_dom' = 1 /\ err'.miss = 0
    <3>1. Stays(in) \/ Yields(in)
      BY <1>2, <1>7, <1>8, <1>9, <2>1, <2>4 DEF Breaks
    <3>2. err' = err /\ err_dom' = err_dom
      BY <2>4, <3>1 DEF UnitEdge, Stays, Yields
    <3>3. CASE Stays(in)
      BY <2>1, <2>2, <2>4, <3>2, <3>3 DEF Stays
    <3>4. CASE Yields(in)
      BY <1>1, <2>2, <3>2, <3>4 DEF Yields, HuntInv
    <3> QED
      BY <3>1, <3>3, <3>4
  <2> QED
    BY <1>5, <2>2, <2>3, <2>4
<1> QED
  BY <1>10, <1>11

\* A target that is taken into account is queued.
LEMMA TakenStep ==
    ASSUME CoreInv, ExactInv, FlagInv, awake = 1, CoreNext, NEW in, UnitEdge(in),
           awake' = 1, mode' = "frame"
    PROVE  TakenInv'
<1> USE Phases
<1> SUFFICES ASSUME Active', queue' = 1, ~Untaken'
             PROVE  Passed' \notin Targets'
  BY DEF TakenInv
<1>1. /\ BusTypes /\ BusInv /\ ChainInv /\ UnitInv /\ Receiver /\ Strobed
      /\ BitTypes /\ mode = "frame"
  BY Turns DEF CoreInv, UnitInv, ExactInv
<1>2. GhostInv /\ CountInv /\ ShadowInv /\ PrepInv /\ TakenInv
  BY <1>1 DEF ExactInv, FlagInv
<1>3. /\ phase /= 0 /\ late_strobe' /= 1 /\ prep_strobe' /= 1
  BY Turns DEF Untaken
<1>4. status.eof = 0
  BY DEF UnitEdge, AwakeEdge
<1>5. /\ GoesOn(in) \/ Judges(in)
      /\ ou_state' = ou_state /\ Active
  BY <1>3 DEF UnitEdge, Matched, GoesOn, GivesUp, Judges, Active, Untaken
<1>6. id_ready = 1 /\ Asked
  BY <1>1, <1>5, ActiveSlot
<1>7. /\ Targets' = Targets /\ Adds' = Adds /\ Adds \in {0, 1} /\ Fi.meta \in Nat
      /\ seen \in Nat /\ seen' \in Nat
  BY <1>1, <1>3, Ahead, SlotKinds, SlotFrame, BitTypesStep DEF BitTypes
<1>8. Passed \in Int /\ Passed' \in Int /\ Adds \in Int /\ Adds' \in Int
  BY <1>7 DEF Passed
<1>9. CASE Judges(in)
  <2>1. \A n \in Nat : n \notin Targets
    BY <1>1, <1>2, <1>3, <1>4, <1>5, <1>9, StageOne
  <2> QED
    BY <1>7, <2>1 DEF Targets
<1>10. CASE GoesOn(in)
  <2>1. phase /= 1 /\ late_strobe /= 1 /\ ou_state /= "OU_AWAIT_FI" /\ ou_state /= "OU_DONE"
    BY <1>5, <1>10 DEF GoesOn, UnitEdge, Active
  <2>2. CASE prep_strobe = 1
    <3>1. queue = 1
      BY <1>1, <2>2 DEF Strobed
    <3>2. /\ bs_cnt \in Nat /\ bs_cnt <= Fi.meta /\ bs_cnt = Passed
          /\ OnBus /\ bs_cnt \in Targets => onbus.hot
      BY <1>2, <1>5, <1>6, <2>2, <3>1 DEF CountInv, Untaken
    <3>3. bs_cnt \notin Targets
      BY <1>1, <1>2, <1>4, <2>2, <3>2, StageTwo
    <3>4. bs_cnt = Passed'
      BY <1>1, <1>3, <1>6, <3>2, PassedKept
    <3> QED
      BY <1>7, <3>3, <3>4
  <2>3. CASE prep_strobe /= 1
    <3>1. queue = 1
      BY <2>1, <2>3 DEF UnitEdge
    <3>2. ~Untaken
      BY <2>1, <2>3 DEF Untaken
    <3>3. Passed \notin Targets /\ bs_cnt \in Nat /\ bs_cnt <= Fi.meta /\ bs_cnt = Passed + Adds
      BY <1>2, <1>5, <1>6, <3>1, <3>2 DEF CountInv, TakenInv
    <3>4. Passed <= Fi.meta
      BY <1>7, <1>8, <3>3
    <3>5. bs_cnt = Passed' + Adds'
      BY <1>1, <1>3, <1>6, <3>3, <3>4, PassedCounted
    <3>6. Passed + Adds = Passed' + Adds'
      BY <3>3, <3>5
    <3>7. Passed' = Passed
      <4>1. Passed + Adds = Passed' + Adds
        BY <1>7, <3>6
      <4>2. \A p, q, a \in Int : p + a = q + a => q = p
        OBVIOUS
      <4> QED
        BY <1>8, <4>1, <4>2
    <3> QED
      BY <1>7, <3>3, <3>7
  <2> QED
    BY <2>2, <2>3
<1> QED
  BY <1>5, <1>9, <1>10

\* The unit goes on from what it remembers with the parser, never before it.
LEMMA OrderStep ==
    ASSUME CoreInv, ExactInv, FlagInv, awake = 1, CoreNext, NEW in, UnitEdge(in),
           awake' = 1, mode' = "frame"
    PROVE  OrderInv'
<1> USE Phases
<1>1. /\ BusTypes /\ BusInv /\ ChainInv /\ UnitInv /\ Receiver /\ BitTypes /\ mode = "frame"
      /\ \/ Matched(in) /\ err' = NoErr
         \/ Stays(in) \/ Breaks(in) \/ Yields(in) \/ Finds(in)
  BY Turns, UnitReports DEF CoreInv, UnitInv, ExactInv, Armed
<1>2. GhostInv /\ ShadowInv
  BY <1>1 DEF ExactInv
<1>3. ShadowInv' /\ BusTypes'
  <2>1. ShadowInv'
    BY <1>1, <1>2, ShadowStep
  <2> QED
    BY <2>1, BusTypesStep DEF CoreInv, UnitInv, Armed
<1>4. fsm_state' \in FsmStates
  BY <1>3 DEF BusTypes, TypeOK, ParserTypeOK
<1>5. ASSUME ou_state' = "OU_AWAIT_FI" PROVE ~After(shadow_state', fsm_state')
  BY <1>3, <1>4, <1>5, NeverBack DEF ShadowInv
<1>6. ASSUME Active', phase' = 1 PROVE ~After(shadow_state', fsm_state')
  <2>1. phase = 0
    BY <1>6, Turns
  <2>2. ou_state' = ou_state /\ late_strobe /= 1
    BY <1>1, <1>6, <2>1 DEF UnitEdge, Matched, Stays, Breaks, Yields, Finds, Active
  <2>3. shadow_state = fsm_state /\ Active
    BY <1>2, <1>6, <2>1, <2>2 DEF ShadowInv, Active
  <2>4. shadow_state' = shadow_state
    BY <1>1, <1>6, <2>1, <2>2, <2>3 DEF UnitEdge, Matched, GoesOn, GivesUp, Judges, BusInv, Active
  <2>5. Clock(1, Level, 0) /\ TypeOK /\ Receiving
    BY <1>1, <2>1, SampledBit DEF BusTypes
  <2>6. fsm_state \in {"ABIT", "CTRL", "DATA", "CRC_STF", "CRC", "EOF"}
    BY <2>5 DEF Receiving, Aligned, Following, ParserState
  <2>7. \/ After(fsm_state', fsm_state)
        \/ fsm_state' = fsm_state
    BY <2>5, <2>6, Onward
  <2>8. fsm_state \in FsmStates
    BY <2>5 DEF TypeOK, ParserTypeOK
  <2>9. ~After(fsm_state, fsm_state')
    BY <1>4, <2>7, <2>8, NeverBack
  <2> QED
    BY <2>3, <2>4, <2>9
<1> QED
  BY <1>5, <1>6 DEF OrderInv

\* What is over stays over.
LEMMA OverKept ==
    ASSUME CoreInv, ExactInv, awake = 1, CoreNext, NEW in, UnitEdge(in),
           awake' = 1, mode' = "frame", id_ready = 1, Over
    PROVE  Over'
<1> USE Phases
<1>1. /\ BusTypes /\ BusInv /\ ChainInv /\ UnitInv /\ Receiver /\ BitTypes /\ mode = "frame"
      /\ status.eof = 0 /\ Fi' = Fi /\ Fi.meta \in Nat
  BY Turns, SlotHeld, SlotFrame DEF CoreInv, UnitInv, ExactInv, UnitEdge, AwakeEdge
<1>2. GhostInv
  BY <1>1 DEF ExactInv
<1>3. BusTypes'
  BY BusTypesStep DEF CoreInv, UnitInv, Armed
<1>4. /\ fsm_state \in FsmStates /\ fsm_state' \in FsmStates /\ CanField(Fi.field) \in FsmStates
      /\ "CRC" \in FsmStates /\ fsm_cnt \in Nat /\ fsm_cnt' \in Nat /\ seen \in Nat
  BY <1>1, <1>3, NeverBack, FsmStateNames DEF BusTypes, TypeOK, ParserTypeOK, BitTypes
<1>5. CASE phase = 0
  <2>1. /\ Receiving /\ Clock(1, Level, 0) /\ UNCHANGED << onbus, seen >>
        /\ stuff' /= NoStuff => stuff = NoStuff
    BY <1>1, <1>5, SampledBit
  <2>2. fsm_state \in {"ABIT", "CTRL", "DATA", "CRC_STF", "CRC", "EOF"}
    BY <2>1 DEF Receiving, Aligned, Following, ParserState
  <2>3. \/ After(fsm_state', fsm_state)
        \/ fsm_state' = fsm_state /\ fsm_cnt' >= fsm_cnt
    BY <1>1, <1>4, <2>1, <2>2, Onward DEF BusTypes
  <2>4. \A s \in FsmStates : After(fsm_state, s) => After(fsm_state', s)
    BY <1>4, <2>3, NeverBack
  <2>5. CASE Fi.type = "FI_BIT"
    <3>1. Past(fsm_state) => After(fsm_state', CanField(Fi.field))
      BY <1>4, <2>4 DEF Past
    <3>2. ASSUME fsm_state = CanField(Fi.field), fsm_cnt > Fi.meta
          PROVE  \/ After(fsm_state', CanField(Fi.field))
                 \/ fsm_state' = CanField(Fi.field) /\ fsm_cnt' > Fi.meta
      BY <1>1, <1>4, <2>3, <3>2
    <3> QED
      BY <1>1, <2>5, <3>1, <3>2 DEF Over, Past
  <2>6. CASE Fi.type = "FI_BSDY"
    <3>1. CASE seen > Fi.meta
      BY <1>1, <2>1, <2>6, <3>1 DEF Over
    <3>2. CASE Past(fsm_state)
      <4>1. After(fsm_state', CanField(Fi.field))
        BY <1>4, <2>4, <3>2 DEF Past
      <4>2. ASSUME stuff' /= NoStuff PROVE Upcoming'.state = fsm_state
        <5>1. stuff = NoStuff /\ OnBus
          BY <1>5, <2>1, <4>2 DEF OnBus
        <5>2. onbus.state = fsm_state
          BY <1>1, <1>2, <5>1, Foreseen, BitAhead DEF GhostInv
        <5>3. Upcoming'.state = onbus'.state
          BY <1>1, <4>2, BitTypesStep DEF BitTypes, Upcoming
        <5> QED
          BY <2>1, <5>2, <5>3
      <4> QED
        BY <1>1, <2>6, <3>2, <4>1, <4>2 DEF Over, Past
    <3> QED
      BY <2>6, <3>1, <3>2 DEF Over
  <2>7. CASE Fi.type = "FI_BSFX"
    BY <1>1, <1>4, <2>1, <2>4, <2>7 DEF Over
  <2> QED
    BY <2>5, <2>6, <2>7 DEF Over
<1>6. CASE phase /= 0
  <2>1. UNCHANGED << fsm_state, fsm_cnt, stuff >> /\ Upcoming'.state = Upcoming.state
    BY <1>1, <1>6, StateKept, Ahead
  <2>2. seen' >= seen /\ seen' \in Nat
    <3>1. CASE phase = Boundary
      BY <1>1, <1>4, <1>6, <3>1, Ahead
    <3>2. CASE phase /= Boundary
      BY <1>1, <1>4, <1>6, <3>2, Ahead
    <3> QED
      BY <3>1, <3>2
  <2> QED
    BY <1>1, <1>4, <2>1, <2>2 DEF Over, Past
<1> QED
  BY <1>5, <1>6

\* A unit that is done, and one whose target has come, has nothing left to hit.
LEMMA OverStep ==
    ASSUME CoreInv, ExactInv, FlagInv, awake = 1, CoreNext, NEW in, UnitEdge(in),
           awake' = 1, mode' = "frame"
    PROVE  OverInv'
<1> USE Phases
<1> SUFFICES ASSUME id_ready' = 1, SingleBit', ~Current', target' /= "none" \/ ou_state' = "OU_DONE"
             PROVE  Over'
  BY DEF OverInv
<1>1. /\ BusTypes /\ BusInv /\ ChainInv /\ UnitInv /\ Receiver /\ Strobed /\ BitTypes
      /\ arm \in {0, 1} /\ mode = "frame" /\ status.eof = 0 /\ HuntInv /\ TargetInv
  BY Turns DEF CoreInv, UnitInv, ExactInv, FlagInv, UnitEdge, AwakeEdge, Armed, Bit
<1>2. GhostInv /\ QueueInv /\ OverInv
  BY <1>1 DEF ExactInv, FlagInv
<1>3. \/ Matched(in) /\ err' = NoErr
      \/ Stays(in) \/ Breaks(in) \/ Yields(in) \/ Finds(in)
  BY <1>1, UnitReports DEF Bit
<1>4. id_ready = 1
  <2>1. CASE phase /= 0
    BY <1>1, <2>1, SlotKept
  <2>2. CASE phase = 0 /\ id_ready /= 1
    <3>1. ou_state = "OU_AWAIT_FI"
      <4>1. PICK a \in 0 .. Evaluated : AgeOk(a) /\ ChainAt(a)
        BY <1>1 DEF ChainInv
      <4>2. a = 0
        BY <1>1, <2>2, <4>1 DEF AgeOk, BusTypes, TypeOK, ParserTypeOK, Bit
      <4> QED
        BY <2>2, <4>1, <4>2, Phases DEF ChainAt, OverrideAt, MatchAge
    <3>2. target' = "none"
      BY <1>1, <2>2, <3>1, CurrentTurns DEF HuntInv, TargetInv
    <3>3. fsm_state /= "ERRF"
      BY <1>1, <2>2, SampledBit DEF Receiving, Aligned, ParserState
    <3>4. ou_state' /= "OU_DONE"
      BY <1>3, <2>2, <3>1, <3>3 DEF Matched, UnitEdge, Stays, Breaks, Yields, Finds, Active
    <3> QED
      BY <3>2, <3>4
  <2> QED
    BY <2>1, <2>2
<1>5. Fi' = Fi /\ SingleBit
  BY <1>4, SlotHeld DEF SingleBit
<1>6. fsm_state /= "ERRF"
  BY <1>1, <1>4, Unbroken
<1>7. CASE Current
  <2>1. phase = 0 /\ OnBus /\ Passed \in Targets
    BY <1>1, <1>7, CurrentTurns DEF TargetInv, OnBus
  <2>2. Receiving /\ Clock(1, Level, 0) /\ seen' = seen
    BY <1>1, <2>1, SampledBit
  <2>3. CASE Fi.type = "FI_BIT"
    <3>1. Upcoming.kind = "field" /\ Upcoming.state = CanField(Fi.field) /\ Upcoming.cnt = Fi.meta
      BY <2>1, <2>3, SlotKinds DEF Targets
    <3>2. stuff = NoStuff
      BY <1>1, <3>1, BitAhead
    <3>3. fsm_state = CanField(Fi.field) /\ fsm_cnt = Fi.meta /\ bs_insert /= 1
      BY <1>1, <1>4, <2>1, <3>1, <3>2, Foreseen, BitAhead
    <3>4. fsm_state \in {"ABIT", "CTRL", "DATA", "CRC_STF", "CRC", "EOF"}
      BY <2>2 DEF Receiving, Aligned, Following, ParserState
    <3>5. \/ After(fsm_state', fsm_state)
          \/ fsm_state' = fsm_state /\ fsm_cnt' > fsm_cnt
      BY <1>1, <2>2, <3>3, <3>4, Onward DEF BusTypes
    <3> QED
      BY <1>5, <2>3, <3>3, <3>5 DEF Over, Past
  <2>4. CASE Fi.type \in {"FI_BSDY", "FI_BSFX"}
    <3>1. Adds = 1 /\ Passed = Fi.meta /\ Passed = seen - Adds
      BY <2>1, <2>4, SlotKinds DEF Targets, Passed
    <3>2. seen' > Fi.meta
      BY <1>1, <2>2, <3>1, SlotFrame DEF BitTypes
    <3> QED
      BY <1>5, <2>4, <3>2 DEF Over
  <2> QED
    BY <1>5, <2>3, <2>4 DEF SingleBit
<1>8. CASE ~Current
  <2>1. target' = target
    BY <1>8, CurrentTurns
  <2>2. CASE target /= "none" \/ ou_state = "OU_DONE"
    BY <1>2, <1>4, <1>5, <1>8, <2>2, OverKept DEF OverInv
  <2>3. CASE target = "none" /\ ou_state /= "OU_DONE" /\ ou_state' = "OU_DONE"
    <3>1. ~Matched(in)
      <4>1. ASSUME Matched(in) PROVE in.fi = Fi
        <5>1. PICK a \in 0 .. Evaluated : AgeOk(a) /\ ChainAt(a)
          BY <1>1 DEF ChainInv
        <5> QED
          BY <4>1, <5>1, FedUnits, MatchedFrame DEF ChainAt, Matched, UnitEdge, Fed
      <4> QED
        BY <1>5, <2>3, <4>1 DEF Matched, ActiveState, SingleBit
    <3>2. ~Yields(in)
      <4>1. ASSUME Yields(in) PROVE queue = 0 /\ OnBus
        BY <1>1, <4>1 DEF Yields, HuntInv, OnBus
      <4> QED
        BY <1>1, <1>2, <1>8, <4>1 DEF QueueInv, Yields, Current
    <3>3. Finds(in)
      BY <1>3, <1>6, <2>3, <3>1, <3>2 DEF Stays, Breaks
    <3>4. arm /= 1
      <4>1. ASSUME arm = 1 PROVE phase = 1 /\ Active /\ queue = 0
        BY <2>3, <4>1, ArmedEdge
      <4>2. onbus.hot => target /= "none"
        BY <1>2 DEF GhostInv
      <4> QED
        BY <1>2, <2>3, <4>1, <4>2 DEF QueueInv
    <3>5. Over
      BY <1>1, <3>3, <3>4, MissOver
    <3> QED
      BY <1>4, <3>5, OverKept
  <2> QED
    BY <2>1, <2>2, <2>3
<1> QED
  BY <1>7, <1>8
-----------------------------------------------------------------------------
(* What became of the target *)

\* A unit that is done leaves its flags alone, but for the error flag's.
LEMMA DoneRests ==
    ASSUME CoreInv, ExactInv, FlagInv, awake = 1, CoreNext, NEW in, UnitEdge(in),
           ou_state = "OU_DONE"
    PROVE  /\ ou_state' = "OU_DONE" /\ hits' = hits /\ err_dom' = err_dom
           /\ err'.miss = err.miss
           /\ Stays(in) \/ Breaks(in)
<1>1. /\ Receiver /\ Strobed /\ Armed /\ UnitInv /\ BusTypes /\ HitInv
      /\ arm \in Bit /\ err \in [miss : Bit, fsm : Bit, dlc : Bit] /\ arm /= 1
  BY DEF CoreInv, UnitInv, ExactInv, FlagInv, FlagTypes, Armed, Active
<1>2. ~NewMatch(in) /\ ~Active
  BY DEF NewMatch, Active
<1>3. Stays(in) \/ Breaks(in)
  BY <1>1, <1>2, UnitReports DEF Matched, Yields, Finds
<1>4. ou_state' = "OU_DONE" /\ err'.miss = err.miss
  BY <1>1, <1>3 DEF Stays, Breaks
<1>5. err_dom' = err_dom
  BY <1>2, <1>4 DEF UnitEdge
<1>6. hits' = hits
  BY <1>1, HitsMove
<1> QED
  BY <1>3, <1>4, <1>5, <1>6

\* A recessive target is hit, and a dominant one is reported, with its sample.
LEMMA TargetSampled ==
    ASSUME CoreInv, ExactInv, FlagInv, awake = 1, CoreNext, NEW in, UnitEdge(in),
           Current, ~Current', ou_state /= "OU_AWAIT_FI"
    PROVE  /\ awake' = 1 /\ phase' = 1 /\ err'.miss = 0 /\ target' \in {"recessive", "dominant"}
           /\ target' = "recessive" => hits' = 1 /\ err_dom' = 0 /\ arm' = 1
           /\ target' = "dominant" => hits' = 0 /\ err_dom' = 1 /\ ~Active'
<1> USE Phases
<1>1. /\ phase = 0 /\ awake' = 1 /\ phase' = 1 /\ target' = target /\ mode = "frame"
  BY CurrentTurns, Turns DEF Current
<1>2. /\ Receiver /\ Strobed /\ Armed /\ Queued /\ UnitInv /\ BusTypes /\ HitInv /\ GhostInv
      /\ TakenInv /\ TargetInv /\ HuntInv /\ err_dom \in {0, 1} /\ queue \in {0, 1}
  BY <1>1 DEF CoreInv, UnitInv, ExactInv, FlagInv, FlagTypes, Queued, Bit
<1>3. /\ hits = 0 /\ Passed \in Targets /\ id_ready = 1
      /\ ou_state = "OU_DONE" => sent = 0 /\ err_dom = 1 /\ err.miss = 0
      /\ target = (IF sent = 1 THEN "recessive" ELSE "dominant")
  BY <1>2 DEF TargetInv, GhostInv, Current
<1>4. CASE ou_state = "OU_DONE"
  BY <1>1, <1>3, <1>4, DoneRests DEF Active
<1>5. CASE Active
  <2>1. ~Untaken
    BY <1>1, <1>2, <1>5 DEF Untaken, Strobed, UnitEdge, Active
  <2>2. queue = 0
    BY <1>2, <1>3, <1>5, <2>1 DEF TakenInv
  <2>3. arm = 1
    BY <1>1, <1>2, <1>5, <2>2 DEF Queued, Decided
  <2>4. sent = 1 /\ err_dom = 0 /\ err.miss = 0
    BY <1>2, <1>5, <2>3 DEF HitInv, Armed, HuntInv
  <2>5. ou_state' = ou_state /\ arm' = 1 /\ ~NewMatch(in)
    BY <1>1, <2>3, ArmedEdge
  <2>6. err' = err
    BY <1>1, <1>2, <1>5, <2>5, UnitReports
    DEF Armed, Matched, Stays, Breaks, Yields, Finds, Active
  <2>7. err_dom' = err_dom
    BY <1>1, <1>5, <2>5 DEF UnitEdge, Active
  <2>8. hits' = 1
    BY <1>1, <1>2, <1>3, <2>3, HitsMove
  <2> QED
    BY <1>1, <1>3, <2>4, <2>5, <2>6, <2>7, <2>8
<1> QED
  BY <1>2, <1>4, <1>5 DEF Receiver, OuStates, Active

\* What the flags say of the target stays true to the end of the frame.
LEMMA OutcomeStep ==
    ASSUME CoreInv, ExactInv, FlagInv, awake = 1, CoreNext, NEW in, UnitEdge(in)
    PROVE  OutcomeInv'
<1> USE Phases
<1> SUFFICES ASSUME Reporting', ~Current'
             PROVE  /\ target' = "recessive" =>
                          /\ hits' = 1 /\ err_dom' = 0 /\ err'.miss = 0
                          /\ Active' => awake' = 1 /\ phase' = 1 /\ arm' = 1
                    /\ target' = "dominant" =>
                          hits' = 0 /\ err_dom' = 1 /\ err'.miss = 0 /\ ~Active'
  BY DEF OutcomeInv
<1>1. NewMatch(in) \/ (ou_state /= "OU_AWAIT_FI" /\ Reporting)
  BY ReportOn
<1>2. CASE NewMatch(in)
  <2>1. ou_state = "OU_AWAIT_FI" /\ ~Current
    BY <1>2, CurrentTurns DEF UnitEdge
  <2> QED
    BY <2>1, CurrentTurns DEF FlagInv, HuntInv
<1>3. CASE ou_state /= "OU_AWAIT_FI" /\ Reporting /\ Current
  BY <1>3, TargetSampled
<1>4. CASE ou_state /= "OU_AWAIT_FI" /\ Reporting /\ ~Current
  <2>1. /\ target' = target
        /\ target = "recessive" =>
              /\ hits = 1 /\ err_dom = 0 /\ err.miss = 0
              /\ Active => phase = 1 /\ arm = 1
        /\ target = "dominant" => hits = 0 /\ err_dom = 1 /\ err.miss = 0 /\ ~Active
    BY <1>4, CurrentTurns DEF FlagInv, OutcomeInv
  <2>2. CASE ou_state = "OU_DONE"
    BY <2>1, <2>2, DoneRests DEF Active
  <2>3. CASE Active /\ target = "recessive"
    <3>1. phase = 1 /\ arm = 1 /\ ou_state' = "OU_DONE" /\ ~NewMatch(in)
      BY <2>1, <2>3, ArmedEdge
    <3>2. /\ Receiver /\ Strobed /\ UnitInv /\ BusTypes /\ HitInv
          /\ arm \in Bit /\ err \in [miss : Bit, fsm : Bit, dlc : Bit]
      BY DEF CoreInv, UnitInv, ExactInv, FlagInv, FlagTypes, Armed
    <3>3. err'.miss = err.miss
      BY <3>1, <3>2, UnitReports DEF Matched, Stays, Breaks, Yields, Finds
    <3>4. err_dom' = err_dom /\ hits' = hits
      BY <3>1, <3>2, HitsMove DEF UnitEdge
    <3> QED
      BY <2>1, <2>3, <3>1, <3>3, <3>4 DEF Active
  <2>4. ou_state = "OU_DONE" \/ Active
    BY <1>4 DEF CoreInv, UnitInv, Receiver, OuStates, Active
  <2> QED
    BY <2>1, <2>2, <2>3, <2>4
<1> QED
  BY <1>1, <1>2, <1>3, <1>4

\* What is queued from the boundary on, or armed, is a target that has come.
LEMMA QueuedTarget ==
    ASSUME CoreInv, ExactInv, awake = 1, mode = "frame", Active, queue = 0 \/ arm = 1,
           phase >= Psp \/ phase <= 1
    PROVE  target /= "none"
<1> USE Phases
<1>1. UnitInv /\ QueueInv /\ GhostInv /\ BusTypes
  BY DEF CoreInv, ExactInv
<1>2. queue = 0
  BY <1>1 DEF UnitInv, Armed
<1>3. onbus.hot
  BY <1>1, <1>2 DEF QueueInv, OnBus, BusTypes
<1> QED
  BY <1>1, <1>3 DEF GhostInv

\* A target that never comes is reported as missed, in a frame without error flag.
LEMMA NoneStep ==
    ASSUME CoreInv, ExactInv, FlagInv, awake = 1, CoreNext, NEW in, UnitEdge(in)
    PROVE  NoneInv'
<1> USE Phases
<1> SUFFICES ASSUME Reporting', SingleBit', target' = "none", Unflagged'
             PROVE  hits' = 0 /\ err_dom' = 0 /\ err'.fsm = 0 /\ (err'.miss = 1 \/ Active')
  BY DEF NoneInv
<1>1. /\ id_ready = 1 /\ Asked /\ target = "none" /\ Unflagged /\ SingleBit
      /\ NewMatch(in) \/ (ou_state /= "OU_AWAIT_FI" /\ Reporting)
  BY ReportOn, SlotHeld, CurrentTurns, Turns DEF SingleBit
<1>2. /\ Receiver /\ Strobed /\ Armed /\ Queued /\ UnitInv /\ BusTypes /\ BusInv /\ ChainInv
      /\ HitInv /\ arm \in Bit /\ err \in [miss : Bit, fsm : Bit, dlc : Bit]
      /\ hits \in Nat /\ hits' = (IF phase = 0 /\ arm = 1 /\ hits < 2 THEN hits + 1 ELSE hits)
  BY HitsMove DEF CoreInv, UnitInv, ExactInv, BitTypes, FlagInv, FlagTypes, Armed
<1>3. \/ Matched(in) /\ err' = NoErr
      \/ Stays(in) \/ Breaks(in) \/ Yields(in) \/ Finds(in)
  BY <1>2, UnitReports
<1>4. CASE NewMatch(in)
  <2>1. PICK a \in 0 .. Evaluated : AgeOk(a) /\ ChainAt(a)
    BY <1>2 DEF ChainInv
  <2>2. /\ in.fi = Fi /\ ou_state = "OU_AWAIT_FI" /\ phase = TreeDepth + 4
        /\ Matched(in) /\ err' = NoErr
    BY <1>3, <1>4, <2>1, FedUnits, MatchedFrame
    DEF ChainAt, UnitEdge, Fed, Stays, Breaks, Yields, Finds
  <2>3. Active'
    BY <1>1, <2>2 DEF Matched, ActiveState, SingleBit, Active
  <2>4. err_dom' = 0
    BY <1>4, <2>2, <2>3 DEF UnitEdge, Active
  <2>5. hits' = 0
    BY <1>2, <2>2 DEF HitInv
  <2> QED
    BY <2>2, <2>3, <2>4, <2>5 DEF NoErr
<1>5. CASE ou_state /= "OU_AWAIT_FI" /\ Reporting
  <2>1. hits = 0 /\ err_dom = 0 /\ err.fsm = 0 /\ (err.miss = 1 \/ Active)
    BY <1>1, <1>5 DEF FlagInv, NoneInv
  <2>2. mode = "frame"
    BY <1>1, <1>2, <2>1 DEF Unflagged, HitInv
  <2>3. fsm_state /= "ERRF"
    <3>1. CASE status.eof = 0
      BY <1>1, <1>2, <2>2, <3>1, Unbroken
    <3>2. CASE status.eof /= 0
      BY <1>2, <2>2, <3>2 DEF BusInv, Framing, Entering, Starting, Clean, NoStatus, Leaving, Done,
         Receiving, Following
    <3> QED
      BY <3>1, <3>2
  <2>4. CASE ou_state = "OU_DONE"
    BY <2>1, <2>3, <2>4, DoneRests DEF Stays, Breaks, Active
  <2>5. CASE Active
    <3>1. ~NewMatch(in) /\ arm /= 1
      <4>1. ASSUME arm = 1 PROVE phase >= Psp \/ phase <= 1
        BY <1>2, <4>1 DEF Armed, Decided, UnitEdge
      <4> QED
        BY <1>1, <1>5, <2>2, <2>5, <4>1, QueuedTarget DEF NewMatch
    <3>2. hits' = 0
      BY <1>2, <2>1, <3>1
    <3>3. err_dom' = 0
      <4>1. phase = Psp => queue /= 0
        BY <1>1, <2>2, <2>5, QueuedTarget
      <4> QED
        BY <2>1, <3>1, <4>1 DEF UnitEdge
    <3>4. Stays(in) \/ Finds(in)
      BY <1>3, <2>1, <2>3, <3>1 DEF Matched, Breaks, Yields
    <3>5. err'.fsm = 0 /\ (err'.miss = 1 \/ Active')
      BY <1>2, <2>1, <2>5, <3>1, <3>4 DEF Stays, Finds, Active
    <3> QED
      BY <3>2, <3>3, <3>5
  <2>6. ou_state = "OU_DONE" \/ Active
    BY <1>2, <1>5 DEF Receiver, OuStates, Active
  <2> QED
    BY <2>4, <2>5, <2>6
<1> QED
  BY <1>1, <1>4, <1>5
-----------------------------------------------------------------------------
(* The feedback between the frames *)

\* The edges between two frames end the hunt, raise the interrupt and clear it.
LEMMA FlagsAsleep ==
    ASSUME ou_state \in OuStates \ {"OU_DLC", "OU_DATA_CRC"}, Units(1, 0, 0, 0),
           ou_state /= "OU_BSFX", arm = 0
    PROVE  /\ shadow_state' = "ABIT" /\ inj_pending' = inj_pending
           /\ err_dom' = err_dom /\ arm' = 0
           /\ \/ /\ ou_state \in {"OU_BIT", "OU_BSDY"} /\ ou_state' = "OU_DONE"
                 /\ err' = [err EXCEPT !.miss = 1] /\ interrupt_req' = 0
              \/ ou_state = "OU_DONE" /\ ou_state' = "OU_AWAIT_FI" /\ err' = err
              \/ /\ ou_state = "OU_AWAIT_FI" /\ ou_state' = "OU_AWAIT_FI" /\ err' = err
                 /\ interrupt_req' = 0
<1>1. PICK in : OuClock(in) /\ in.sleep = 1
  BY DEF Units
<1>2. OuSleep /\ ArmInjection(in) /\ ~NewMatch(in)
  BY <1>1 DEF OuClock, OuStateMachine, NewMatch
<1>3. arm' = 0 /\ err_dom' = err_dom
  BY <1>1, <1>2 DEF ArmInjection
<1> QED
  BY <1>2, <1>3 DEF OuSleep, PendingAfterArm, OuStates

\* An edge between two frames.
LEMMA FlagSleep ==
    ASSUME AsleepInv, ou_state \in OuStates \ {"OU_DLC", "OU_DATA_CRC"}, FlagInv, SleepEdge
    PROVE  FlagInv'
<1>1. /\ ou_state /= "OU_BSFX" /\ arm = 0 /\ Units(1, 0, 0, 0)
      /\ awake = 0 /\ awake' = 0 /\ UNCHANGED << id, target, hits, id_mem >>
      /\ mode' = (IF mode \in {"flag", "flagged"} THEN "flagged" ELSE "silent")
  BY DEF AsleepInv, SleepEdge, Units
<1>2. /\ shadow_state' = "ABIT" /\ inj_pending' = inj_pending
      /\ err_dom' = err_dom /\ arm' = 0
      /\ \/ /\ ou_state \in {"OU_BIT", "OU_BSDY"} /\ ou_state' = "OU_DONE"
            /\ err' = [err EXCEPT !.miss = 1] /\ interrupt_req' = 0
         \/ ou_state = "OU_DONE" /\ ou_state' = "OU_AWAIT_FI" /\ err' = err
         \/ /\ ou_state = "OU_AWAIT_FI" /\ ou_state' = "OU_AWAIT_FI" /\ err' = err
            /\ interrupt_req' = 0
  BY <1>1, FlagsAsleep
<1>3. ~Current /\ ~Current' /\ ~Active'
  BY <1>1, <1>2 DEF Current, Active
<1>4. Hitting' = Hitting
  BY <1>1 DEF Hitting
<1>5. Fi' = Fi /\ (Asked' <=> Asked) /\ (Reporting' => Reporting /\ ou_state /= "OU_AWAIT_FI")
  <2>1. Fi' = Fi /\ (Asked' <=> Asked)
    BY <1>1, <1>4 DEF Fi, Asked
  <2> QED
    BY <1>2, <2>1 DEF Reporting
<1>6. FlagTypes
  BY DEF FlagInv
<1>7. FlagTypes'
  <2>1. "ABIT" \in FsmStates /\ 1 \in Bit
    BY FsmStateNames DEF Bit
  <2>2. err' \in [miss : Bit, fsm : Bit, dlc : Bit]
    BY <1>2, <1>6, <2>1 DEF FlagTypes
  <2> QED
    BY <1>1, <1>2, <1>6, <2>1, <2>2 DEF FlagTypes
<1>8. PendInv'
  BY <1>1, <1>2, <1>5 DEF FlagInv, PendInv
<1>9. HuntInv' /\ TargetInv'
  BY <1>1, <1>3 DEF HuntInv, TargetInv
<1>10. OutcomeInv'
  BY <1>1, <1>2, <1>3, <1>5 DEF FlagInv, OutcomeInv, Active
<1>11. NoneInv'
  <2>1. ASSUME Reporting', SingleBit', target' = "none", Unflagged'
        PROVE  hits' = 0 /\ err_dom' = 0 /\ err'.fsm = 0 /\ err'.miss = 1
    <3>1. Reporting /\ SingleBit /\ target = "none" /\ Unflagged
      BY <1>1, <1>5, <1>6, <2>1 DEF SingleBit, Unflagged, FlagTypes
    <3>2. hits = 0 /\ err_dom = 0 /\ err.fsm = 0 /\ (err.miss = 1 \/ Active)
      BY <3>1 DEF FlagInv, NoneInv
    <3> QED
      BY <1>1, <1>2, <1>5, <1>6, <2>1, <3>2 DEF FlagTypes, Active
  <2> QED
    BY <2>1 DEF NoneInv
<1> QED
  BY <1>1, <1>7, <1>8, <1>9, <1>10, <1>11 DEF FlagInv

\* The wake-up finds nothing to report.
LEMMA FlagWakeUp ==
    ASSUME CoreInv, FlagInv, WakeUp
    PROVE  FlagInv'
<1> USE Phases
<1>1. /\ Receiver /\ AsleepInv /\ BusTypes /\ FlagTypes /\ Units(1, 0, 0, 0) /\ awake = 0
      /\ phase >= 3 /\ phase' = Boundary /\ mode' = "frame" /\ target' = "none" /\ hits' = 0
  BY DEF CoreInv, UnitInv, FlagInv, WakeUp
<1>2. ou_state = "OU_AWAIT_FI" /\ arm = 0
  BY <1>1 DEF AsleepInv, BusTypes
<1>3. /\ shadow_state' = "ABIT" /\ inj_pending' = inj_pending /\ err_dom' = err_dom
      /\ ou_state' = "OU_AWAIT_FI" /\ err' = err /\ interrupt_req' = 0
  BY <1>1, <1>2, FlagsAsleep DEF Receiver
<1>4. ~Current' /\ ~Reporting' /\ ~Active'
  BY <1>1, <1>3 DEF Current, OnBus, Reporting, Active
<1>5. fsm_state' \in FsmStates /\ "ABIT" \in FsmStates
  BY <1>1, WakeUpStep, FsmStateNames DEF BusTypes, TypeOK, ParserTypeOK
<1>6. FlagTypes'
  BY <1>1, <1>3, <1>5 DEF FlagTypes
<1>7. OrderInv'
  BY <1>3, <1>5, NeverBack DEF OrderInv
<1> QED
  BY <1>1, <1>3, <1>4, <1>6, <1>7
  DEF FlagInv, PendInv, HuntInv, TargetInv, OutcomeInv, NoneInv, TakenInv, OverInv

-----------------------------------------------------------------------------
(* The invariant of the feedback *)

\* The core starts with nothing to report.
LEMMA FlagInit == CoreInit => FlagInv
<1> SUFFICES ASSUME CoreInit PROVE FlagInv
  OBVIOUS
<1>1. /\ awake = 0 /\ target = "none" /\ mode = "silent" /\ OuInit
      /\ "ABIT" \in FsmStates /\ 0 \in Bit
  BY FsmStateNames DEF CoreInit, Bit
<1>2. ~Current /\ ~Reporting /\ ~Active
  BY <1>1 DEF Current, Reporting, Active, OuInit
<1>3. FlagTypes
  BY <1>1 DEF FlagTypes, OuInit, NoErr
<1> QED
  BY <1>1, <1>2, <1>3 DEF FlagInv, PendInv, HuntInv, TargetInv, OutcomeInv, NoneInv

\* Every edge of a frame keeps the invariant.
LEMMA FlagStep ==
    ASSUME CoreInv, ExactInv, FlagInv, awake = 1, CoreNext
    PROVE  FlagInv'
<1>1. PICK in : UnitEdge(in)
  BY UnitEdges DEF CoreInv
<1>2. FlagTypes' /\ PendInv' /\ HuntInv' /\ TargetInv' /\ OutcomeInv' /\ NoneInv'
  BY <1>1, FlagTypesStep, PendStep, HuntStep, TargetStep, OutcomeStep, NoneStep
<1>3. awake' = 1 /\ mode' = "frame" => TakenInv' /\ OrderInv' /\ OverInv'
  BY <1>1, TakenStep, OrderStep, OverStep
<1> QED
  BY <1>2, <1>3 DEF FlagInv

\* So does a stuttering step.
LEMMA FlagStutter ==
    ASSUME FlagInv, UNCHANGED coreVars
    PROVE  FlagInv'
<1>1. /\ UNCHANGED << fsm_state, fsm_cnt, fd_mode, id_ready >>
      /\ UNCHANGED << field, pos, format, id, stuff >>
      /\ UNCHANGED << phase, awake, sent, mode, id_mem, onbus, seen, target, hits >>
      /\ UNCHANGED << ou_state, prep_strobe, late_strobe, shadow_state, interrupt_req >>
      /\ UNCHANGED << queue, arm, err, err_dom, inj_pending >>
  BY DEF coreVars, fsmVars, parserVars, timerVars, busVars, txVars, ouVars
<1>2. Hitting' = Hitting /\ (Asked' <=> Asked) /\ Fi' = Fi
  BY <1>1 DEF Hitting, Asked, Fi
<1>3. Upcoming' = Upcoming
  BY <1>1 DEF Upcoming, ParserState, ParserCount, FixedStuffed
<1>4. /\ Adds' = Adds /\ Targets' = Targets /\ (OnBus' <=> OnBus)
      /\ (Active' <=> Active) /\ (Untaken' <=> Untaken)
      /\ (SingleBit' <=> SingleBit) /\ (Unflagged' <=> Unflagged)
  BY <1>1, <1>2, <1>3 DEF Adds, Targets, Counted, Targeted, OnBus, Active, Untaken,
     SingleBit, Unflagged
<1>5. /\ Passed' = Passed /\ (Current' <=> Current) /\ (Reporting' <=> Reporting)
      /\ (Over' <=> Over)
  BY <1>1, <1>2, <1>3, <1>4 DEF Passed, Current, Reporting, Over, Past
<1>6. FlagTypes' /\ PendInv' /\ HuntInv' /\ TargetInv'
  BY <1>1, <1>4, <1>5 DEF FlagInv, FlagTypes, PendInv, HuntInv, TargetInv
<1>7. OutcomeInv' /\ NoneInv'
  BY <1>1, <1>4, <1>5 DEF FlagInv, OutcomeInv, NoneInv
<1>8. awake = 1 /\ mode = "frame" => TakenInv' /\ OrderInv' /\ OverInv'
  BY <1>1, <1>4, <1>5 DEF FlagInv, TakenInv, OrderInv, OverInv
<1> QED
  BY <1>1, <1>6, <1>7, <1>8 DEF FlagInv

-----------------------------------------------------------------------------
(* The types of the override unit's registers *)

\* What an edge hands to the override unit.
InTypes(in) ==
    /\ in.sleep \in Bit /\ in.fi \in FiFrames /\ in.fi_ready \in Bit
    /\ in.vec_ready \in Bit /\ in.data \in Bit /\ in.psp \in Bit
    /\ in.psp_strb \in Bit /\ in.fip_strb \in Bit /\ in.xcvr_strb \in Bit
\* As GroupOpen, for the shadow.
ShadowOpen == sb.state = "CRC" => sb.crc_cnt <= 3
\* The index of the vector, and the two shadows.
Vector == 0 .. VectorBits - 1
SfTypes == [state : FsmStates, cnt : Nat, crc_mode : Bit, disable : Bit]
SbTypes == [state : BsStates, crc_cnt : 0 .. 4, last : Bit, run : 1 .. 5, insert : Bit]

\* Every code of a slot stands for a field, or for none: parse_fi_frame.
LEMMA CodeNames == \A code \in Int : CanField(code) \in FsmStates
BY FsmStateNames DEF CanField

\* Stage I.
LEMMA StateTypes ==
    ASSUME TypeOK, OuTypeOK, NEW in, InTypes(in), OuStateMachine(in)
    PROVE  /\ ou_state' \in OuStates
           /\ prep_strobe' \in Bit /\ xcvr_prep' \in Bit /\ late_strobe' \in Bit
           /\ shadow_state' \in FsmStates /\ bsfx_shift' \in Bit /\ prev_bit' \in Bit
           /\ interrupt_req' \in Bit
           /\ err' \in [miss : Bit, fsm : Bit, dlc : Bit] /\ inj_pending' \in Bit
<1>1. /\ fsm_state \in FsmStates /\ sample_buf \in Bit /\ "ABIT" \in FsmStates
      /\ NoErr \in [miss : Bit, fsm : Bit, dlc : Bit]
      /\ ActiveState(in.fi.type) \in OuStates
  BY FsmStateNames DEF TypeOK, ParserTypeOK, NoErr, ActiveState, OuStates, Bit
<1> USE DEF OuTypeOK, NoStrobe, PendingAfterArm, Bit
<1>2. CASE OuSleep
  BY <1>1, <1>2 DEF OuSleep, OuStates
<1>3. CASE OuErrorFrame \/ OuMatch(in) \/ OuHold \/ OuDominant
  BY <1>1, <1>3 DEF OuErrorFrame, OuMatch, OuHold, OuDominant, OuStates
<1>4. CASE OuTransceive
  BY <1>1, <1>4 DEF OuTransceive, OuStates
<1>5. CASE OuSample(in)
  <2> DEFINE v == Verdict(in)
  <2> HIDE DEF v
  <2>1. /\ shadow_state' = fsm_state /\ prev_bit' = sample_buf
        /\ prep_strobe' = IF v = "Prep" THEN 1 ELSE 0
        /\ bsfx_shift' = IF ou_state = "OU_BSFX" /\ v = "Prep" THEN 1
                         ELSE bsfx_shift
        /\ ou_state' = IF v \in {"Stop", "Miss", "BadDlc"} THEN "OU_DONE"
                       ELSE ou_state
        /\ err' = IF v = "Miss" THEN [err EXCEPT !.miss = 1]
                  ELSE IF v = "BadDlc" THEN [err EXCEPT !.dlc = 1] ELSE err
        /\ xcvr_prep' = 0 /\ late_strobe' = 0
        /\ PendingAfterArm /\ interrupt_req' = 0
    BY <1>5 DEF OuSample, v
  <2> QED
    BY <1>1, <2>1 DEF OuStates
<1> QED
  BY <1>2, <1>3, <1>4, <1>5 DEF OuStateMachine

\* The shadow of the destuffer, with a count that its state allows.
Open(r) == r \in SbTypes /\ (r.state = "CRC" => r.crc_cnt <= 3)

\* Whatever it is updated to, it keeps its type.
LEMMA StufferUpdates ==
    ASSUME NEW r \in SbTypes
    PROVE  /\ Open([r EXCEPT !.state = "CRC_INSERT", !.insert = 1])
           /\ Open([r EXCEPT !.state = "INSERT", !.insert = 1])
           /\ Open([r EXCEPT !.state = "DISABLE"]) /\ Open([r EXCEPT !.state = "MONITOR"])
           /\ \A c \in 0 .. 4 : Open([r EXCEPT !.state = "DISABLE", !.crc_cnt = c])
           /\ Open([r EXCEPT !.state = "CRC_INSERT", !.crc_cnt = 0, !.insert = 1])
           /\ \A c \in 0 .. 3 : Open([r EXCEPT !.crc_cnt = c])
           /\ Open([r EXCEPT !.state = "CRC", !.crc_cnt = 0])
<1> USE DEF SbTypes, Open, BsStates, Bit
<1>1. /\ Open([r EXCEPT !.state = "CRC_INSERT", !.insert = 1])
      /\ Open([r EXCEPT !.state = "INSERT", !.insert = 1])
  OBVIOUS
<1>2. Open([r EXCEPT !.state = "DISABLE"]) /\ Open([r EXCEPT !.state = "MONITOR"])
  OBVIOUS
<1>3. ASSUME NEW c \in 0 .. 4 PROVE Open([r EXCEPT !.state = "DISABLE", !.crc_cnt = c])
  OBVIOUS
<1>4. Open([r EXCEPT !.state = "CRC_INSERT", !.crc_cnt = 0, !.insert = 1])
  <2>1. 0 \in 0 .. 4
    OBVIOUS
  <2> QED
    BY <2>1
<1>5. ASSUME NEW c \in 0 .. 3 PROVE Open([r EXCEPT !.crc_cnt = c])
  OBVIOUS
<1>6. Open([r EXCEPT !.state = "CRC", !.crc_cnt = 0])
  <2>1. 0 \in 0 .. 4 /\ 0 <= 3
    OBVIOUS
  <2> QED
    BY <2>1
<1> QED
  BY <1>1, <1>2, <1>3, <1>4, <1>5, <1>6

\* Stage II: the shadow of the parser.
LEMMA ShadowTypes ==
    ASSUME TypeOK, OuTypeOK
    PROVE  /\ SyncedSf \in SfTypes
           /\ \A cnt \in Nat : [SyncedSf EXCEPT !.cnt = cnt] \in SfTypes
           /\ [SyncedSf EXCEPT !.state = "CRC", !.cnt = 0] \in SfTypes
           /\ \A st \in FsmStates, cnt \in Nat : AdvancedSf(st, cnt) \in SfTypes
<1>1. SyncedSf \in SfTypes
  BY DEF SyncedSf, SfTypes, TypeOK, ParserTypeOK, OuTypeOK, Bit
<1>2. "CRC_STF" \in FsmStates /\ "CRC" \in FsmStates /\ "EOF" \in FsmStates /\ fd_mode \in Bit
  BY FsmStateNames DEF TypeOK, ParserTypeOK
<1>3. ASSUME NEW r \in SfTypes, NEW cnt \in Nat
      PROVE  /\ [r EXCEPT !.cnt = cnt] \in SfTypes
             /\ [r EXCEPT !.cnt = 0, !.state = "CRC"] \in SfTypes
             /\ [r EXCEPT !.state = "CRC", !.cnt = 0] \in SfTypes
             /\ [r EXCEPT !.cnt = 0, !.state = "EOF", !.disable = 1] \in SfTypes
             /\ [r EXCEPT !.cnt = 0, !.crc_mode = fd_mode,
                          !.state = IF fd_mode = 1 THEN "CRC_STF" ELSE "CRC"] \in SfTypes
  BY <1>2 DEF SfTypes, Bit
<1>4. ASSUME NEW st \in FsmStates, NEW cnt \in Nat PROVE AdvancedSf(st, cnt) \in SfTypes
  <2> DEFINE r == SyncedSf
  <2>1. /\ r \in SfTypes /\ cnt + 1 \in Nat
        /\ AdvancedSf(st, cnt) =
              IF ~FieldEnd(st, cnt) THEN [r EXCEPT !.cnt = cnt + 1]
              ELSE CASE st = "DATA" ->
                        [r EXCEPT !.cnt = 0, !.crc_mode = fd_mode,
                            !.state = IF fd_mode = 1 THEN "CRC_STF" ELSE "CRC"]
                   [] st = "CRC_STF" -> [r EXCEPT !.cnt = 0, !.state = "CRC"]
                   [] st = "CRC" -> [r EXCEPT !.cnt = 0, !.state = "EOF", !.disable = 1]
    BY <1>1 DEF AdvancedSf
  <2> HIDE DEF r
  <2>2. FieldEnd(st, cnt) => st \in {"DATA", "CRC_STF", "CRC"}
    BY DEF FieldEnd
  <2>3. CASE ~FieldEnd(st, cnt)
    BY <1>3, <2>1, <2>3
  <2>4. CASE FieldEnd(st, cnt) /\ st = "DATA"
    BY <1>3, <2>1, <2>4
  <2>5. CASE FieldEnd(st, cnt) /\ st = "CRC_STF"
    BY <1>3, <2>1, <2>5
  <2>6. CASE FieldEnd(st, cnt) /\ st = "CRC"
    BY <1>3, <2>1, <2>6
  <2> QED
    BY <2>2, <2>3, <2>4, <2>5, <2>6
<1>5. /\ \A cnt \in Nat : [SyncedSf EXCEPT !.cnt = cnt] \in SfTypes
      /\ [SyncedSf EXCEPT !.state = "CRC", !.cnt = 0] \in SfTypes
  <2> DEFINE r == SyncedSf
  <2>1. r \in SfTypes
    BY <1>1
  <2> HIDE DEF r
  <2>2. /\ \A cnt \in Nat : [r EXCEPT !.cnt = cnt] \in SfTypes
        /\ [r EXCEPT !.state = "CRC", !.cnt = 0] \in SfTypes
    BY <1>3, <2>1
  <2> QED
    BY <2>2 DEF r
<1> QED
  BY <1>1, <1>4, <1>5

\* The vector's index has a bit to take whenever the unit works on payload.
LEMMA PrepTypes ==
    ASSUME TypeOK, OuTypeOK, ShadowOpen, sb' \in SbTypes, NEW in, InTypes(in),
           ou_state = "OU_DATA_CRC" => data_cnt > 0, PrepOverride(in)
    PROVE  /\ queue' \in Bit /\ bs_cnt' \in Nat /\ dlc_sr' \in 0 .. 15
           /\ data_cnt' \in Vector
           /\ xcvr_req' \in Bit /\ subst' \in Bit /\ stage_iii' \in Bit
           /\ sf' \in SfTypes
<1>1. /\ SyncedSf \in SfTypes /\ sf \in SfTypes
      /\ \A cnt \in Nat : [SyncedSf EXCEPT !.cnt = cnt] \in SfTypes
      /\ [SyncedSf EXCEPT !.state = "CRC", !.cnt = 0] \in SfTypes
      /\ \A st \in FsmStates, cnt \in Nat : AdvancedSf(st, cnt) \in SfTypes
      /\ fsm_state \in FsmStates /\ fsm_cnt \in Nat /\ "CRC" \in FsmStates
  BY ShadowTypes, FsmStateNames DEF OuTypeOK, SfTypes, TypeOK, ParserTypeOK
<1>2. /\ VectorBits - 1 \in Vector /\ data_cnt \in Vector
      /\ data_cnt > 0 => data_cnt - 1 \in Vector
  BY VectorAssumption DEF OuTypeOK, Vector
<1>3. /\ in.fi.meta % 16 \in 0 .. 15 /\ ShiftOut(dlc_sr) \in 0 .. 15 /\ DlcTop \in Bit
      /\ dlc_sr \in 0 .. 15
  <2>1. in.fi.meta \in Nat
    BY DEF InTypes, FiFrames
  <2>2. dlc_sr \in 0 .. 15 /\ dlc_sr \div 8 \in {0, 1}
    BY DEF OuTypeOK
  <2> QED
    BY <2>1, <2>2 DEF ShiftOut, DlcTop, Bit
<1>4. queue \in {0, 1} /\ bs_cnt \in Nat /\ xcvr_req \in {0, 1} /\ bs_insert \in {0, 1}
      /\ prev_bit \in {0, 1} /\ sb.last \in {0, 1} /\ in.data \in {0, 1}
  BY DEF OuTypeOK, TypeOK, DestuffTypeOK, SbTypes, InTypes, Bit
<1>5. CASE NoPrep(in)
  BY <1>1, <1>2, <1>3, <1>4, <1>5 DEF NoPrep, VectorIndex, QueueAtRest, Bit
<1>6. CASE PrepBit \/ PrepStuff(in) \/ PrepStuffBit
  BY <1>1, <1>2, <1>3, <1>4, <1>6 DEF PrepBit, PrepStuff, PrepStuffBit, Not, Bit
<1>7. CASE PrepDlc
  BY <1>1, <1>2, <1>3, <1>4, <1>7 DEF PrepDlc, Override, Not, Bit
<1>8. CASE PrepData(in)
  BY <1>1, <1>2, <1>3, <1>4, <1>8 DEF PrepData, Override, Not, Bit
<1>9. CASE /\ XcvrStuffBit \/ XcvrDlc \/ XcvrData(in) \/ XcvrOther
           /\ stage_iii' = 1 /\ subst' = 0 /\ UNCHANGED << bs_cnt, xcvr_req >>
  <2>1. sf.state \in FsmStates /\ sf.cnt \in Nat
    BY <1>1 DEF SfTypes
  <2>2. CASE XcvrStuffBit
    BY <1>1, <1>2, <1>3, <1>4, <1>9, <2>1, <2>2 DEF XcvrStuffBit, Not, Bit
  <2>5. CASE XcvrOther
    BY <1>1, <1>2, <1>3, <1>4, <1>9, <2>1, <2>5 DEF XcvrOther, Bit
  <2>3. CASE XcvrDlc
    BY <1>1, <1>2, <1>3, <1>4, <1>9, <2>1, <2>3 DEF XcvrDlc, Bit
  <2>4. CASE XcvrData(in)
    BY <1>1, <1>2, <1>3, <1>4, <1>9, <2>1, <2>4 DEF XcvrData, Bit
  <2> QED
    BY <1>9, <2>2, <2>3, <2>4, <2>5
<1> QED
  BY <1>5, <1>6, <1>7, <1>8, <1>9 DEF PrepOverride

\* The shadow of the destuffer.
LEMMA StufferTypes ==
    ASSUME TypeOK, GroupOpen, OuTypeOK, ShadowOpen, ShadowStuffer
    PROVE  sb' \in SbTypes /\ ShadowOpen'
<1>1. /\ CopiedSb \in SbTypes
      /\ CopiedSb.state = "CRC" => CopiedSb.crc_cnt <= 3
      /\ sb \in SbTypes /\ queue \in Bit
  BY DEF CopiedSb, SbTypes, TypeOK, DestuffTypeOK, OuTypeOK, GroupOpen, ShadowOpen
<1>2. SbShifted \in SbTypes
  <2> DEFINE r == CopiedSb
  <2>1. /\ r \in SbTypes
        /\ SbShifted = [r EXCEPT !.insert = 0, !.last = queue,
              !.run = IF queue /= sb.last THEN 1 ELSE IF sb.run < 5 THEN sb.run + 1 ELSE 5]
    <3>1. r \in SbTypes
      BY <1>1
    <3> QED
      BY <3>1 DEF SbShifted
  <2> HIDE DEF r
  <2>2. (IF queue /= sb.last THEN 1 ELSE IF sb.run < 5 THEN sb.run + 1 ELSE 5) \in 1 .. 5
    BY <1>1 DEF SbTypes
  <2> QED
    BY <1>1, <2>1, <2>2 DEF SbTypes, Bit
<1>3. Open(SbNext)
  <2> DEFINE r == SbShifted
  <2>1. /\ sb.crc_cnt \in 0 .. 4 /\ (sb.state = "CRC" => sb.crc_cnt + 1 \in 0 .. 4)
        /\ r \in SbTypes /\ 0 \in 0 .. 4 /\ sf.disable \in {0, 1} /\ sf.crc_mode \in {0, 1}
        /\ sb.state = "CRC" => sb.crc_cnt <= 3
        /\ {"MONITOR", "INSERT", "CRC", "CRC_INSERT", "DISABLE"} \subseteq BsStates
    BY <1>1, <1>2 DEF SbTypes, ShadowOpen, OuTypeOK, Bit, BsStates
  <2>2. CASE sb.state = "MONITOR" /\ sf.crc_mode = 1
    <3>1. SbNext = [r EXCEPT !.state = "CRC_INSERT", !.insert = 1]
      BY <2>2 DEF SbNext
    <3> HIDE DEF r
    <3> QED
      BY <2>1, <3>1, StufferUpdates
  <2>3. CASE sb.state = "MONITOR" /\ sf.crc_mode = 0 /\ SbFiveEqual
    <3>1. SbNext = [r EXCEPT !.state = "INSERT", !.insert = 1]
      BY <2>3 DEF SbNext
    <3> HIDE DEF r
    <3> QED
      BY <2>1, <3>1, StufferUpdates
  <2>4. CASE \/ sb.state = "MONITOR" /\ sf.crc_mode = 0 /\ ~SbFiveEqual
             \/ sb.state = "INSERT"
    <3>1. SbNext = [r EXCEPT !.state = "DISABLE"] \/ SbNext = [r EXCEPT !.state = "MONITOR"]
      BY <2>4 DEF SbNext
    <3> HIDE DEF r
    <3> QED
      BY <2>1, <3>1, StufferUpdates
  <2>5. CASE sb.state = "CRC" /\ sf.disable = 1
    <3>1. SbNext = [r EXCEPT !.state = "DISABLE", !.crc_cnt = sb.crc_cnt + 1]
      BY <2>5 DEF SbNext
    <3> HIDE DEF r
    <3> QED
      BY <2>1, <2>5, <3>1, StufferUpdates
  <2>6. CASE sb.state = "CRC" /\ sf.disable = 0 /\ sb.crc_cnt = 3
    <3>1. SbNext = [r EXCEPT !.state = "CRC_INSERT", !.crc_cnt = 0, !.insert = 1]
      BY <2>6 DEF SbNext
    <3> HIDE DEF r
    <3> QED
      BY <2>1, <3>1, StufferUpdates
  <2>7. CASE sb.state = "CRC" /\ sf.disable = 0 /\ sb.crc_cnt /= 3
    <3>1. SbNext = [r EXCEPT !.crc_cnt = sb.crc_cnt + 1]
      BY <2>7 DEF SbNext
    <3>2. sb.crc_cnt + 1 \in 0 .. 3
      BY <2>1, <2>7
    <3> HIDE DEF r
    <3> QED
      BY <2>1, <2>7, <3>1, <3>2, StufferUpdates
  <2>8. CASE sb.state = "CRC_INSERT"
    <3>1. SbNext = [r EXCEPT !.state = "CRC", !.crc_cnt = 0]
      BY <2>8 DEF SbNext
    <3> HIDE DEF r
    <3> QED
      BY <2>1, <3>1, StufferUpdates
  <2>9. CASE sb.state \notin {"MONITOR", "INSERT", "CRC", "CRC_INSERT"}
    <3>1. SbNext = [r EXCEPT !.state = "DISABLE"]
      BY <2>9 DEF SbNext
    <3> HIDE DEF r
    <3> QED
      BY <2>1, <3>1, StufferUpdates
  <2> QED
    BY <2>1, <2>2, <2>3, <2>4, <2>5, <2>6, <2>7, <2>8, <2>9
<1>4. sb' = SbNext \/ sb' = CopiedSb
  BY DEF ShadowStuffer
<1> QED
  BY <1>1, <1>3, <1>4 DEF ShadowOpen, Open

\* One edge of the override unit.
LEMMA OverrideTypes ==
    ASSUME TypeOK, GroupOpen, OuTypeOK, ShadowOpen, NEW in, InTypes(in),
           ou_state = "OU_DATA_CRC" => data_cnt > 0, OuClock(in)
    PROVE  OuTypeOK' /\ ShadowOpen'
<1>1. fi_parsed' \in Bit /\ fi_can_field' \in FsmStates
  <2>1. CanField(in.fi.field) \in FsmStates /\ "SLEEP" \in FsmStates
    BY CodeNames, FsmStateNames DEF InTypes, FiFrames
  <2> QED
    BY <2>1 DEF OuClock, ParseFiFrame, OuTypeOK, Bit
<1>2. sb' \in SbTypes /\ ShadowOpen'
  BY StufferTypes DEF OuClock
<1>3. arm' \in Bit /\ err_dom' \in Bit
  BY DEF OuClock, ArmInjection, OuTypeOK, Not, Bit
<1>4. OuStateMachine(in) /\ PrepOverride(in)
  BY DEF OuClock
<1> QED
  BY <1>1, <1>2, <1>3, <1>4, StateTypes, PrepTypes DEF OuTypeOK, SfTypes, SbTypes, Vector

\* Its reset.
LEMMA OverrideResetTypes == OuReset => OuTypeOK' /\ ShadowOpen'
<1>1. VectorBits - 1 \in 0 .. VectorBits - 1
  BY VectorAssumption
<1> QED
  BY <1>1, FsmStateNames DEF OuReset, OuTypeOK, ShadowOpen, OuStates, BsStates, NoErr, Bit
-----------------------------------------------------------------------------
(* The types of the core *)

\* What holds next to the types: the destuffer's and its shadow's groups are
\* short, and the unit does not work on payload.
BitRecords == [state : FsmStates, cnt : Nat, hot : BOOLEAN,
               kind : {"field", "fixed", "dynamic"}]
UnitTypes == /\ TypeOK /\ GroupOpen /\ OuTypeOK /\ ShadowOpen /\ MuTypeOK
             /\ id_mem \in SlotTables
             /\ fi_frame.type /= "FI_DATA" /\ ou_state /= "OU_DATA_CRC"
LineTypes ==
    /\ phase \in 0 .. BitEdges - 1 /\ awake \in Bit
    /\ can_tx \in Bit /\ xcvr_mode \in Bit /\ fip_strb \in Bit /\ sent \in Bit
SenderTypes ==
    /\ mode \in {"frame", "flag", "flagged", "silent"} /\ flag \in 0 .. 6
    /\ mode = "flag" => flag >= 1
    /\ pos \in Nat
    /\ onbus \in BitRecords
    /\ seen \in Nat /\ hits \in 0 .. 2
    /\ target \in {"none", "recessive", "dominant"}
TypeInv == UnitTypes /\ LineTypes /\ SenderTypes

\* One edge of the units.
LEMMA UnitTypesStep ==
    ASSUME NoPayload, UnitTypes, LineTypes, NEW sleep \in Bit, NEW strb \in Bit,
           NEW psp \in Bit, NEW xcvr \in Bit, Units(sleep, strb, psp, xcvr)
    PROVE  UnitTypes'
<1>1. PICK d \in DataBits :
        OuClock([sleep |-> sleep, fi |-> fi_frame, fi_ready |-> fi_frame_ready,
                   vec_ready |-> data_vector_ready, data |-> d, psp |-> Level,
                   psp_strb |-> psp, fip_strb |-> fip_strb,
                   xcvr_strb |-> xcvr])
  BY DEF Units
<1> DEFINE in == [sleep |-> sleep, fi |-> fi_frame, fi_ready |-> fi_frame_ready,
                   vec_ready |-> data_vector_ready, data |-> d, psp |-> Level,
                   psp_strb |-> psp, fip_strb |-> fip_strb,
                   xcvr_strb |-> xcvr]
<1>2. d \in Bit /\ Level \in Bit
  BY DEF DataBits, Level, Bit
<1>3. InTypes(in) /\ in.fi.type /= "FI_DATA"
  BY <1>2 DEF InTypes, UnitTypes, LineTypes, MuTypeOK
<1>4. OuClock(in)
  BY <1>1
<1> HIDE DEF in
<1>5. OuTypeOK' /\ ShadowOpen'
  BY <1>3, <1>4, OverrideTypes DEF UnitTypes
<1>6. TypeOK' /\ GroupOpen'
  BY <1>2, ClockTypes DEF Units, UnitTypes
<1>7. id_mem' = id_mem /\ id_mem \in SlotTypes /\ id_mem \in SlotTables
  BY TablesAssumption DEF Units, UnitTypes, SlotTypes
<1>8. MuTypeOK'
  BY <1>7, MemoryTypes DEF Units, UnitTypes
<1>9. fi_frame'.type /= "FI_DATA"
  <2>1. Root.idx \in Entries
    BY ClearedTypes DEF UnitTypes, MuTypeOK, Root
  <2>2. id_mem[Root.idx].fi.type /= "FI_DATA"
    BY <1>7, <2>1 DEF NoPayload
  <2> QED
    BY <2>2 DEF Units, MuClock, ExtractFiFrame, UnitTypes, FiNull
<1>10. ou_state' /= "OU_DATA_CRC"
  <2>1. OuStateMachine(in) /\ ou_state /= "OU_DATA_CRC"
    BY <1>4 DEF OuClock, UnitTypes
  <2>2. CASE OuMatch(in)
    BY <1>3, <2>2 DEF OuMatch, ActiveState
  <2>3. CASE OuSleep \/ OuErrorFrame \/ OuHold \/ OuDominant \/ OuTransceive
    BY <2>1, <2>3 DEF OuSleep, OuErrorFrame, OuHold, OuDominant, OuTransceive
  <2>4. CASE OuSample(in)
    BY <2>1, <2>4 DEF OuSample
  <2> QED
    BY <2>1, <2>2, <2>3, <2>4 DEF OuStateMachine
<1> QED
  BY <1>5, <1>6, <1>7, <1>8, <1>9, <1>10 DEF UnitTypes

\* The names and counts of the bits that the sender sends.
LEMMA SentBits ==
    /\ ParserState \in FsmStates
    /\ pos \in Nat => ParserCount \in Nat
<1>1. ParserState \in FsmStates
  BY FsmStateNames DEF ParserState
<1>2. ASSUME pos \in Nat PROVE ParserCount \in Nat
  BY <1>2, WidthsAssumption DEF ParserCount
<1> QED
  BY <1>1, <1>2

\* The sender's part of a step.
LEMMA SenderTypesStep ==
    ASSUME SenderTypes, CoreNext
    PROVE  SenderTypes'
<1>1. NoBit \in BitRecords
  BY FsmStateNames DEF NoBit, BitRecords
<1>2. CASE UNCHANGED << busVars, hits >>
  BY <1>2 DEF SenderTypes, busVars, txVars
<1>3. CASE Sample
  <2>1. /\ hits' \in 0 .. 2 /\ seen' = seen /\ target' = target
    BY <1>3 DEF Sample, SenderTypes
  <2>2. CASE GiveUp /\ (\/ mode' = "flag" /\ flag' = 6
                        \/ mode' = "silent" /\ UNCHANGED flag)
    BY <1>1, <2>1, <2>2 DEF GiveUp, SenderTypes
  <2>3. CASE UNCHANGED << mode, flag, onbus >> /\ (Send(Level) \/ UNCHANGED txVars)
    BY <2>1, <2>3 DEF SenderTypes, Send, SendStuff, SendFieldBit, txVars
  <2> QED
    BY <1>3, <2>2, <2>3 DEF Sample
<1>4. CASE BitStart
  <2>1. hits' = hits
    BY <1>4 DEF BitStart
  <2>2. CASE SendFlagBit \/ StaySilent
    BY <2>1, <2>2 DEF SendFlagBit, StaySilent, SenderTypes, txVars
  <2>3. CASE ReceiverFlags
    BY <1>1, <2>1, <2>3 DEF ReceiverFlags, GiveUp, SenderTypes
  <2>4. ASSUME NEW bit \in BitRecords, NextSent(bit), UNCHANGED txVars
        PROVE  SenderTypes'
    <3>1. PICK hot \in BOOLEAN : /\ onbus' = [bit EXCEPT !.hot = hot]
                                 /\ target' \in {target, "recessive", "dominant"}
      BY <2>4 DEF NextSent
    <3>2. seen' \in Nat /\ mode' = mode /\ flag' = flag
      BY <2>4 DEF NextSent, SenderTypes
    <3>3. onbus' \in BitRecords
      BY <2>4, <3>1 DEF BitRecords
    <3> QED
      BY <2>1, <2>4, <3>1, <3>2, <3>3 DEF SenderTypes, txVars
  <2>5. CASE SendBit
    <3>1. ParserCount \in Nat /\ ParserState \in FsmStates
      BY SentBits DEF SenderTypes
    <3>2. /\ [NoBit EXCEPT !.state = ParserState, !.cnt = ParserCount] \in BitRecords
          /\ [onbus EXCEPT !.kind = IF FixedStuffed THEN "fixed" ELSE "dynamic"]
               \in BitRecords
      BY <3>1 DEF SenderTypes, BitRecords, NoBit
    <3> QED
      BY <2>4, <2>5, <3>2 DEF SendBit
  <2> QED
    BY <1>4, <2>2, <2>3, <2>5 DEF BitStart
<1>5. CASE WakeUp
  BY <1>1, <1>5 DEF WakeUp, StartFrame, SenderTypes
<1>6. CASE SleepEdge
  BY <1>6 DEF SleepEdge, SenderTypes
<1> QED
  BY <1>2, <1>3, <1>4, <1>5, <1>6
  DEF CoreNext, FrameNext, PreSample, FaultInjectionPoint, OtherEdge, ResetEdge

\* The timer unit's part of it.
LEMMA LineTypesStep ==
    ASSUME LineTypes, UnitTypes, CoreNext
    PROVE  LineTypes'
<1> USE Phases DEF LineTypes, Bit
<1>1. status.eof \in {0, 1} /\ arm \in {0, 1} /\ xcvr_req \in {0, 1} /\ status.eof \in Int
  BY DEF UnitTypes, TypeOK, ParserTypeOK, Statuses, OuTypeOK
<1>2. Tick => awake' \in Bit /\ phase' \in 0 .. BitEdges - 1
  <2>1. phase + 1 \in Nat /\ (phase + 1) % BitEdges \in 0 .. BitEdges - 1
    OBVIOUS
  <2> QED
    BY <1>1, <2>1 DEF Tick
<1>3. Not(arm) \in Bit /\ Driven \in Bit
  BY <1>1 DEF Not, Driven
<1>4. CASE Sample
  BY <1>2, <1>4 DEF Sample
<1>5. CASE BitStart
  BY <1>2, <1>5 DEF BitStart
<1>6. CASE PreSample \/ FaultInjectionPoint \/ OtherEdge
  BY <1>2, <1>3, <1>6 DEF PreSample, FaultInjectionPoint, OtherEdge, busVars
<1>7. CASE SleepEdge \/ WakeUp
  BY <1>7 DEF SleepEdge, WakeUp
<1>8. CASE ResetEdge
  BY <1>8 DEF ResetEdge, busVars
<1> QED
  BY <1>4, <1>5, <1>6, <1>7, <1>8 DEF CoreNext, FrameNext

\* One step of the core.
LEMMA TypesStep ==
    ASSUME NoPayload, TypeInv, CoreNext
    PROVE  TypeInv'
<1>1. SenderTypes' /\ LineTypes'
  BY SenderTypesStep, LineTypesStep DEF TypeInv
<1>2. ASSUME NEW sleep \in Bit, NEW strb \in Bit, NEW psp \in Bit, NEW xcvr \in Bit,
             Units(sleep, strb, psp, xcvr)
      PROVE  UnitTypes'
  BY <1>2, UnitTypesStep DEF TypeInv
<1>3. CASE ResetEdge
  <2>1. TypeOK' /\ GroupOpen'
    BY <1>3, ResetTypes DEF ResetEdge, TypeInv, UnitTypes
  <2>2. OuTypeOK' /\ ShadowOpen'
    BY <1>3, OverrideResetTypes DEF ResetEdge
  <2>3. MuTypeOK'
    BY <1>3, MemoryResetTypes DEF ResetEdge, TypeInv, UnitTypes
  <2>4. fi_frame'.type /= "FI_DATA" /\ ou_state' /= "OU_DATA_CRC" /\ id_mem' \in SlotTables
    BY <1>3 DEF ResetEdge, MuReset, OuReset, FiNull, TypeInv, UnitTypes
  <2> QED
    BY <1>1, <2>1, <2>2, <2>3, <2>4 DEF TypeInv, UnitTypes
<1>4. xcvr_mode \in Bit /\ 1 - xcvr_mode \in Bit /\ 0 \in Bit /\ 1 \in Bit
  BY DEF TypeInv, LineTypes, Bit
<1>5. CASE FrameNext
  <2>1. UnitTypes'
    BY <1>2, <1>4, <1>5
    DEF FrameNext, Sample, BitStart, PreSample, FaultInjectionPoint, OtherEdge, SleepEdge,
        WakeUp
  <2> QED
    BY <1>1, <2>1 DEF TypeInv
<1> QED
  BY <1>3, <1>5 DEF CoreNext

\* And none at all.
LEMMA TypesStutter ==
    ASSUME TypeInv, UNCHANGED coreVars
    PROVE  TypeInv'
<1>1. UNCHANGED << fsmVars, ouVars, muVars, id_mem, timerVars, busVars, hits >>
  BY DEF coreVars
<1>2. TypeOK' /\ GroupOpen'
  BY <1>1 DEF fsmVars, parserVars, dlcVars, bsVars, TypeInv, UnitTypes, TypeOK, ParserTypeOK,
     DestuffTypeOK, GroupOpen
<1>3. OuTypeOK' /\ ShadowOpen' /\ (ou_state' /= "OU_DATA_CRC")
  BY <1>1 DEF ouVars, TypeInv, UnitTypes, OuTypeOK, ShadowOpen
<1>4. MuTypeOK' /\ fi_frame'.type /= "FI_DATA"
  BY <1>1 DEF muVars, TypeInv, UnitTypes, MuTypeOK
<1>5. LineTypes' /\ SenderTypes'
  BY <1>1 DEF timerVars, busVars, txVars, TypeInv, LineTypes, SenderTypes
<1> QED
  BY <1>1, <1>2, <1>3, <1>4, <1>5 DEF TypeInv, UnitTypes

\* Every register has its type after reset.
LEMMA TypesStart == CoreInit => TypeInv
<1> SUFFICES ASSUME CoreInit PROVE TypeInv
  OBVIOUS
<1>1. TypeOK /\ GroupOpen
  <2>1. 0 \in 0 .. IdModulus - 1
    BY WidthsAssumption
  <2> QED
    BY <2>1, FsmStateNames, StatusTypes
    DEF CoreInit, Init, GroupOpen, TypeOK, ParserTypeOK, DestuffTypeOK, BsStates, Bit
<1>2. OuTypeOK /\ ShadowOpen /\ ou_state /= "OU_DATA_CRC"
  <2>1. VectorBits - 1 \in 0 .. VectorBits - 1
    BY VectorAssumption
  <2> QED
    BY <2>1, FsmStateNames
    DEF CoreInit, OuInit, OuTypeOK, ShadowOpen, OuStates, BsStates, NoErr, Bit
<1>3. MuTypeOK /\ fi_frame.type /= "FI_DATA"
  <2>1. NoData \in [Segments -> Words] /\ 0 \in Words
    BY MemoryAssumption DEF NoData
  <2>2. node \in [Nodes -> NodeTypes]
    BY ClearedTypes DEF CoreInit, MuInit
  <2>3. FiNull.type /= "FI_DATA"
    BY DEF FiNull
  <2>4. /\ bank0 \in [0 .. 2 ^ TreeDepth * Bank0Segs - 1 -> Words]
        /\ bank1 \in [0 .. 2 ^ TreeDepth * Bank1Segs - 1 -> Words]
    BY <2>1 DEF CoreInit, MuInit
  <2> QED
    BY <2>1, <2>2, <2>3, <2>4, ClearedTypes DEF CoreInit, MuInit, MuTypeOK, NodeTypes, Bit
<1>4. LineTypes
  BY Phases DEF CoreInit, LineTypes, Bit
<1>5. SenderTypes
  BY FsmStateNames DEF CoreInit, TxInit, SenderTypes, NoBit, BitRecords
<1> QED
  BY <1>1, <1>2, <1>3, <1>4, <1>5 DEF TypeInv, UnitTypes, CoreInit

\* Every register of the core on a bus keeps its type, for all widths of the fields,
\* every depth of the tree, every table of slots but those for payload and wherever
\* boundary, PSP and FIP lie in the bit, whoever flags an error.
THEOREM CoreTypes == ASSUME NoPayload PROVE CoreSpec => []CoreTypeOK
<1>1. TypeInv /\ [CoreNext]_coreVars => TypeInv'
  BY TypesStep, TypesStutter
<1>2. TypeInv => CoreTypeOK
  BY DEF TypeInv, UnitTypes, LineTypes, SenderTypes, BitRecords, CoreTypeOK
<1> QED
  BY TypesStart, <1>1, <1>2, PTL DEF CoreSpec
-----------------------------------------------------------------------------
(* Frames that the unit sends itself *)

\* A slot for the DLC or for payload was found, and the unit has picked it up.
Overrides == {"OU_DLC", "OU_DATA_CRC"}
Taken == ~Plain /\ ou_state /= "OU_AWAIT_FI"

\* Until it picks up a frame nothing is prepared, armed or driven, and it will
\* do so in the bit that follows the identifier.
FreshInv ==
    awake = 1 /\ ou_state = "OU_AWAIT_FI" =>
        /\ Quiet /\ << xcvr_mode, arm, interrupt_req, hits >> = << 0, 0, 0, 0 >>
        /\ can_tx = 1
        /\ id_ready = 1 /\ Asked => fsm_cnt = 0

\* The bits that a vector for the payload overrides; one more is looked at.
PayloadBit ==
    fsm_state \in {"DATA", "CRC_STF", "CRC"} \/ (fsm_state = "EOF" /\ fsm_cnt = 0)
OverrideBit == IF ou_state = "OU_DLC" THEN fsm_state = "CTRL"
               ELSE fsm_state = "CTRL" \/ PayloadBit

\* The unit looks for a bit that it has to change and follows the frame meanwhile.
Listening ==
    /\ << xcvr_req, xcvr_mode, xcvr_prep, subst, stage_iii >> = << 0, 0, 0, 0, 0 >>
    /\ queue = 1 /\ arm = 0 /\ err_dom = 0 /\ can_tx = 1 /\ inj_pending = 1
    /\ prep_strobe = 1 =>
          phase = 2 /\ IF ou_state = "OU_DLC" THEN fsm_cnt > 3 ELSE PayloadBit
    /\ late_strobe = 1 => fsm_cnt = 0
    /\ phase /= 1 => OverrideBit
    /\ phase = 1 => \/ fsm_state \in {"CTRL", "ERRF", "DATA", "CRC_STF", "CRC"}
                    \/ ou_state = "OU_DATA_CRC" /\ fsm_state = "EOF" /\ fsm_cnt <= 1

\* A recessive bit is to be made dominant: it waits for the pre-sample point, where
\* the bit turns out recessive or dominant already, and for the FIP.
Claiming ==
    /\ xcvr_req = 1 /\ xcvr_mode = 0 /\ phase \in 3 .. Fip /\ queue = 0
    /\ subst = (IF phase = 3 THEN 1 ELSE 0)
    /\ << xcvr_prep, stage_iii, prep_strobe, late_strobe >> = << 0, 0, 0, 0 >>
    /\ IF phase > Psp THEN arm = Not(err_dom) ELSE arm = 0 /\ err_dom = 0
    /\ can_tx = 1 /\ OverrideBit

\* The unit sends: one bit after the other is prepared at the sample point before
\* it, queued, armed and driven. It starts with the FIP of the claimed bit, or
\* gives way there to one that was dominant already.
Sending ==
    /\ xcvr_req = 1 /\ xcvr_mode = 1
    /\ << prep_strobe, late_strobe, subst >> = << 0, 0, 0 >>
    /\ xcvr_prep = (IF phase = 1 THEN 1 ELSE 0)
    /\ stage_iii = (IF phase = 2 THEN 1 ELSE 0)
    /\ err_dom = 1 => phase = Fip + 1 /\ fip_strb = 1 /\ arm = 0 /\ queue = 0
    /\ phase /= 2 /\ err_dom = 0 => arm = Not(queue)
    /\ phase > Psp \/ phase = 0 => can_tx = Not(arm)
    /\ fsm_state = "ERRF" => phase = 1
    /\ fsm_state /= "AWAIT_EOF" /\ status.eof = 0

\* What was sent last leaves the stages one edge after the other.
Resting ==
    /\ xcvr_mode = xcvr_req /\ arm = 0
    /\ << prep_strobe, xcvr_prep, late_strobe, subst >> = << 0, 0, 0, 0 >>
    /\ stage_iii = 1 => phase = 2
    /\ queue = 0 => phase \in {0, 1, 2, Fip + 2}
    /\ can_tx = 0 => xcvr_mode = 1 /\ phase \in 1 .. Boundary + 1

SenderInv ==
    Taken =>
        /\ interrupt_req = 0 /\ (fip_strb = 1 => phase = Fip + 1)
        /\ \/ ou_state \in Overrides /\ (Listening \/ Claiming \/ Sending)
           \/ ou_state = "OU_DONE" /\ Resting
-----------------------------------------------------------------------------
\* What the search for the slot says of a frame that is to be overridden.
LEMMA TakenFrame ==
    ASSUME BusTypes, BusInv, ChainInv, awake = 1, ~Plain
    PROVE  /\ data_vector_ready = 1 /\ Asked /\ id_ready = 1
           /\ Fi.type \in {"FI_DLC", "FI_DATA"}
           /\ ou_state \in {"OU_AWAIT_FI", ActiveState(Fi.type), "OU_DONE"}
           /\ ou_state = "OU_AWAIT_FI" =>
                 /\ phase = MatchAge + 1 /\ fsm_state = "CTRL" /\ queue = 1
                 /\ prep_strobe = 0 /\ late_strobe = 0 /\ fi_parsed = 1
           /\ fsm_state \notin {"ABIT", "SLEEP"} \/ phase = 1
<1> USE Phases
<1>1. data_vector_ready = 1 /\ Fi.type \in {"FI_DLC", "FI_DATA"}
  BY DEF Plain
<1>2. PICK a \in 0 .. Evaluated : AgeOk(a) /\ ChainAt(a)
  BY DEF ChainInv
<1>3. a >= MatchAge /\ Asked
  BY <1>1, <1>2 DEF ChainAt, MemoryAt
<1>4. MatchAge \in {TreeDepth + 3, TreeDepth + 5} /\ a \in Int /\ Evaluated = TreeDepth + 7
  BY DEF MatchAge, Evaluated
<1>5. id_ready = 1
  BY <1>2, <1>3, <1>4 DEF AgeOk, BusTypes, TypeOK, ParserTypeOK, Bit
<1>6. ou_state \in {"OU_AWAIT_FI", ActiveState(Fi.type), "OU_DONE"}
  BY <1>2, <1>3, <1>4, <1>5 DEF ChainAt, OverrideAt
<1>7. ASSUME ou_state = "OU_AWAIT_FI"
      PROVE  /\ phase = MatchAge + 1 /\ fsm_state = "CTRL" /\ queue = 1
             /\ prep_strobe = 0 /\ late_strobe = 0 /\ fi_parsed = 1
  <2>1. ActiveState(Fi.type) /= "OU_AWAIT_FI"
    BY <1>1 DEF ActiveState
  <2>2. a = MatchAge
    BY <1>2, <1>3, <1>4, <1>7, <2>1 DEF ChainAt, OverrideAt
  <2>3. a /= MatchAge + 1 /\ a /= Evaluated /\ a >= TreeDepth + 2
    BY <1>4, <2>2
  <2>4. a = phase - 1 /\ fsm_state = "CTRL"
    BY <1>2, <1>5, <2>3 DEF AgeOk
  <2>5. phase \in Int
    BY DEF BusTypes
  <2> QED
    BY <1>2, <1>3, <1>4, <2>2, <2>3, <2>4, <2>5 DEF ChainAt, OverrideAt
<1>8. fsm_state \notin {"ABIT", "SLEEP"} \/ phase = 1
  <2>1. fsm_state /= "ABIT"
    BY <1>5, IdentifierHeld
  <2>2. ASSUME fsm_state = "SLEEP", phase /= 1 PROVE FALSE
    BY <1>5, <2>2 DEF BusInv, Framing, Broken, Entering, Leaving, Receiving, Following,
       Starting, Clean
  <2> QED
    BY <2>1, <2>2
<1> QED
  BY <1>1, <1>3, <1>5, <1>6, <1>7, <1>8

\* The edge of such a frame, flat.
TakenEdge(in) ==
    /\ BusEdge /\ TimerEdge /\ Wires(in) /\ OuClock(in)
    /\ OuTypeOK /\ LineTypes /\ status.eof \in {0, 1} /\ Level \in {0, 1}
    /\ phase \in 0 .. BitEdges - 1 /\ (sample_ready = 1 <=> phase = 1)
    /\ late_strobe = 1 => phase = MatchAge + 2 /\ fsm_state = "CTRL" /\ prep_strobe = 0
    /\ MatchAge \in {TreeDepth + 3, TreeDepth + 5}

LEMMA TakenEdges ==
    ASSUME BusTypes, BusInv, ChainInv, OuTypeOK, LineTypes, awake = 1, CoreNext
    PROVE  \E in : TakenEdge(in)
<1>1. BusEdge /\ TimerEdge
  BY FrameEdges
<1>2. PICK in : Wires(in) /\ OuClock(in)
  BY FrameEdges
<1>3. status.eof \in {0, 1} /\ Level \in {0, 1} /\ phase \in 0 .. BitEdges - 1
  BY LevelTypes DEF BusTypes, TypeOK, ParserTypeOK, Statuses, Bit
<1>4. sample_ready = 1 <=> phase = 1
  BY DEF BusInv
<1>5. late_strobe = 1 => phase = MatchAge + 2 /\ fsm_state = "CTRL" /\ prep_strobe = 0
  BY LateInBit
<1>6. MatchAge \in {TreeDepth + 3, TreeDepth + 5}
  BY DEF MatchAge
<1> QED
  BY <1>1, <1>2, <1>3, <1>4, <1>5, <1>6 DEF TakenEdge
-----------------------------------------------------------------------------
(* One edge of the units *)

\* Stage III.
LEMMA ArmTaken ==
    ASSUME NEW in, Wires(in), ArmInjection(in), ~NewMatch(in), OuTypeOK, LineTypes
    PROVE  /\ ou_state' = "OU_DONE" => arm' = 0 /\ err_dom' = err_dom
           /\ ou_state' /= "OU_DONE" /\ stage_iii = 1 =>
                 arm' = Not(queue) /\ err_dom' = err_dom
           /\ ou_state' /= "OU_DONE" /\ stage_iii = 0 /\ phase = Psp /\ xcvr_mode = 0 =>
                 /\ arm' = (IF queue = 0 /\ Level = 1 THEN 1 ELSE 0)
                 /\ err_dom' = (IF queue = 0 /\ Level = 0 THEN 1 ELSE err_dom)
           /\ ou_state' /= "OU_DONE" /\ stage_iii = 0 /\ ~(phase = Psp /\ xcvr_mode = 0) =>
                 arm' = arm /\ err_dom' = err_dom
<1>1. /\ in.sleep = 0 /\ in.psp = Level
      /\ in.psp_strb = (IF phase = Psp /\ xcvr_mode = 0 THEN 1 ELSE 0)
  BY DEF Wires, LineTypes, Bit
<1>2. stage_iii \in {0, 1}
  BY DEF OuTypeOK, Bit
<1> QED
  BY <1>1, <1>2 DEF ArmInjection

\* Stage I of a unit that works on an override: the branches of its process.
Broke == fsm_state = "ERRF" /\ ou_state' = "OU_DONE" /\ prep_strobe' = 0 /\ xcvr_prep' = 0
Yielded ==
    /\ fsm_state /= "ERRF" /\ err_dom = 1 /\ fip_strb = 1
    /\ ou_state' = "OU_DONE" /\ prep_strobe' = 0 /\ xcvr_prep' = 0
SentOn ==
    /\ fsm_state /= "ERRF" /\ ~(err_dom = 1 /\ fip_strb = 1)
    /\ phase = 0 /\ xcvr_mode = 1 /\ prep_strobe' = 0
    /\ ou_state' = (IF OverrideSent THEN "OU_DONE" ELSE ou_state)
    /\ xcvr_prep' = (IF OverrideSent THEN 0 ELSE 1)
Looked(in) ==
    /\ fsm_state /= "ERRF" /\ ~(err_dom = 1 /\ fip_strb = 1)
    /\ ~(phase = 0 /\ xcvr_mode = 1) /\ xcvr_req = 0
    /\ sample_ready = 1 \/ late_strobe = 1
    /\ OuSample(in)
Waited ==
    /\ fsm_state /= "ERRF" /\ ~(err_dom = 1 /\ fip_strb = 1)
    /\ ~(phase = 0 /\ xcvr_mode = 1)
    /\ xcvr_req = 0 => sample_ready /= 1 /\ late_strobe /= 1
    /\ ou_state' = ou_state /\ prep_strobe' = 0 /\ xcvr_prep' = 0

LEMMA TakenBranches ==
    ASSUME NEW in, Wires(in), OuStateMachine(in), ou_state \in Overrides, LineTypes, OuTypeOK
    PROVE  /\ Broke \/ Yielded \/ SentOn \/ Looked(in) \/ Waited
           /\ late_strobe' = 0 /\ interrupt_req' = 0
           /\ inj_pending' = (IF arm = 1 THEN 0 ELSE inj_pending)
<1>1. /\ in.sleep = 0 /\ in.fip_strb = fip_strb
      /\ in.xcvr_strb = (IF phase = 0 /\ xcvr_mode = 1 THEN 1 ELSE 0)
      /\ ~NewMatch(in) /\ ou_state /= "OU_AWAIT_FI" /\ xcvr_req \in {0, 1}
  BY DEF Wires, NewMatch, Overrides, LineTypes, OuTypeOK, Bit
<1>2. CASE OuErrorFrame /\ fsm_state = "ERRF"
  BY <1>2 DEF OuErrorFrame, NoStrobe, PendingAfterArm, Broke
<1>3. CASE OuDominant /\ fsm_state /= "ERRF" /\ err_dom = 1 /\ fip_strb = 1
  BY <1>3 DEF OuDominant, NoStrobe, PendingAfterArm, Yielded
<1>4. CASE OuTransceive /\ fsm_state /= "ERRF" /\ ~(err_dom = 1 /\ fip_strb = 1)
           /\ phase = 0 /\ xcvr_mode = 1
  BY <1>4 DEF OuTransceive, PendingAfterArm, SentOn
<1>5. CASE OuSample(in) /\ fsm_state /= "ERRF" /\ ~(err_dom = 1 /\ fip_strb = 1)
           /\ ~(phase = 0 /\ xcvr_mode = 1) /\ (sample_ready = 1 \/ late_strobe = 1)
           /\ xcvr_req = 0
  BY <1>5 DEF OuSample, PendingAfterArm, Looked
<1>6. CASE OuHold /\ fsm_state /= "ERRF" /\ ~(err_dom = 1 /\ fip_strb = 1)
           /\ ~(phase = 0 /\ xcvr_mode = 1)
           /\ ~((sample_ready = 1 \/ late_strobe = 1) /\ xcvr_req = 0)
  BY <1>6 DEF OuHold, NoStrobe, PendingAfterArm, Waited
<1> QED
  BY <1>1, <1>2, <1>3, <1>4, <1>5, <1>6 DEF OuStateMachine

\* The comparisons of states that the unit makes.
LEMMA AfterStates ==
    \A s \in FsmStates :
        /\ After(s, "CTRL") <=> s \notin {"ABIT", "CTRL"}
        /\ After(s, "EOF") <=> s \in {"ERRF", "AWAIT_EOF", "RESET", "SLEEP"}
BY FsmStateNames, StateOrder DEF After

\* What its look at a sampled bit decides.
LEMMA TakenVerdict ==
    ASSUME NEW in, OuSample(in), ou_state \in Overrides, TypeOK,
           fsm_state \notin {"ABIT", "ERRF"}
    PROVE  /\ ou_state' \in {ou_state, "OU_DONE"} /\ xcvr_prep' = 0
           /\ prep_strobe' \in {0, 1}
           /\ prep_strobe' = 1 =>
                 /\ ou_state' = ou_state
                 /\ IF ou_state = "OU_DLC" THEN fsm_state = "CTRL" /\ fsm_cnt > 3
                    ELSE PayloadBit
           /\ ou_state' = ou_state =>
                 IF ou_state = "OU_DLC" THEN fsm_state = "CTRL" ELSE fsm_state = "CTRL" \/ PayloadBit
<1>1. fsm_state \in FsmStates /\ fsm_state \notin {"ABIT", "ERRF"}
  BY DEF TypeOK, ParserTypeOK
<1>2. /\ ou_state = "OU_DLC" => Verdict(in) = DlcVerdict
      /\ ou_state = "OU_DATA_CRC" => Verdict(in) = DataVerdict(in)
  BY DEF Verdict
<1>3. PICK v : v = Verdict(in)
  OBVIOUS
<1>4. ou_state = "OU_DLC" =>
        /\ v \in {"Stop", "Prep", "Keep"}
        /\ v = "Prep" => fsm_state = "CTRL" /\ fsm_cnt > 3
        /\ v /= "Stop" => fsm_state = "CTRL"
  BY <1>1, <1>2, <1>3, AfterStates DEF DlcVerdict
<1>5. ou_state = "OU_DATA_CRC" =>
        /\ v \in {"BadDlc", "Stop", "Prep", "Keep"}
        /\ v = "Prep" => PayloadBit
        /\ v \in {"Prep", "Keep"} => fsm_state = "CTRL" \/ PayloadBit
  BY <1>1, <1>2, <1>3, AfterStates, FsmStateNames DEF DataVerdict, PayloadBit
<1> QED
  BY <1>3, <1>4, <1>5 DEF OuSample, Overrides
-----------------------------------------------------------------------------
(* The parser meanwhile *)

\* What a sample does to the states of a frame.
LEMMA FrameSampled ==
    ASSUME NEW s, Clock(1, s, 0), fsm_state \in {"CTRL", "DATA", "CRC_STF", "CRC", "EOF"},
           fsm_cnt \in Nat
    PROVE  \/ fsm_state' = "ERRF"
           \/ UNCHANGED << fsm_state, fsm_cnt >>
           \/ fsm_state = "CTRL" /\ fsm_state' = "CTRL" /\ fsm_cnt <= 6
              /\ fsm_cnt' \in fsm_cnt + 1 .. 7 /\ (fsm_cnt >= 4 => fsm_cnt' = fsm_cnt + 1)
           \/ fsm_state = "CTRL" /\ fsm_cnt = 7 /\ fsm_state' \in {"DATA", "CRC_STF", "CRC"}
           \/ fsm_state = "DATA" /\ fsm_state' \in {"DATA", "CRC_STF", "CRC"}
           \/ fsm_state = "CRC_STF" /\ fsm_state' \in {"CRC_STF", "CRC"}
           \/ fsm_state = "CRC" /\ fsm_state' = "CRC"
           \/ fsm_state = "CRC" /\ fsm_state' = "EOF" /\ fsm_cnt' = 0
           \/ fsm_state = "EOF" /\ fsm_state' = "EOF" /\ fsm_cnt < 8 /\ fsm_cnt' = fsm_cnt + 1
           \/ fsm_state = "EOF" /\ fsm_state' = "SLEEP" /\ fsm_cnt = 8
<1>1. ParserClock(1, s, 0) /\ ~Asleep(0)
  BY DEF Clock, Asleep
<1>2. CASE ParserStuffError(1, s) \/ SkipStuffBit(s)
  BY <1>2 DEF ParserStuffError, SkipStuffBit, GoTo
<1>3. CASE ParseBit(s)
  <2>1. CASE fsm_state = "CTRL"
    <3>1. CASE FdfBit(s) \/ ReservedBit
      BY <3>1 DEF FdfBit, ReservedBit, GoTo
    <3>2. CASE BrsOrEsiBit \/ DlcBit(s)
      BY <3>2 DEF BrsOrEsiBit, DlcBit, GoTo
    <3>3. CASE LastDlcBit(s)
      BY <3>3 DEF LastDlcBit, EnterCrc, GoTo
    <3> QED
      BY <1>3, <2>1, <3>1, <3>2, <3>3, Branches
  <2>2. CASE fsm_state \in {"DATA", "CRC_STF", "CRC"}
    BY <1>3, <2>2, Branches DEF DataBit, StuffCountBit, CrcBit, EnterCrc, GoTo
  <2>3. CASE fsm_state = "EOF"
    BY <1>3, <2>3, Branches DEF TailBit, LastTailBit, GoTo
  <2> QED
    BY <2>1, <2>2, <2>3
<1> QED
  BY <1>1, <1>2, <1>3 DEF ParserClock, ParserSleep

\* A frame with an identifier is followed, until the parser is done with it.
LEMMA Followed ==
    ASSUME BusTypes, BusInv, awake = 1, id_ready = 1
    PROVE  /\ Following \/ (phase = 1 /\ Done)
           /\ Following => status.eof = 0 /\ fsm_state \notin {"ABIT", "SLEEP", "RESET"}
           /\ phase /= 1 => << sample_ready, destuff_strobe, dlc_ready >> = << 0, 0, 0 >>
<1>1. fsm_state /= "ABIT"
  BY IdentifierHeld
<1>2. ~Entering
  BY DEF Entering, Starting, Clean
<1> QED
  BY <1>1, <1>2 DEF BusInv, Framing, Broken, Leaving, Receiving, Following

\* Between two samples the parser stays where it is.
LEMMA FollowedBetween ==
    ASSUME BusTypes, BusInv, BusEdge, awake' = 1, id_ready = 1, phase /= 0
    PROVE  /\ Following /\ phase' = (IF phase = BitEdges - 1 THEN 0 ELSE phase + 1)
           /\ UNCHANGED << fsm_state, fsm_cnt, id_ready, id_buffer, sample_buf, status >>
           /\ << sample_ready, destuff_strobe, dlc_ready >>' = << 0, 0, 0 >>
           /\ status.eof = 0
<1>1. status.eof = 0 /\ awake = 1
  BY DEF BusTypes, TypeOK, ParserTypeOK, Statuses, Bit, BusEdge
<1>2. Following
  BY <1>1, Followed DEF Done
<1>3. Clock(0, Level, 0) /\ fsm_state /= "SLEEP"
  BY <1>2 DEF BusEdge, Following
<1> QED
  BY <1>1, <1>2, <1>3, ParserBetween DEF BusEdge
-----------------------------------------------------------------------------
(* One edge of an override *)

\* The place in the bit after the edge.
LEMMA NextPhase ==
    ASSUME BusEdge, TypeOK, awake' = 1, phase \in 0 .. BitEdges - 1
    PROVE  /\ phase' = (IF phase = BitEdges - 1 THEN 0 ELSE phase + 1)
           /\ phase' = 1 <=> phase = 0
           /\ phase' \in 0 .. BitEdges - 1 /\ status.eof = 0
<1>1. status.eof = 0
  BY DEF TypeOK, ParserTypeOK, Statuses, Bit, BusEdge
<1> QED
  BY <1>1, Phases DEF BusEdge

\* A unit that has given up between two bits.
LEMMA ListeningEnds ==
    ASSUME NEW in, TakenEdge(in), Listening, ou_state \in Overrides,
           awake' = 1, ou_state' = "OU_DONE", prep_strobe' = 0, xcvr_prep' = 0,
           late_strobe' = 0, phase /= 2
    PROVE  Resting'
<1> USE Phases
<1>1. prep_strobe = 0 /\ prep_strobe /= 1 /\ xcvr_prep /= 1 /\ in.sleep = 0
  BY DEF Listening, OuTypeOK, Bit, TakenEdge, Wires
<1>2. queue' = 1 /\ xcvr_req' = 0 /\ subst' = 0 /\ stage_iii' = 0
  BY <1>1, PrepRests DEF TakenEdge, OuClock, Listening, Overrides
<1>3. arm' = 0
  BY ArmTaken DEF TakenEdge, OuClock, NewMatch, Overrides
<1>4. can_tx' = 1 /\ xcvr_mode' = 0
  BY DEF TakenEdge, TimerEdge, Listening, Not
<1> QED
  BY <1>2, <1>3, <1>4 DEF Resting

\* The edge at which the unit judges the sampled bit, at once or late.
LEMMA ListeningLooks ==
    ASSUME BusTypes, BusInv, id_ready = 1, awake' = 1, NEW in, TakenEdge(in), Listening,
           ou_state \in Overrides, Looked(in), late_strobe' = 0
    PROVE  IF ou_state' = ou_state THEN Listening' ELSE ou_state' = "OU_DONE" /\ Resting'
<1> USE Phases
<1>1. phase = 1 \/ (phase = MatchAge + 2 /\ fsm_state = "CTRL" /\ fsm_cnt = 0)
  BY DEF Looked, TakenEdge, Listening
<1>2. phase /= 0 /\ phase /= 2 /\ phase /= Fip /\ BusEdge
  BY <1>1 DEF TakenEdge
<1>3. /\ UNCHANGED << fsm_state, fsm_cnt >> /\ fsm_state \notin {"ABIT", "SLEEP"}
      /\ phase' = (IF phase = BitEdges - 1 THEN 0 ELSE phase + 1)
  <2>1. awake = 1
    BY <1>2 DEF BusEdge
  <2> QED
    BY <1>2, <2>1, FollowedBetween, Followed
<1>4. /\ ou_state' \in {ou_state, "OU_DONE"} /\ xcvr_prep' = 0
      /\ prep_strobe' \in {0, 1}
      /\ prep_strobe' = 1 =>
            /\ ou_state' = ou_state
            /\ IF ou_state = "OU_DLC" THEN fsm_state = "CTRL" /\ fsm_cnt > 3
               ELSE PayloadBit
      /\ ou_state' = ou_state =>
            IF ou_state = "OU_DLC" THEN fsm_state = "CTRL" ELSE fsm_state = "CTRL" \/ PayloadBit
  BY <1>3, TakenVerdict DEF Looked, BusTypes
<1>5. CASE ou_state' /= ou_state
  <2>1. prep_strobe' = 0 /\ ou_state' = "OU_DONE"
    BY <1>4, <1>5
  <2> QED
    BY <1>2, <1>4, <1>5, <2>1, ListeningEnds
<1>6. CASE ou_state' = ou_state
  <2>1. prep_strobe = 0 /\ prep_strobe /= 1 /\ xcvr_prep /= 1 /\ in.sleep = 0
    BY <1>2 DEF Listening, OuTypeOK, Bit, TakenEdge, Wires
  <2>2. queue' = 1 /\ xcvr_req' = 0 /\ subst' = 0 /\ stage_iii' = 0
    BY <2>1, PrepRests DEF TakenEdge, OuClock, Listening, Overrides
  <2>3. arm' = 0 /\ err_dom' = 0
    BY <1>2, <1>6, ArmTaken DEF TakenEdge, OuClock, NewMatch, Overrides, Listening
  <2>4. inj_pending' = 1
    BY TakenBranches DEF TakenEdge, OuClock, Listening
  <2>5. can_tx' = 1 /\ xcvr_mode' = 0
    BY DEF TakenEdge, TimerEdge, Listening, Not
  <2>6. phase' /= 1 /\ (phase = 1 => phase' = 2)
    BY <1>2, <1>3 DEF TakenEdge
  <2>7. prep_strobe' = 1 => phase = 1
    BY <1>1, <1>4 DEF PayloadBit
  <2>8. OverrideBit'
    BY <1>3, <1>4, <1>6 DEF OverrideBit, PayloadBit
  <2>9. prep_strobe' = 1 => IF ou_state' = "OU_DLC" THEN fsm_cnt' > 3 ELSE PayloadBit'
    BY <1>3, <1>4, <1>6 DEF PayloadBit
  <2> QED
    BY <1>4, <1>6, <2>2, <2>3, <2>4, <2>5, <2>6, <2>7, <2>8, <2>9 DEF Listening
<1> QED
  BY <1>4, <1>5, <1>6

\* An edge without a look and without a bit prepared.
LEMMA ListeningWaits ==
    ASSUME BusTypes, BusInv, id_ready = 1, awake' = 1, NEW in, TakenEdge(in), Listening,
           ou_state \in Overrides, Waited, late_strobe' = 0, prep_strobe /= 1
    PROVE  Listening'
<1> USE Phases
<1>1. phase /= 1 /\ BusEdge /\ OverrideBit /\ awake = 1
  BY DEF Waited, TakenEdge, Listening, BusEdge
<1>2. in.sleep = 0 /\ xcvr_prep /= 1
  BY DEF TakenEdge, Wires, Listening
<1>3. queue' = 1 /\ xcvr_req' = 0 /\ subst' = 0 /\ stage_iii' = 0
  BY <1>2, PrepRests DEF TakenEdge, OuClock, Listening, Overrides
<1>4. arm' = 0 /\ err_dom' = 0
  BY ArmTaken DEF TakenEdge, OuClock, NewMatch, Overrides, Listening, Waited
<1>5. inj_pending' = 1
  BY TakenBranches DEF TakenEdge, OuClock, Listening
<1>6. can_tx' = 1 /\ xcvr_mode' = 0
  BY DEF TakenEdge, TimerEdge, Listening, Not
<1>7. phase' = 1 <=> phase = 0
  BY NextPhase DEF TakenEdge, BusTypes
<1>8. CASE phase /= 0
  <2>1. UNCHANGED << fsm_state, fsm_cnt >>
    BY <1>1, <1>8, FollowedBetween
  <2>2. OverrideBit'
    BY <1>1, <2>1 DEF OverrideBit, PayloadBit, Waited
  <2> QED
    BY <1>3, <1>4, <1>5, <1>6, <1>7, <1>8, <2>2 DEF Listening, Waited
<1>9. CASE phase = 0
  <2>1. fsm_cnt \in Nat /\ Clock(1, Level, 0)
    BY <1>1, <1>9 DEF BusTypes, TypeOK, ParserTypeOK, BusEdge
  <2>2. /\ fsm_state \in {"CTRL", "DATA", "CRC_STF", "CRC", "EOF"}
        /\ ou_state = "OU_DLC" => fsm_state = "CTRL"
        /\ fsm_state = "EOF" => fsm_cnt = 0
    BY <1>1 DEF OverrideBit, PayloadBit, Overrides
  <2>3. /\ fsm_state' \in {"CTRL", "ERRF", "DATA", "CRC_STF", "CRC"}
           \/ (ou_state = "OU_DATA_CRC" /\ fsm_state' = "EOF" /\ fsm_cnt' <= 1)
    BY <2>1, <2>2, FrameSampled DEF Overrides
  <2> QED
    BY <1>3, <1>4, <1>5, <1>6, <1>7, <1>9, <2>3 DEF Listening, Waited
<1> QED
  BY <1>8, <1>9

\* The edge at which a bit is prepared: the stage takes a stuff bit or the next bit
\* of the override, and claims the bus for a dominant one.
LEMMA ListeningPrepares ==
    ASSUME BusTypes, BusInv, id_ready = 1, awake' = 1, NEW in, TakenEdge(in), Listening,
           ou_state \in Overrides, Waited, late_strobe' = 0, prep_strobe = 1
    PROVE  Listening' \/ Claiming'
<1> USE Phases
<1>1. phase = 2 /\ BusEdge /\ OverrideBit /\ awake = 1
  BY DEF Waited, TakenEdge, Listening, BusEdge
<1>2. in.sleep = 0 /\ in.data \in {0, 1}
  BY DEF TakenEdge, Wires, DataBits, Bit
<1>3. phase' = 3 /\ phase' \in 3 .. Fip /\ UNCHANGED << fsm_state, fsm_cnt >>
  BY <1>1, NextPhase, FollowedBetween DEF BusTypes
<1>4. OverrideBit'
  BY <1>1, <1>3 DEF OverrideBit, PayloadBit, Waited
<1>5. arm' = 0 /\ err_dom' = 0
  BY <1>1, ArmTaken DEF TakenEdge, OuClock, NewMatch, Overrides, Listening, Waited
<1>6. inj_pending' = 1
  BY TakenBranches DEF TakenEdge, OuClock, Listening
<1>7. can_tx' = 1 /\ xcvr_mode' = 0
  BY <1>1 DEF TakenEdge, TimerEdge, Listening, Not
<1>8. DlcTop \in {0, 1}
  <2>1. dlc_sr \in 0 .. 15
    BY DEF TakenEdge, OuTypeOK
  <2> QED
    BY <2>1 DEF DlcTop
<1>9. \/ queue' = 1 /\ xcvr_req' = 0 /\ subst' = 0 /\ stage_iii' = 0
      \/ queue' = 0 /\ xcvr_req' = 1 /\ subst' = 1 /\ stage_iii' = 0
  <2>1. PrepStuffBit \/ PrepDlc \/ PrepData(in)
    BY <1>2 DEF TakenEdge, OuClock, PrepOverride, Overrides, PrepBit, PrepStuff
  <2>2. CASE PrepStuffBit
    BY <2>2 DEF PrepStuffBit, Listening
  <2>3. CASE PrepDlc
    BY <1>8, <2>3 DEF PrepDlc, Override, Not
  <2>4. CASE PrepData(in)
    BY <1>2, <2>4 DEF PrepData, Override, Not
  <2> QED
    BY <2>1, <2>2, <2>3, <2>4
<1>10. CASE xcvr_req' = 0
  BY <1>3, <1>4, <1>5, <1>6, <1>7, <1>9, <1>10 DEF Listening, Waited
<1>11. CASE xcvr_req' = 1
  BY <1>3, <1>4, <1>5, <1>6, <1>7, <1>9, <1>11 DEF Claiming, Waited
<1> QED
  BY <1>9, <1>10, <1>11

\* All edges of a unit that listens.
LEMMA ListeningStep ==
    ASSUME BusTypes, BusInv, id_ready = 1, awake' = 1, NEW in, TakenEdge(in), Listening,
           ou_state \in Overrides
    PROVE  \/ ou_state' = ou_state /\ (Listening' \/ Claiming')
           \/ ou_state' = "OU_DONE" /\ Resting'
<1>1. /\ Broke \/ Yielded \/ SentOn \/ Looked(in) \/ Waited
      /\ late_strobe' = 0
  BY TakenBranches DEF TakenEdge, OuClock
<1>2. ~Yielded /\ ~SentOn
  BY DEF Yielded, SentOn, Listening
<1>3. CASE Broke
  <2>1. phase /= 2
    BY <1>3 DEF Broke, Listening, OverrideBit, PayloadBit
  <2> QED
    BY <1>1, <1>3, <2>1, ListeningEnds DEF Broke
<1>4. CASE Looked(in)
  BY <1>1, <1>4, ListeningLooks
<1>5. CASE Waited
  BY <1>1, <1>5, ListeningWaits, ListeningPrepares DEF Waited
<1> QED
  BY <1>1, <1>2, <1>3, <1>4, <1>5

\* All edges of a unit that has claimed a bit, up to its FIP.
LEMMA ClaimingStep ==
    ASSUME BusTypes, BusInv, id_ready = 1, awake' = 1, NEW in, TakenEdge(in), Claiming,
           ou_state \in Overrides, fip_strb = 1 => phase = Fip + 1
    PROVE  ou_state' = ou_state /\ (Claiming' \/ Sending')
<1> USE Phases
<1>1. /\ BusEdge /\ OverrideBit /\ awake = 1 /\ phase \in 3 .. Fip /\ fip_strb /= 1
      /\ phase /= 0 /\ phase /= 1 /\ phase /= 2
  BY DEF TakenEdge, Claiming, BusEdge
<1>2. Waited /\ late_strobe' = 0
  <2>1. /\ Broke \/ Yielded \/ SentOn \/ Looked(in) \/ Waited
        /\ late_strobe' = 0
    BY TakenBranches DEF TakenEdge, OuClock
  <2>2. fsm_state /= "ERRF"
    BY <1>1 DEF OverrideBit, PayloadBit
  <2> QED
    BY <1>1, <2>1, <2>2 DEF Broke, Yielded, SentOn, Looked, Claiming
<1>3. in.sleep = 0 /\ xcvr_prep /= 1 /\ prep_strobe /= 1 /\ arm \in {0, 1}
  BY DEF TakenEdge, Wires, Claiming, OuTypeOK, Bit
<1>4. queue' = 0 /\ xcvr_req' = 1 /\ subst' = 0 /\ stage_iii' = 0
  BY <1>3, PrepRests DEF TakenEdge, OuClock, Claiming, Overrides
<1>5. phase' = phase + 1 /\ UNCHANGED << fsm_state, fsm_cnt, status >> /\ status.eof = 0
  BY <1>1, FollowedBetween
<1>6. /\ OverrideBit' /\ fsm_state' /= "ERRF" /\ fsm_state' /= "AWAIT_EOF"
      /\ status'.eof = 0
  BY <1>1, <1>2, <1>5 DEF OverrideBit, PayloadBit, Waited
<1>7. /\ phase < Psp => arm' = 0 /\ err_dom' = 0
      /\ phase >= Psp => arm' = Not(err_dom') /\ err_dom' \in {0, 1}
      /\ phase > Psp => arm' = arm /\ err_dom' = err_dom
  <2>1. Level \in {0, 1} /\ ~NewMatch(in) /\ ou_state' /= "OU_DONE" /\ stage_iii = 0
        /\ queue = 0 /\ xcvr_mode = 0 /\ err_dom \in {0, 1}
    BY <1>2 DEF TakenEdge, NewMatch, Overrides, Waited, Claiming, OuTypeOK, Bit
  <2>2. /\ phase = Psp => /\ arm' = (IF Level = 1 THEN 1 ELSE 0)
                          /\ err_dom' = (IF Level = 0 THEN 1 ELSE err_dom)
        /\ phase /= Psp => arm' = arm /\ err_dom' = err_dom
    BY <2>1, ArmTaken DEF TakenEdge, OuClock
  <2>3. phase <= Psp => arm = 0 /\ err_dom = 0
    BY <1>1 DEF Claiming
  <2>4. phase > Psp => arm = Not(err_dom)
    BY <1>1 DEF Claiming
  <2> QED
    BY <1>1, <2>1, <2>2, <2>3, <2>4 DEF Not
<1>8. CASE phase < Fip
  <2>1. can_tx' = 1 /\ xcvr_mode' = 0
    BY <1>1, <1>8 DEF TakenEdge, TimerEdge, Claiming, Not
  <2>2. phase' \in 3 .. Fip /\ phase' /= 3
    BY <1>1, <1>5, <1>8
  <2>3. IF phase' > Psp THEN arm' = Not(err_dom') ELSE arm' = 0 /\ err_dom' = 0
    BY <1>1, <1>5, <1>7
  <2> QED
    BY <1>2, <1>4, <1>6, <2>1, <2>2, <2>3 DEF Claiming, Waited
<1>9. CASE phase = Fip
  <2>1. can_tx' = Not(arm') /\ xcvr_mode' = 1 /\ fip_strb' = 1
    BY <1>1, <1>7, <1>9 DEF TakenEdge, TimerEdge, Claiming
  <2>2. phase' = Fip + 1 /\ phase' /= 1 /\ phase' /= 2
    BY <1>5, <1>9
  <2>3. err_dom' = 1 => arm' = 0
    BY <1>7, <1>9 DEF Not
  <2>4. err_dom' = 0 => arm' = Not(queue')
    BY <1>4, <1>7, <1>9 DEF Not
  <2> QED
    BY <1>2, <1>4, <1>6, <2>1, <2>2, <2>3, <2>4 DEF Sending, Waited
<1> QED
  BY <1>1, <1>2, <1>8, <1>9 DEF Waited

\* The override has been sent when the frame's end is read.
EndsInTime == phase = 0 /\ fsm_state = "EOF" /\ fsm_cnt = 8 => OverrideSent

\* The stages of a unit that sends.
LEMMA SendingStages ==
    ASSUME NEW in, TakenEdge(in), Sending, ou_state \in Overrides
    PROVE  /\ xcvr_req' = 1 /\ subst' = 0 /\ queue' \in {0, 1}
           /\ stage_iii' = (IF phase = 1 THEN 1 ELSE 0)
           /\ phase /= 1 => queue' = queue
           /\ xcvr_mode' = 1
           /\ can_tx' = (IF phase \in {0, Boundary} THEN can_tx ELSE Not(arm))
<1> USE Phases
<1>1. in.sleep = 0 /\ prep_strobe = 0 /\ prep_strobe /= 1 /\ in.data \in {0, 1}
  BY DEF TakenEdge, Wires, Sending, DataBits, Bit
<1>2. CASE phase = 1
  <2>1. \/ XcvrStuffBit \/ XcvrDlc \/ XcvrData(in) \/ XcvrOther
    BY <1>1, <1>2 DEF TakenEdge, OuClock, PrepOverride, Overrides, Sending
  <2>2. stage_iii' = 1 /\ subst' = 0 /\ xcvr_req' = 1
    BY <1>1, <1>2 DEF TakenEdge, OuClock, PrepOverride, Overrides, Sending
  <2>3. queue' \in {0, 1}
    <3>1. dlc_sr \in 0 .. 15
      BY DEF TakenEdge, OuTypeOK
    <3>2. DlcTop \in {0, 1}
      BY <3>1 DEF DlcTop
    <3>3. ~XcvrOther
      BY DEF XcvrOther, Overrides
    <3> QED
      BY <1>1, <2>1, <3>2, <3>3 DEF XcvrStuffBit, XcvrDlc, XcvrData, Not, TakenEdge, OuTypeOK, Bit
  <2>4. phase \notin {0, Boundary}
    BY <1>2
  <2> QED
    BY <1>2, <2>2, <2>3, <2>4 DEF TakenEdge, TimerEdge, Sending
<1>3. CASE phase /= 1
  <2>1. xcvr_prep /= 1 /\ queue \in {0, 1}
    BY <1>3 DEF Sending, TakenEdge, OuTypeOK, Bit
  <2>2. queue' = queue /\ xcvr_req' = 1 /\ subst' = 0 /\ stage_iii' = 0
    BY <1>1, <2>1, PrepRests DEF TakenEdge, OuClock, Sending, Overrides
  <2>3. phase = Fip => phase \notin {0, Boundary}
    OBVIOUS
  <2> QED
    BY <1>3, <2>1, <2>2, <2>3 DEF TakenEdge, TimerEdge, Sending
<1> QED
  BY <1>2, <1>3

\* All edges of a unit that sends.
LEMMA SendingStep ==
    ASSUME BusTypes, BusInv, id_ready = 1, awake' = 1, NEW in, TakenEdge(in), Sending,
           ou_state \in Overrides, fip_strb = 1 => phase = Fip + 1, EndsInTime
    PROVE  \/ ou_state' = ou_state /\ Sending' /\ (phase = 0 => ~OverrideSent)
           \/ ou_state' = "OU_DONE" /\ Resting'
<1> USE Phases
<1>1. /\ BusEdge /\ awake = 1 /\ phase \in 0 .. BitEdges - 1 /\ in.sleep = 0
      /\ Broke \/ Yielded \/ SentOn \/ Looked(in) \/ Waited
      /\ late_strobe' = 0
  BY TakenBranches DEF TakenEdge, OuClock, BusEdge, Wires
<1>2. ~Looked(in)
  BY DEF Looked, Sending
<1>3. /\ phase' = (IF phase = BitEdges - 1 THEN 0 ELSE phase + 1)
      /\ phase' = 1 <=> phase = 0
      /\ phase' \in 0 .. BitEdges - 1 /\ status.eof = 0
  BY <1>1, NextPhase DEF BusTypes
<1>4. phase' = 2 <=> phase = 1
  BY <1>1, <1>3
<1>5. ASSUME ou_state' = "OU_DONE", prep_strobe' = 0, xcvr_prep' = 0,
             phase \in {0, 1} \/ (phase = Fip + 1 /\ err_dom = 1)
      PROVE  Resting'
  <2>1. arm' = 0
    BY <1>5, ArmTaken DEF TakenEdge, OuClock, NewMatch, Overrides
  <2>2. /\ xcvr_req' = 1 /\ subst' = 0 /\ xcvr_mode' = 1
        /\ stage_iii' = 1 => phase' = 2
    BY <1>4, SendingStages
  <2>3. phase' \in {1, 2} \/ (phase = Fip + 1 /\ phase' \in {0, Fip + 2})
    BY <1>3, <1>5
  <2>4. can_tx' = 0 => phase' \in 1 .. Boundary + 1
    <3>1. CASE phase \in {0, 1}
      BY <1>3, <3>1
    <3>2. CASE phase = Fip + 1 /\ err_dom = 1
      <4>1. arm = 0 /\ phase \notin {0, Boundary}
        BY <3>2 DEF Sending
      <4> QED
        BY <4>1, SendingStages DEF Not
    <3> QED
      BY <1>5, <3>1, <3>2
  <2> QED
    BY <1>1, <1>5, <2>1, <2>2, <2>3, <2>4 DEF Resting
<1>6. CASE Broke
  <2>1. phase = 1
    BY <1>6 DEF Broke, Sending
  <2> QED
    BY <1>5, <1>6, <2>1 DEF Broke
<1>7. CASE Yielded
  <2>1. phase = Fip + 1 /\ err_dom = 1
    BY <1>7 DEF Yielded
  <2> QED
    BY <1>5, <1>7, <2>1 DEF Yielded
<1>8. CASE SentOn
  <2>1. phase = 0 /\ prep_strobe' = 0 /\ fsm_state /= "ERRF"
    BY <1>8 DEF SentOn
  <2>2. CASE OverrideSent
    BY <1>5, <1>8, <2>1, <2>2 DEF SentOn
  <2>3. CASE ~OverrideSent
    <3>1. ou_state' = ou_state /\ xcvr_prep' = 1 /\ phase' = 1
      BY <1>3, <1>8, <2>3 DEF SentOn
    <3>2. /\ xcvr_req' = 1 /\ subst' = 0 /\ xcvr_mode' = 1 /\ queue' = queue
          /\ stage_iii' = 0
      BY <2>1, SendingStages
    <3>3. err_dom \in {0, 1} /\ stage_iii = 0 /\ err_dom /= 1 /\ arm = Not(queue)
      BY <2>1 DEF Sending, TakenEdge, OuTypeOK, Bit
    <3>4. arm' = arm /\ err_dom' = 0
      BY <2>1, <3>1, <3>3, ArmTaken DEF TakenEdge, OuClock, NewMatch, Overrides
    <3>5. fsm_state' /= "AWAIT_EOF" /\ status'.eof = 0
      <4>1. fsm_state \notin {"AWAIT_EOF", "ERRF", "SLEEP"} /\ Clock(1, Level, 0)
        BY <1>1, <2>1, Followed DEF Sending, BusEdge, Done, Following
      <4>2. ~(fsm_state = "EOF" /\ fsm_cnt = 8)
        BY <2>1, <2>3 DEF EndsInTime
      <4>3. status'.eof \in {0, 1}
        <5>1. TypeOK'
          BY <4>1, ClockTypes, LevelTypes DEF BusTypes, Bit
        <5> QED
          BY <5>1 DEF TypeOK, ParserTypeOK, Statuses, Bit
      <4> QED
        BY <4>1, <4>2, <4>3, TailSampled
    <3> QED
      BY <1>1, <2>1, <2>3, <3>1, <3>2, <3>3, <3>4, <3>5 DEF Sending
  <2> QED
    BY <2>2, <2>3
<1>9. CASE Waited
  <2>1. /\ phase /= 0 /\ ou_state' = ou_state /\ prep_strobe' = 0 /\ xcvr_prep' = 0
        /\ fsm_state /= "ERRF" /\ ~(err_dom = 1 /\ fip_strb = 1)
    BY <1>9 DEF Waited, Sending
  <2>2. UNCHANGED << fsm_state, fsm_cnt, status >>
    BY <1>1, <2>1, FollowedBetween
  <2>3. err_dom = 0
    BY <2>1 DEF Sending, TakenEdge, OuTypeOK, Bit
  <2>4. ~NewMatch(in) /\ ou_state' /= "OU_DONE"
    BY <2>1 DEF NewMatch, Overrides
  <2>5. /\ stage_iii = (IF phase = 2 THEN 1 ELSE 0)
        /\ err_dom' = 0 /\ arm' = (IF phase = 2 THEN Not(queue) ELSE arm)
    <3>1. stage_iii = (IF phase = 2 THEN 1 ELSE 0) /\ xcvr_mode = 1
      BY DEF Sending
    <3> QED
      BY <2>3, <2>4, <3>1, ArmTaken DEF TakenEdge, OuClock
  <2>6. /\ xcvr_req' = 1 /\ subst' = 0 /\ xcvr_mode' = 1
        /\ stage_iii' = (IF phase = 1 THEN 1 ELSE 0) /\ (phase /= 1 => queue' = queue)
        /\ can_tx' = (IF phase \in {0, Boundary} THEN can_tx ELSE Not(arm))
    BY SendingStages
  <2>7. phase' /= 2 => arm' = Not(queue')
    <3>1. phase /= 2 => arm = Not(queue)
      BY <2>3 DEF Sending
    <3> QED
      BY <1>4, <2>5, <2>6, <3>1
  <2>8. phase' > Psp \/ phase' = 0 => can_tx' = Not(arm')
    <3>1. ASSUME phase' > Psp \/ phase' = 0 PROVE phase >= Psp /\ phase /= 2
      BY <1>1, <1>3, <3>1
    <3> QED
      BY <1>1, <2>5, <2>6, <3>1
  <2> QED
    BY <1>1, <1>3, <1>4, <2>1, <2>2, <2>5, <2>6, <2>7, <2>8 DEF Sending
<1> QED
  BY <1>1, <1>2, <1>6, <1>7, <1>8, <1>9
-----------------------------------------------------------------------------
(* The shadows of parser and destuffer *)

\* Fields of a record after an update, and fields that stay.
LEMMA StufferFields ==
    ASSUME NEW r \in SbTypes, NEW q, NEW n, NEW c, NEW st
    PROVE  /\ LET s == [r EXCEPT !.insert = 0, !.last = q, !.run = n]
              IN  s.state = r.state /\ s.insert = 0 /\ s.crc_cnt = r.crc_cnt
                  /\ s.last = q /\ s.run = n /\ DOMAIN s = DOMAIN r
           /\ LET s == [r EXCEPT !.insert = 0, !.last = q, !.run = n, !.state = st]
              IN  s.state = st /\ s.insert = 0 /\ s.crc_cnt = r.crc_cnt
                  /\ s.last = q /\ s.run = n
           /\ LET s == [r EXCEPT !.state = st]
              IN  s.state = st /\ s.insert = r.insert /\ s.crc_cnt = r.crc_cnt
                  /\ s.last = r.last /\ s.run = r.run
           /\ LET s == [r EXCEPT !.state = st, !.insert = 1]
              IN  s.state = st /\ s.insert = 1 /\ s.crc_cnt = r.crc_cnt
                  /\ s.last = r.last /\ s.run = r.run
           /\ LET s == [r EXCEPT !.state = st, !.crc_cnt = c]
              IN  s.state = st /\ s.insert = r.insert /\ s.crc_cnt = c
                  /\ s.last = r.last /\ s.run = r.run
           /\ LET s == [r EXCEPT !.state = st, !.crc_cnt = c, !.insert = 1]
              IN  s.state = st /\ s.insert = 1 /\ s.crc_cnt = c
                  /\ s.last = r.last /\ s.run = r.run
           /\ LET s == [r EXCEPT !.crc_cnt = c]
              IN  s.state = r.state /\ s.insert = r.insert /\ s.crc_cnt = c
                  /\ s.last = r.last /\ s.run = r.run
BY DEF SbTypes

\* What a destuffer, the parser's or its shadow, makes of a bit: from its state, its
\* group, last bit and run, in a frame with fixed stuff bits or not, switched off or
\* not.
StuffsTo(st, cnt, lst, rn, b, crc, off, s) ==
    /\ s.last = b /\ s.run = (IF b /= lst THEN 1 ELSE IF rn < 5 THEN rn + 1 ELSE 5)
    /\ st = "MONITOR" /\ crc = 1 =>
          s.state = "CRC_INSERT" /\ s.insert = 1 /\ s.crc_cnt = cnt
    /\ st = "MONITOR" /\ crc = 0 /\ b = lst /\ rn >= 4 =>
          s.state = "INSERT" /\ s.insert = 1 /\ s.crc_cnt = cnt
    /\ (st = "MONITOR" /\ crc = 0 /\ ~(b = lst /\ rn >= 4)) \/ st = "INSERT" =>
          /\ s.state = (IF off = 1 THEN "DISABLE" ELSE "MONITOR")
          /\ s.insert = 0 /\ s.crc_cnt = cnt
    /\ st = "CRC" /\ off = 1 => s.state = "DISABLE" /\ s.insert = 0
    /\ st = "CRC" /\ off = 0 /\ cnt = 3 =>
          s.state = "CRC_INSERT" /\ s.insert = 1 /\ s.crc_cnt = 0
    /\ st = "CRC" /\ off = 0 /\ cnt /= 3 =>
          s.state = "CRC" /\ s.insert = 0 /\ s.crc_cnt = cnt + 1
    /\ st = "CRC_INSERT" => s.state = "CRC" /\ s.insert = 0 /\ s.crc_cnt = 0
    /\ st \notin {"MONITOR", "INSERT", "CRC", "CRC_INSERT"} =>
          s.state = "DISABLE" /\ s.insert = 0

\* The shadow of the destuffer moves with every bit that the unit sends.
LEMMA ShadowStuffs ==
    ASSUME OuTypeOK, prep_strobe /= 1
    PROVE  StuffsTo(sb.state, sb.crc_cnt, sb.last, sb.run, queue, sf.crc_mode, sf.disable,
                    SbNext)
<1>1. /\ sb \in SbTypes /\ sf.crc_mode \in {0, 1} /\ sf.disable \in {0, 1}
      /\ CopiedSb = sb
  BY DEF OuTypeOK, SbTypes, Bit, CopiedSb
<1>2. PICK n : n = (IF queue /= sb.last THEN 1 ELSE IF sb.run < 5 THEN sb.run + 1 ELSE 5)
  OBVIOUS
<1> DEFINE r == SbShifted
<1>3. /\ r.state = sb.state /\ r.insert = 0 /\ r.crc_cnt = sb.crc_cnt
      /\ r.last = queue /\ r.run = n /\ r \in SbTypes
  <2>1. r = [sb EXCEPT !.insert = 0, !.last = queue, !.run = n]
    BY <1>1, <1>2 DEF SbShifted
  <2>2. n \in 1 .. 5 /\ queue \in Bit /\ 0 \in Bit
    BY <1>1, <1>2 DEF SbTypes, OuTypeOK, Bit
  <2> HIDE DEF r
  <2> QED
    BY <1>1, <2>1, <2>2 DEF SbTypes
<1>4. SbNext =
      CASE sb.state = "MONITOR" /\ sf.crc_mode = 1 ->
            [r EXCEPT !.state = "CRC_INSERT", !.insert = 1]
      [] sb.state = "MONITOR" /\ sf.crc_mode = 0 /\ SbFiveEqual ->
            [r EXCEPT !.state = "INSERT", !.insert = 1]
      [] \/ sb.state = "MONITOR" /\ sf.crc_mode = 0 /\ ~SbFiveEqual
         \/ sb.state = "INSERT" ->
            [r EXCEPT !.state = IF sf.disable = 1 THEN "DISABLE" ELSE "MONITOR"]
      [] sb.state = "CRC" /\ sf.disable = 1 ->
            [r EXCEPT !.state = "DISABLE", !.crc_cnt = sb.crc_cnt + 1]
      [] sb.state = "CRC" /\ sf.disable = 0 /\ sb.crc_cnt = 3 ->
            [r EXCEPT !.state = "CRC_INSERT", !.crc_cnt = 0, !.insert = 1]
      [] sb.state = "CRC" /\ sf.disable = 0 /\ sb.crc_cnt /= 3 ->
            [r EXCEPT !.crc_cnt = sb.crc_cnt + 1]
      [] sb.state = "CRC_INSERT" -> [r EXCEPT !.state = "CRC", !.crc_cnt = 0]
      [] OTHER -> [r EXCEPT !.state = "DISABLE"]
  BY DEF SbNext
<1> HIDE DEF r
<1>5. CASE sb.state = "MONITOR" /\ sf.crc_mode = 1
  <2>1. SbNext = [r EXCEPT !.state = "CRC_INSERT", !.insert = 1]
    BY <1>1, <1>4, <1>5
  <2>2. /\ SbNext.state = "CRC_INSERT" /\ SbNext.insert = 1 /\ SbNext.crc_cnt = r.crc_cnt
        /\ SbNext.last = r.last /\ SbNext.run = r.run
    BY <1>3, <2>1, StufferFields
  <2> QED
    BY <1>1, <1>2, <1>3, <1>5, <2>2 DEF StuffsTo
<1>6. CASE sb.state = "MONITOR" /\ sf.crc_mode = 0 /\ SbFiveEqual
  BY <1>2, <1>3, <1>4, <1>6, StufferFields DEF StuffsTo, SbFiveEqual
<1>7. CASE \/ sb.state = "MONITOR" /\ sf.crc_mode = 0 /\ ~SbFiveEqual
           \/ sb.state = "INSERT"
  BY <1>2, <1>3, <1>4, <1>7, StufferFields DEF StuffsTo, SbFiveEqual
<1>8. CASE sb.state = "CRC" /\ sf.disable = 1
  <2>1. SbNext = [r EXCEPT !.state = "DISABLE", !.crc_cnt = sb.crc_cnt + 1]
    BY <1>1, <1>4, <1>8
  <2>2. /\ SbNext.state = "DISABLE" /\ SbNext.insert = r.insert /\ SbNext.crc_cnt = sb.crc_cnt + 1
        /\ SbNext.last = r.last /\ SbNext.run = r.run
    BY <1>3, <2>1, StufferFields
  <2> QED
    BY <1>1, <1>2, <1>3, <1>8, <2>2 DEF StuffsTo
<1>9. CASE sb.state = "CRC" /\ sf.disable = 0 /\ sb.crc_cnt = 3
  <2>1. SbNext = [r EXCEPT !.state = "CRC_INSERT", !.crc_cnt = 0, !.insert = 1]
    BY <1>1, <1>4, <1>9
  <2>2. /\ SbNext.state = "CRC_INSERT" /\ SbNext.insert = 1 /\ SbNext.crc_cnt = 0
        /\ SbNext.last = r.last /\ SbNext.run = r.run
    BY <1>3, <2>1, StufferFields
  <2> QED
    BY <1>1, <1>2, <1>3, <1>9, <2>2 DEF StuffsTo
<1>10. CASE sb.state = "CRC" /\ sf.disable = 0 /\ sb.crc_cnt /= 3
  <2>1. SbNext = [r EXCEPT !.crc_cnt = sb.crc_cnt + 1]
    BY <1>1, <1>4, <1>10
  <2>2. /\ SbNext.state = r.state /\ SbNext.insert = r.insert /\ SbNext.crc_cnt = sb.crc_cnt + 1
        /\ SbNext.last = r.last /\ SbNext.run = r.run
    BY <1>3, <2>1, StufferFields
  <2> QED
    BY <1>1, <1>2, <1>3, <1>10, <2>2 DEF StuffsTo
<1>11. CASE sb.state = "CRC_INSERT"
  <2>1. SbNext = [r EXCEPT !.state = "CRC", !.crc_cnt = 0]
    BY <1>1, <1>4, <1>11
  <2>2. /\ SbNext.state = "CRC" /\ SbNext.insert = r.insert /\ SbNext.crc_cnt = 0
        /\ SbNext.last = r.last /\ SbNext.run = r.run
    BY <1>3, <2>1, StufferFields
  <2> QED
    BY <1>1, <1>2, <1>3, <1>11, <2>2 DEF StuffsTo
<1>12. CASE sb.state \notin {"MONITOR", "INSERT", "CRC", "CRC_INSERT"}
  BY <1>2, <1>3, <1>4, <1>12, StufferFields DEF StuffsTo
<1> QED
  BY <1>1, <1>5, <1>6, <1>7, <1>8, <1>9, <1>10, <1>11, <1>12

\* A unit that is done.
LEMMA RestingStep ==
    ASSUME BusTypes, awake' = 1, NEW in, TakenEdge(in), Resting, ou_state = "OU_DONE"
    PROVE  ou_state' = "OU_DONE" /\ Resting'
<1> USE Phases
<1>1. /\ in.sleep = 0 /\ ~NewMatch(in) /\ prep_strobe /= 1 /\ xcvr_prep /= 1
      /\ phase \in 0 .. BitEdges - 1 /\ xcvr_mode \in {0, 1} /\ can_tx \in {0, 1}
      /\ BusEdge
  BY DEF TakenEdge, Wires, NewMatch, Resting, LineTypes, Bit
<1>2. /\ ou_state' = "OU_DONE" /\ late_strobe' = 0
      /\ prep_strobe' = 0 /\ xcvr_prep' = 0
  BY <1>1, OuMoves DEF TakenEdge, OuClock
<1>3. queue' = 1 /\ xcvr_req' = xcvr_req /\ subst' = 0 /\ stage_iii' = 0
  BY <1>1, PrepRests DEF TakenEdge, OuClock
<1>4. arm' = 0
  BY <1>1, <1>2, ArmTaken DEF TakenEdge, OuClock
<1>5. xcvr_mode' = xcvr_mode /\ xcvr_mode' = xcvr_req'
  BY <1>1, <1>3 DEF TakenEdge, TimerEdge, Resting
<1>6. /\ phase' = (IF phase = BitEdges - 1 THEN 0 ELSE phase + 1)
      /\ phase' \in 0 .. BitEdges - 1
  BY <1>1, NextPhase DEF BusTypes
<1>7. can_tx' = 0 => xcvr_mode' = 1 /\ phase' \in 1 .. Boundary + 1
  <2>1. can_tx' = 0 => can_tx = 0 /\ phase /= Fip /\ (xcvr_mode = 1 => phase \in {0, Boundary})
    BY <1>1 DEF TakenEdge, TimerEdge, Resting, Not
  <2>2. can_tx = 0 => xcvr_mode = 1 /\ phase \in 1 .. Boundary + 1
    BY DEF Resting
  <2> QED
    BY <1>1, <1>5, <1>6, <2>1, <2>2
<1> QED
  BY <1>2, <1>3, <1>4, <1>5, <1>7 DEF Resting

\* The edge at which the unit picks up the frame.
LEMMA PickedUp ==
    ASSUME BusTypes, BusInv, ChainInv, FreshInv, ~Plain, awake = 1, awake' = 1,
           ou_state = "OU_AWAIT_FI", NEW in, TakenEdge(in)
    PROVE  ou_state' = ActiveState(Fi.type) /\ ou_state' \in Overrides /\ Listening'
<1> USE Phases
<1>1. /\ data_vector_ready = 1 /\ Asked /\ id_ready = 1
      /\ Fi.type \in {"FI_DLC", "FI_DATA"}
      /\ phase = MatchAge + 1 /\ fsm_state = "CTRL" /\ queue = 1
      /\ prep_strobe = 0 /\ late_strobe = 0 /\ fi_parsed = 1
  BY TakenFrame
<1>2. /\ Quiet /\ xcvr_mode = 0 /\ arm = 0 /\ can_tx = 1 /\ fsm_cnt = 0
  BY <1>1 DEF FreshInv
<1>3. in.sleep = 0 /\ NewMatch(in) /\ BusEdge /\ Fed(in)
  BY <1>1, FedUnits DEF TakenEdge, Wires, NewMatch
<1>4. in.fi = Fi
  BY <1>3, MatchInBit
<1>5. /\ ou_state' = ActiveState(Fi.type) /\ late_strobe' = 1 /\ prep_strobe' = 0
      /\ xcvr_prep' = 0 /\ inj_pending' = 1
  BY <1>3, <1>4, OuMoves DEF TakenEdge, OuClock
<1>6. ou_state' \in Overrides
  BY <1>1, <1>5 DEF ActiveState, Overrides
<1>7. queue' = 1 /\ xcvr_req' = 0 /\ subst' = 0 /\ stage_iii' = 0
  BY <1>1, <1>2, <1>3, PrepRests DEF TakenEdge, OuClock, Quiet
<1>8. MatchAge \in {TreeDepth + 3, TreeDepth + 5} /\ phase /= Psp /\ phase /= Fip
  BY <1>1 DEF TakenEdge
<1>9. arm' = 0 /\ err_dom' = 0
  <2>1. in.psp_strb = 0 /\ stage_iii = 0 /\ ou_state' /= "OU_DONE"
    BY <1>2, <1>6, <1>8 DEF TakenEdge, Wires, Quiet, Overrides
  <2> QED
    BY <1>2, <1>3, <2>1 DEF TakenEdge, OuClock, ArmInjection
<1>10. can_tx' = 1 /\ xcvr_mode' = 0
  BY <1>2, <1>8 DEF TakenEdge, TimerEdge, Not
<1>11. UNCHANGED << fsm_state, fsm_cnt >> /\ phase' /= 1
  BY <1>1, <1>3, <1>8, FollowedBetween
<1> QED
  BY <1>1, <1>2, <1>5, <1>6, <1>7, <1>9, <1>10, <1>11 DEF Listening, OverrideBit

\* Every edge of a frame that the unit overrides, while the core stays awake.
LEMMA TakenMoves ==
    ASSUME BusTypes, BusInv, ChainInv, OuTypeOK, LineTypes, FreshInv, SenderInv, ~Plain,
           awake = 1, awake' = 1, CoreNext, EndsInTime \/ ou_state \notin Overrides
    PROVE  /\ interrupt_req' = 0 /\ (fip_strb' = 1 => phase' = Fip + 1)
           /\ \/ ou_state' \in Overrides /\ (Listening' \/ Claiming' \/ Sending')
              \/ ou_state' = "OU_DONE" /\ Resting'
<1> USE Phases
<1>1. PICK in : TakenEdge(in)
  BY TakenEdges
<1>2. id_ready = 1 /\ BusEdge
  BY <1>1, TakenFrame DEF TakenEdge
<1>3. fip_strb' = 1 => phase' = Fip + 1
  <2>1. /\ phase' = (IF phase = BitEdges - 1 THEN 0 ELSE phase + 1)
        /\ phase \in 0 .. BitEdges - 1
    BY <1>1, <1>2, NextPhase DEF BusTypes
  <2> QED
    BY <1>1, <2>1 DEF TakenEdge, TimerEdge
<1>4. interrupt_req' = 0
  BY <1>1, OuMoves DEF TakenEdge, OuClock, Wires
<1>5. CASE ou_state = "OU_AWAIT_FI"
  BY <1>1, <1>3, <1>4, <1>5, PickedUp
<1>6. CASE ou_state = "OU_DONE" /\ Resting
  BY <1>1, <1>3, <1>4, <1>6, RestingStep
<1>7. CASE ou_state \in Overrides /\ Listening
  BY <1>1, <1>2, <1>3, <1>4, <1>7, ListeningStep
<1>8. CASE ou_state \in Overrides /\ Claiming
  BY <1>1, <1>2, <1>3, <1>4, <1>8, ClaimingStep DEF SenderInv, Taken, Overrides
<1>9. CASE ou_state \in Overrides /\ Sending
  BY <1>1, <1>2, <1>3, <1>4, <1>9, SendingStep DEF SenderInv, Taken, Overrides
<1> QED
  BY <1>5, <1>6, <1>7, <1>8, <1>9 DEF SenderInv, Taken
-----------------------------------------------------------------------------
(* The frame up to the match *)

\* The bits of the control field are numbered up to 7.
CtrlInv == awake = 1 /\ fsm_state = "CTRL" => fsm_cnt \in 0 .. 7

\* A sample may end the arbitration, or count on in the control field.
LEMMA ControlSampled ==
    ASSUME NEW s, Clock(1, s, 0), TypeOK
    PROVE  /\ fsm_state' = "CTRL" =>
                 (fsm_state = "CTRL" /\ fsm_cnt' = fsm_cnt) \/ fsm_cnt' \in 0 .. 7
           /\ id_ready = 0 /\ id_ready' = 1 => fsm_cnt' = 0
<1>1. ParserClock(1, s, 0) /\ fsm_cnt \in Nat /\ fsm_state \in FsmStates
  BY DEF Clock, TypeOK, ParserTypeOK
<1>2. CASE ParserStuffError(1, s) \/ SkipStuffBit(s) \/ ParserSleep(0)
  BY <1>2 DEF ParserStuffError, SkipStuffBit, GoTo, ParserSleep
<1>3. CASE ParseBit(s)
  <2>1. CASE ArbitrationBit(s) \/ ArbitrationEnd(s)
    BY <2>1 DEF ArbitrationBit, ArbitrationEnd, GoTo
  <2>2. CASE FdfBit(s) \/ ReservedBit \/ BrsOrEsiBit \/ DlcBit(s)
    BY <1>1, <2>2 DEF FdfBit, ReservedBit, BrsOrEsiBit, DlcBit, GoTo
  <2>3. CASE LastDlcBit(s)
    BY <1>1, <2>3 DEF LastDlcBit, EnterCrc, GoTo
  <2>4. CASE DataBit \/ StuffCountBit \/ CrcBit
    BY <2>4 DEF DataBit, StuffCountBit, CrcBit, EnterCrc, GoTo
  <2>5. CASE TailBit(s) \/ LastTailBit(s) \/ ErrorFlagBit(s) \/ AwaitEofBit(s)
    BY <2>5 DEF TailBit, LastTailBit, ErrorFlagBit, AwaitEofBit, GoTo
  <2> QED
    BY <1>3, <2>1, <2>2, <2>3, <2>4, <2>5 DEF ParseBit
<1> QED
  BY <1>1, <1>2, <1>3 DEF ParserClock

\* Every edge of a frame counts so.
LEMMA ControlStep ==
    ASSUME BusTypes, CtrlInv, awake = 1, awake' = 1, CoreNext
    PROVE  CtrlInv'
<1>1. BusEdge /\ TypeOK
  BY FrameEdges DEF BusTypes
<1>2. CASE phase = 0
  BY <1>1, <1>2, ControlSampled DEF BusEdge, CtrlInv
<1>3. CASE phase /= 0
  <2>1. Clock(0, Level, 0)
    BY <1>1, <1>3 DEF BusEdge
  <2>2. CASE fsm_state = "SLEEP"
    BY <2>1, <2>2
    DEF Clock, ParserClock, ParserSleep, Asleep, GoTo, ParserHold, ParserStuffError,
        StuffError, CtrlInv
  <2>3. CASE fsm_state /= "SLEEP"
    BY <2>1, <2>3, ParserBetween DEF CtrlInv
  <2> QED
    BY <2>2, <2>3
<1> QED
  BY <1>2, <1>3

\* A unit that has picked up no frame.
LEMMA Unmatched ==
    ASSUME ChainInv, awake = 1, ou_state = "OU_AWAIT_FI"
    PROVE  queue = 1 /\ prep_strobe = 0 /\ late_strobe = 0
<1>1. PICK a \in 0 .. Evaluated : AgeOk(a) /\ ChainAt(a)
  BY DEF ChainInv
<1>2. /\ ou_state \notin {ActiveState(Fi.type), "OU_DONE"}
      /\ MatchAge \in {TreeDepth + 3, TreeDepth + 5} /\ a \in Int /\ TreeDepth \in Int
  BY Phases DEF ActiveState, MatchAge
<1> QED
  BY <1>1, <1>2 DEF ChainAt, OverrideAt

\* It stays as it is, unless it picks one up.
LEMMA FreshStep ==
    ASSUME BusTypes, BusInv, ChainInv, FreshInv, LineTypes, awake = 1, awake' = 1, CoreNext
    PROVE  FreshInv'
<1> USE Phases
<1> SUFFICES ASSUME ou_state' = "OU_AWAIT_FI" PROVE FreshInv'
  BY DEF FreshInv
<1>1. PICK in : Wires(in) /\ OuClock(in)
  BY FrameEdges
<1>2. BusEdge /\ TimerEdge /\ in.sleep = 0
  BY <1>1, FrameEdges DEF Wires
<1>3. ou_state = "OU_AWAIT_FI" /\ ~NewMatch(in) /\ interrupt_req' = 0
      /\ << prep_strobe, xcvr_prep >>' = << 0, 0 >>
  <2>1. ActiveState(in.fi.type) /= "OU_AWAIT_FI"
    BY DEF ActiveState
  <2>2. ~NewMatch(in)
    BY <1>1, <1>2, <2>1, OuMoves DEF OuClock
  <2> QED
    BY <1>1, <1>2, <2>2, OuMoves DEF OuClock
<1>4. /\ Quiet /\ << xcvr_mode, arm, interrupt_req, hits >> = << 0, 0, 0, 0 >>
      /\ can_tx = 1 /\ queue = 1 /\ prep_strobe = 0 /\ late_strobe = 0
      /\ id_ready = 1 /\ Asked => fsm_cnt = 0
  BY <1>3, Unmatched DEF FreshInv
<1>5. queue' = 1 /\ xcvr_req' = 0 /\ subst' = 0 /\ stage_iii' = 0
  BY <1>1, <1>2, <1>3, <1>4, PrepRests DEF OuClock, Quiet
<1>6. arm' = 0
  BY <1>1, <1>2, <1>3, <1>4 DEF OuClock, ArmInjection, Quiet
<1>7. can_tx' = 1 /\ xcvr_mode' = 0
  BY <1>2, <1>4 DEF TimerEdge, Not, Quiet
<1>8. hits' = 0
  <2>1. phase /= 0 => hits' = 0
    BY <1>2, <1>4 DEF BusEdge
  <2>2. phase = 0 => Sample /\ Level = sent
    BY <1>2, <1>4 DEF BusEdge, Level, LineTypes, Bit
  <2>3. phase = 0 => hits' = 0
    BY <1>4, <2>2 DEF Sample, Overridden
  <2> QED
    BY <2>1, <2>3
<1>9. id_ready' = 1 /\ Asked' => fsm_cnt' = 0
  <2>1. PICK a \in 0 .. Evaluated : AgeOk(a)
    BY DEF ChainInv
  <2>2. PICK b \in 0 .. Evaluated : Older(a, b)
    BY <1>4, <2>1, AgeStep
  <2>3. id_ready \in {0, 1}
    BY DEF BusTypes, TypeOK, ParserTypeOK, Bit
  <2>4. CASE id_ready = 1
    <3>1. Asked' <=> Asked
      BY <2>2, <2>4 DEF Older, Asked, Hitting
    <3>2. Asked => phase /= 0
      BY <1>3, <2>4, AwaitsAtSample
    <3>3. phase /= 0 => fsm_cnt' = fsm_cnt
      BY <1>2, <2>4, FollowedBetween
    <3> QED
      BY <1>4, <2>4, <3>1, <3>2, <3>3
  <2>5. CASE id_ready = 0
    <3>1. phase = 0 /\ id_ready' = 1 => fsm_cnt' = 0
      BY <1>2, <2>5, ControlSampled DEF BusEdge, BusTypes
    <3>2. phase /= 0 => id_ready' = 0
      BY <1>2, <2>5 DEF BusEdge, Clock, ParserClock, ParserSleep, ParserStuffError,
         StuffError, ParserHold
    <3> QED
      BY <3>1, <3>2
  <2> QED
    BY <2>3, <2>4, <2>5
<1> QED
  BY <1>3, <1>4, <1>5, <1>6, <1>7, <1>8, <1>9 DEF FreshInv, Quiet

\* Once found, the slot stays that of the frame.
LEMMA StaysTaken ==
    ASSUME BusTypes, BusInv, ChainInv, ~Plain, can_tx = 0 => id_ready = 1,
           awake = 1, awake' = 1, CoreNext
    PROVE  ~Plain' /\ Fi' = Fi /\ id_ready' = 1 /\ Asked'
<1>1. data_vector_ready = 1 /\ id_ready = 1 /\ Fi.type \in {"FI_DLC", "FI_DATA"}
  BY TakenFrame
<1>2. PICK a \in 0 .. Evaluated : AgeOk(a) /\ ChainAt(a)
  BY DEF ChainInv
<1>3. PICK b \in 0 .. Evaluated : Older(a, b)
  BY <1>2, AgeStep
<1>4. Fi' = Fi /\ (Asked' <=> Asked) /\ MatchAge' = MatchAge /\ id_ready' = 1 /\ b >= a
  <2>1. UNCHANGED << id, id_mem >> /\ id_ready' = 1
    BY <1>1, <1>3 DEF Older
  <2>2. b >= a
    BY <1>1, <1>3 DEF Older, Evaluated
  <2>3. Hitting' = Hitting
    BY <2>1 DEF Hitting
  <2>4. Fi' = Fi
    BY <2>1, <2>3 DEF Fi
  <2> QED
    BY <2>1, <2>2, <2>3, <2>4 DEF Asked, MatchAge, Fetched
<1>5. MemoryAt(b)'
  BY <1>2, <1>3, FrameEdges, MemoryStep DEF ChainAt
<1>6. a >= MatchAge /\ Asked
  BY <1>1, <1>2 DEF ChainAt, MemoryAt
<1>7. b >= MatchAge'
  BY <1>4, <1>6, Phases DEF MatchAge, Evaluated
<1>8. data_vector_ready' = 1
  BY <1>4, <1>5, <1>6, <1>7 DEF MemoryAt
<1> QED
  BY <1>1, <1>4, <1>6, <1>8 DEF Plain

\* It is found before the unit picks it up.
LEMMA FoundFirst ==
    ASSUME BusTypes, BusInv, ChainInv, Plain, ~Plain', can_tx = 0 => id_ready = 1, Quiet,
           queue \in {0, 1}, awake = 1, awake' = 1, CoreNext
    PROVE  ou_state' = "OU_AWAIT_FI"
<1> USE Phases
<1>1. data_vector_ready' = 1 /\ Fi'.type \in {"FI_DLC", "FI_DATA"}
  BY DEF Plain
<1>2. PICK in : Wires(in) /\ OuClock(in)
  BY FrameEdges
<1>3. PICK a \in 0 .. Evaluated : AgeOk(a) /\ ChainAt(a)
  BY DEF ChainInv
<1>4. PICK b \in 0 .. Evaluated : Older(a, b)
  BY <1>3, AgeStep
<1>5. MemoryAt(b)'
  BY <1>3, <1>4, FrameEdges, MemoryStep DEF ChainAt
<1>6. /\ ~(b > MatchAge' /\ Asked') =>
            \/ ou_state' = "OU_AWAIT_FI"
            \/ ou_state' = "OU_DONE" /\ id_ready' = 1 /\ ~Asked'
  BY <1>2, <1>3, <1>4, FedUnits, OverrideStep DEF ChainAt
<1>7. b >= MatchAge' /\ Asked'
  BY <1>1, <1>5 DEF MemoryAt
<1>8. ~(b > MatchAge')
  <2>1. MatchAge' \in {TreeDepth + 3, TreeDepth + 5} /\ Evaluated = TreeDepth + 7
    BY DEF MatchAge, Evaluated
  <2>2. id_ready = 1
    BY <1>4, <1>7, <2>1 DEF Older, BusTypes, TypeOK, ParserTypeOK, Bit
  <2>3. Hitting' = Hitting /\ id' = id /\ id_mem' = id_mem
    BY <1>4, <2>2 DEF Older, Hitting
  <2>4. Fi' = Fi /\ (Asked' <=> Asked)
    BY <2>3 DEF Fi, Asked
  <2>5. MatchAge' = MatchAge
    BY <2>4 DEF MatchAge, Fetched
  <2>6. data_vector_ready /= 1
    BY <1>1, <2>4 DEF Plain
  <2>7. ~(a >= MatchAge)
    BY <1>3, <1>7, <2>4, <2>6 DEF ChainAt, MemoryAt
  <2>8. PICK m \in {TreeDepth + 3, TreeDepth + 5} : m = MatchAge /\ m = MatchAge'
    BY <2>1, <2>5
  <2>9. a < m /\ b = a + 1
    BY <1>4, <2>1, <2>2, <2>7, <2>8 DEF Older
  <2> QED
    BY <2>8, <2>9
<1> QED
  BY <1>6, <1>7, <1>8
-----------------------------------------------------------------------------
(* The DLC that the unit sends *)

\* The bits that it still has to prepare, the stuff bit ahead of them, and the bits
\* that the parser still has to read.
DlcLeft == IF sf.state = "CTRL" THEN 9 - sf.cnt ELSE IF sf.cnt = 0 THEN 1 ELSE 0
StuffAhead == IF phase = 2 THEN 1 - sb.insert
              ELSE IF phase = 3 /\ subst = 1 THEN 1 ELSE sb.insert
FrameLeft == IF fsm_state = "CTRL" THEN 18 - fsm_cnt
             ELSE IF fsm_state \in {"DATA", "CRC_STF", "CRC"} THEN 10
             ELSE IF fsm_state = "EOF" THEN 9 - fsm_cnt ELSE 0

\* What is to be sent of the DLC is sent before the frame's end can be read, though
\* every bit of it may be preceded by a stuff bit.
DlcShadow ==
    /\ \/ sf.state = "CTRL" /\ sf.cnt \in 5 .. 7
       \/ sf.state = "CRC" /\ sf.cnt \in 0 .. 1
    /\ sb.insert = 1 => sb.state \in {"INSERT", "CRC_INSERT"}
    /\ fsm_state = "CTRL" => fsm_cnt \in 4 .. 7
DlcInTime ==
    IF phase = 1
    THEN fsm_state = "ERRF" \/ (DlcLeft > 0 /\ 2 * DlcLeft + StuffAhead <= FrameLeft)
    ELSE DlcLeft = 0 \/ 2 * DlcLeft + StuffAhead < FrameLeft
DlcInv ==
    awake = 1 /\ ~Plain /\ ou_state = "OU_DLC" /\ xcvr_req = 1 => DlcShadow /\ DlcInTime

\* Fields of the parser's shadow after an update, and fields that stay.
LEMMA ShadowFields ==
    ASSUME NEW r \in SfTypes, NEW st, NEW c, NEW m
    PROVE  /\ LET s == [r EXCEPT !.state = st, !.cnt = c]
              IN  /\ s.state = st /\ s.cnt = c
                  /\ s.crc_mode = r.crc_mode /\ s.disable = r.disable
           /\ LET s == [r EXCEPT !.cnt = c, !.state = st]
              IN  /\ s.state = st /\ s.cnt = c
                  /\ s.crc_mode = r.crc_mode /\ s.disable = r.disable
           /\ LET s == [r EXCEPT !.cnt = c]
              IN  /\ s.state = r.state /\ s.cnt = c
                  /\ s.crc_mode = r.crc_mode /\ s.disable = r.disable
           /\ LET s == [r EXCEPT !.cnt = c, !.crc_mode = m, !.state = st]
              IN  /\ s.state = st /\ s.cnt = c
                  /\ s.crc_mode = m /\ s.disable = r.disable
           /\ LET s == [r EXCEPT !.cnt = c, !.state = st, !.disable = m]
              IN  /\ s.state = st /\ s.cnt = c
                  /\ s.crc_mode = r.crc_mode /\ s.disable = m
BY DEF SfTypes

\* The parser needs a sample for each bit that it has left.
LEMMA FrameLeftSampled ==
    ASSUME NEW s, Clock(1, s, 0), fsm_state \in {"CTRL", "DATA", "CRC_STF", "CRC", "EOF"},
           fsm_cnt \in Nat, fsm_state = "CTRL" => fsm_cnt \in 4 .. 7, fsm_cnt' \in Nat,
           fsm_state' /= "ERRF", ~(fsm_state = "EOF" /\ fsm_cnt = 8)
    PROVE  /\ fsm_state' = "CTRL" => fsm_cnt' \in 4 .. 7
           /\ FrameLeft' >= FrameLeft - 1
           /\ FrameLeft \in Int /\ FrameLeft' \in Int
<1>1. CASE UNCHANGED << fsm_state, fsm_cnt >>
  BY <1>1 DEF FrameLeft
<1>2. CASE fsm_state = "CTRL" /\ ~UNCHANGED << fsm_state, fsm_cnt >>
  <2>1. \/ fsm_state' = "CTRL" /\ fsm_cnt <= 6 /\ fsm_cnt' = fsm_cnt + 1
        \/ fsm_cnt = 7 /\ fsm_state' \in {"DATA", "CRC_STF", "CRC"}
    BY <1>2, FrameSampled
  <2>2. CASE fsm_state' = "CTRL" /\ fsm_cnt <= 6 /\ fsm_cnt' = fsm_cnt + 1
    BY <1>2, <2>2 DEF FrameLeft
  <2>3. CASE fsm_cnt = 7 /\ fsm_state' \in {"DATA", "CRC_STF", "CRC"}
    <3>1. FrameLeft = 11
      BY <1>2, <2>3 DEF FrameLeft
    <3>2. FrameLeft' = 10
      BY <2>3 DEF FrameLeft
    <3> QED
      BY <2>3, <3>1, <3>2
  <2> QED
    BY <2>1, <2>2, <2>3
<1>3. CASE fsm_state \in {"DATA", "CRC_STF", "CRC"} /\ ~UNCHANGED << fsm_state, fsm_cnt >>
  <2>1. fsm_state' \in {"DATA", "CRC_STF", "CRC"} \/ (fsm_state' = "EOF" /\ fsm_cnt' = 0)
    BY <1>3, FrameSampled
  <2>2. FrameLeft = 10
    BY <1>3 DEF FrameLeft
  <2>3. CASE fsm_state' \in {"DATA", "CRC_STF", "CRC"}
    <3>1. FrameLeft' = 10
      BY <2>3 DEF FrameLeft
    <3> QED
      BY <2>2, <2>3, <3>1
  <2>4. CASE fsm_state' = "EOF" /\ fsm_cnt' = 0
    <3>1. FrameLeft' = 9
      BY <2>4 DEF FrameLeft
    <3> QED
      BY <2>2, <2>4, <3>1
  <2> QED
    BY <2>1, <2>3, <2>4
<1>4. CASE fsm_state = "EOF" /\ ~UNCHANGED << fsm_state, fsm_cnt >>
  <2>1. fsm_state' = "EOF" /\ fsm_cnt' = fsm_cnt + 1
    BY <1>4, FrameSampled
  <2> QED
    BY <1>4, <2>1 DEF FrameLeft
<1> QED
  BY <1>1, <1>2, <1>3, <1>4

\* So the end finds the unit done.
LEMMA DlcEndsInTime ==
    ASSUME DlcShadow, DlcInTime, ou_state = "OU_DLC", sb.insert \in {0, 1}
    PROVE  /\ EndsInTime
           /\ phase = 0 /\ ~OverrideSent => DlcLeft > 0
<1>1. OverrideSent <=> sf.state = "CRC" /\ sf.cnt = 1
  <2>1. After("CRC", "CTRL") /\ ~After("CTRL", "CTRL")
    BY StateOrder, FsmStateNames DEF After
  <2> QED
    BY <2>1 DEF OverrideSent, DlcShadow
<1>2. DlcLeft = 0 <=> sf.state = "CRC" /\ sf.cnt = 1
  BY DEF DlcLeft, DlcShadow
<1>3. DlcLeft \in Nat
  BY DEF DlcLeft, DlcShadow
<1>4. phase = 0 => StuffAhead \in {0, 1}
  BY DEF StuffAhead
<1>5. ASSUME phase = 0, fsm_state = "EOF", fsm_cnt = 8 PROVE OverrideSent
  <2>1. FrameLeft = 1
    BY <1>5 DEF FrameLeft
  <2> QED
    BY <1>1, <1>2, <1>3, <1>4, <1>5, <2>1 DEF DlcInTime
<1> QED
  BY <1>1, <1>2, <1>3, <1>5 DEF EndsInTime

\* The unit starts to send with a bit of the DLC that it has just prepared.
LEMMA DlcStarts ==
    ASSUME BusTypes, BusInv, CtrlInv, OuTypeOK, id_ready = 1, awake = 1, awake' = 1,
           NEW in, TakenEdge(in), Listening, ou_state = "OU_DLC", xcvr_req' = 1
    PROVE  DlcShadow' /\ DlcInTime'
<1> USE Phases
<1>1. in.sleep = 0 /\ BusEdge /\ xcvr_prep /= 1 /\ prep_strobe \in {0, 1} /\ xcvr_req = 0
      /\ stage_iii = 0 /\ subst = 0 /\ OuClock(in)
  BY DEF TakenEdge, Wires, Listening, OuTypeOK, Bit
<1>2. prep_strobe = 1
  <2>1. prep_strobe = 1 \/ xcvr_req' = xcvr_req
    BY <1>1, PrepRests DEF OuClock
  <2> QED
    BY <1>1, <2>1
<1>3. phase = 2 /\ fsm_state = "CTRL" /\ fsm_cnt > 3 /\ fsm_cnt \in 4 .. 7
  BY <1>2 DEF Listening, OverrideBit, CtrlInv
<1>4. phase' = 3 /\ fsm_state' = "CTRL" /\ fsm_cnt' = fsm_cnt
  BY <1>1, <1>3, NextPhase, FollowedBetween DEF BusTypes
<1>5. PrepDlc
  <2>1. PrepStuffBit \/ PrepDlc
    BY <1>1, <1>2 DEF OuClock, PrepOverride, PrepBit, PrepStuff, PrepData
  <2> QED
    BY <1>1, <2>1 DEF PrepStuffBit
<1>6. sb'.insert = 0
  BY <1>1, <1>2, <1>5 DEF OuClock, ShadowStuffer, CopiedSb, PrepDlc
<1>7. subst' = 1 /\ StuffAhead' = 1
  <2>1. subst' = 1
    BY <1>5 DEF PrepDlc, Override
  <2> QED
    BY <1>4, <2>1 DEF StuffAhead
<1>8. SyncedSf \in SfTypes /\ SyncedSf.state = "CTRL"
  BY <1>2, <1>3, ShadowTypes DEF SyncedSf, BusTypes
<1>9. CASE fsm_cnt = 7
  <2>1. sf' = [SyncedSf EXCEPT !.state = "CRC", !.cnt = 0]
    BY <1>5, <1>9 DEF PrepDlc
  <2>2. sf'.state = "CRC" /\ sf'.cnt = 0
    BY <1>8, <2>1, ShadowFields
  <2>3. DlcLeft' = 1 /\ FrameLeft' = 11
    BY <1>4, <1>9, <2>2 DEF DlcLeft, FrameLeft
  <2> QED
    BY <1>3, <1>4, <1>6, <1>7, <2>2, <2>3 DEF DlcShadow, DlcInTime
<1>10. CASE fsm_cnt /= 7
  <2>1. sf' = [SyncedSf EXCEPT !.cnt = fsm_cnt + 1]
    BY <1>5, <1>10 DEF PrepDlc
  <2>2. sf'.state = "CTRL" /\ sf'.cnt = fsm_cnt + 1
    BY <1>8, <2>1, ShadowFields
  <2>3. DlcLeft' = 8 - fsm_cnt /\ FrameLeft' = 18 - fsm_cnt
    BY <1>3, <1>4, <2>2 DEF DlcLeft, FrameLeft
  <2>4. 2 * DlcLeft' + StuffAhead' < FrameLeft'
    BY <1>3, <1>7, <1>10, <2>3
  <2>5. sf'.cnt \in 5 .. 7 /\ phase' /= 1
    BY <1>3, <1>4, <1>10, <2>2
  <2> QED
    BY <1>3, <1>4, <1>6, <2>2, <2>4, <2>5 DEF DlcShadow, DlcInTime
<1> QED
  BY <1>9, <1>10

\* What becomes of the shadows when nothing is prepared.
LEMMA ShadowsRest ==
    ASSUME OuTypeOK, NEW in, OuClock(in), in.sleep = 0, prep_strobe /= 1
    PROVE  /\ sb' = (IF stage_iii = 1 \/ subst = 1 THEN SbNext ELSE sb)
           /\ xcvr_prep /= 1 => sf' = sf
<1>1. sb' = (IF stage_iii = 1 \/ subst = 1 THEN SbNext ELSE sb)
  BY DEF OuClock, ShadowStuffer, CopiedSb
<1>2. xcvr_prep /= 1 => sf' = sf
  BY PrepRests DEF OuClock
<1> QED
  BY <1>1, <1>2

\* The shadow of the destuffer inserts no two bits in a row.
LEMMA NoTwoInserts ==
    ASSUME OuTypeOK, prep_strobe /= 1
    PROVE  /\ SbNext.insert \in {0, 1}
           /\ SbNext.insert = 1 => SbNext.state \in {"INSERT", "CRC_INSERT"}
           /\ sb.state \in {"INSERT", "CRC_INSERT"} => SbNext.insert = 0
<1>1. sb \in SbTypes /\ sf.crc_mode \in {0, 1} /\ sf.disable \in {0, 1}
  BY DEF OuTypeOK, SbTypes, Bit
<1> QED
  BY <1>1, ShadowStuffs DEF StuffsTo

\* A claimed bit and the stages of a sending unit between two samples.
LEMMA DlcClaims ==
    ASSUME BusTypes, BusInv, OuTypeOK, id_ready = 1, awake = 1, awake' = 1,
           NEW in, TakenEdge(in), Claiming, ou_state = "OU_DLC", DlcShadow, DlcInTime
    PROVE  DlcShadow' /\ DlcInTime'
<1> USE Phases
<1>1. /\ in.sleep = 0 /\ BusEdge /\ xcvr_prep /= 1 /\ prep_strobe /= 1 /\ OuClock(in)
      /\ stage_iii = 0 /\ subst = (IF phase = 3 THEN 1 ELSE 0) /\ phase \in 3 .. Fip
      /\ phase /= 0 /\ phase /= 1 /\ phase /= 2
  BY DEF TakenEdge, Wires, Claiming
<1>2. phase' = phase + 1 /\ UNCHANGED << fsm_state, fsm_cnt >>
  BY <1>1, FollowedBetween
<1>3. sf' = sf /\ sb' = (IF phase = 3 THEN SbNext ELSE sb)
  BY <1>1, ShadowsRest
<1>4. DlcShadow'
  BY <1>1, <1>2, <1>3, NoTwoInserts DEF DlcShadow
<1>5. sb.insert \in {0, 1} /\ SbNext.insert \in {0, 1}
  BY <1>1, NoTwoInserts DEF OuTypeOK, Bit
<1>6. DlcLeft' = DlcLeft /\ FrameLeft' = FrameLeft /\ DlcLeft \in Nat
  BY <1>2, <1>3 DEF DlcLeft, FrameLeft, DlcShadow
<1>7. PICK m \in {0, 1} : m = StuffAhead'
  BY <1>1, <1>2, <1>3, <1>5 DEF StuffAhead
<1>8. StuffAhead \in {0, 1} /\ m <= StuffAhead
  <2>1. phase = 3 => StuffAhead = 1
    BY <1>1 DEF StuffAhead
  <2>2. phase /= 3 => StuffAhead = sb.insert /\ m = sb.insert
    BY <1>1, <1>2, <1>3, <1>7 DEF StuffAhead
  <2> QED
    BY <1>5, <1>7, <2>1, <2>2
<1>9. FrameLeft \in Int
  BY <1>1 DEF FrameLeft, BusTypes, TypeOK, ParserTypeOK
<1>10. DlcLeft = 0 \/ 2 * DlcLeft + m < FrameLeft
  BY <1>1, <1>6, <1>8, <1>9 DEF DlcInTime
<1>11. DlcLeft' = 0 \/ 2 * DlcLeft' + StuffAhead' < FrameLeft'
  BY <1>6, <1>7, <1>10
<1>12. phase' /= 1
  BY <1>1, <1>2
<1> QED
  BY <1>4, <1>11, <1>12 DEF DlcInTime

\* The sample of a bit of the DLC.
LEMMA DlcSampled ==
    ASSUME BusTypes, BusInv, OuTypeOK, id_ready = 1, awake = 1, awake' = 1, BusTypes',
           NEW in, TakenEdge(in), Sending, ou_state = "OU_DLC", DlcShadow, DlcInTime,
           phase = 0, ~OverrideSent
    PROVE  DlcShadow' /\ DlcInTime'
<1> USE Phases
<1>1. /\ in.sleep = 0 /\ BusEdge /\ xcvr_prep /= 1 /\ prep_strobe /= 1 /\ OuClock(in)
      /\ stage_iii = 0 /\ subst = 0
  BY DEF TakenEdge, Wires, Sending
<1>2. phase' = 1 /\ Clock(1, Level, 0)
  BY <1>1, NextPhase DEF BusTypes, BusEdge
<1>3. sf' = sf /\ sb' = sb
  BY <1>1, ShadowsRest
<1>4. sb.insert \in {0, 1}
  BY DEF OuTypeOK, Bit
<1>5. EndsInTime /\ DlcLeft > 0
  BY <1>4, DlcEndsInTime
<1>6. fsm_state \in {"CTRL", "DATA", "CRC_STF", "CRC", "EOF"}
  <2>1. fsm_state \notin {"ABIT", "SLEEP", "RESET", "ERRF", "AWAIT_EOF"}
    BY Followed DEF Sending
  <2>2. fsm_state \in FsmStates
    BY DEF BusTypes, TypeOK, ParserTypeOK
  <2> QED
    BY <2>1, <2>2, FsmStateNames
<1>7. fsm_cnt \in Nat /\ fsm_cnt' \in Nat
  BY DEF BusTypes, TypeOK, ParserTypeOK
<1>8. ~(fsm_state = "EOF" /\ fsm_cnt = 8)
  BY <1>5 DEF EndsInTime
<1>9. CASE fsm_state' = "ERRF"
  BY <1>2, <1>3, <1>9 DEF DlcShadow, DlcInTime
<1>10. CASE fsm_state' /= "ERRF"
  <2>1. /\ fsm_state' = "CTRL" => fsm_cnt' \in 4 .. 7
        /\ FrameLeft' >= FrameLeft - 1 /\ FrameLeft \in Int /\ FrameLeft' \in Int
    BY <1>2, <1>6, <1>7, <1>8, <1>10, FrameLeftSampled DEF DlcShadow
  <2>2. DlcLeft' = DlcLeft /\ DlcLeft \in Nat
    BY <1>3 DEF DlcLeft, DlcShadow
  <2>3. StuffAhead = sb.insert /\ StuffAhead' = sb.insert
    <3>1. phase' /= 2 /\ phase' /= 3
      BY <1>2
    <3> QED
      BY <1>3, <3>1 DEF StuffAhead
  <2>4. PICK f \in Int : f = FrameLeft'
    BY <2>1
  <2>5. 2 * DlcLeft + sb.insert <= f
    BY <1>4, <1>5, <2>1, <2>2, <2>3, <2>4 DEF DlcInTime
  <2>6. DlcLeft' > 0 /\ 2 * DlcLeft' + StuffAhead' <= FrameLeft'
    BY <1>5, <2>2, <2>3, <2>4, <2>5
  <2>7. DlcShadow'
    BY <1>3, <2>1 DEF DlcShadow
  <2> QED
    BY <1>2, <2>6, <2>7 DEF DlcInTime
<1> QED
  BY <1>9, <1>10

\* The edge at which the next bit of it is prepared.
LEMMA DlcPrepared ==
    ASSUME BusTypes, BusInv, OuTypeOK, id_ready = 1, awake = 1, awake' = 1,
           NEW in, TakenEdge(in), Sending, ou_state = "OU_DLC", DlcShadow, DlcInTime,
           phase = 1, ou_state' = ou_state
    PROVE  DlcShadow' /\ DlcInTime'
<1> USE Phases
<1>1. /\ in.sleep = 0 /\ BusEdge /\ xcvr_prep = 1 /\ prep_strobe = 0 /\ OuClock(in)
      /\ stage_iii = 0 /\ subst = 0 /\ ou_state \in Overrides
  BY DEF TakenEdge, Wires, Sending, Overrides
<1>2. phase' = 2 /\ UNCHANGED << fsm_state, fsm_cnt >>
  BY <1>1, FollowedBetween
<1>3. fsm_state /= "ERRF"
  <2>1. Broke \/ Yielded \/ SentOn \/ Looked(in) \/ Waited
    BY <1>1, TakenBranches DEF TakenEdge, OuClock
  <2>2. ou_state' /= "OU_DONE"
    OBVIOUS
  <2> QED
    BY <1>1, <2>1, <2>2 DEF Broke, Yielded, SentOn, Looked, Waited, Sending
<1>4. sb' = sb /\ sb.insert \in {0, 1}
  BY <1>1, ShadowsRest DEF OuTypeOK, Bit
<1>5. XcvrStuffBit \/ XcvrDlc
  BY <1>1 DEF OuClock, PrepOverride, XcvrData, XcvrOther
<1>6. SyncedSf = sf /\ sf \in SfTypes
  BY <1>1, ShadowTypes DEF SyncedSf, BusTypes
<1>7. StuffAhead = sb.insert
  BY DEF StuffAhead
<1>8. PICK m \in {0, 1} : m = StuffAhead' /\ m = 1 - sb.insert
  BY <1>2, <1>4 DEF StuffAhead
<1>9. FrameLeft' = FrameLeft /\ FrameLeft \in Int
  BY <1>2 DEF FrameLeft, BusTypes, TypeOK, ParserTypeOK
<1>10. DlcLeft \in Nat /\ DlcLeft > 0 /\ 2 * DlcLeft + sb.insert <= FrameLeft
  BY <1>3, <1>7 DEF DlcInTime, DlcLeft, DlcShadow
<1>11. CASE sb.insert = 1
  <2>1. sf' = sf
    BY <1>4, <1>5, <1>6, <1>11 DEF XcvrStuffBit, XcvrDlc
  <2>2. DlcLeft' = DlcLeft /\ DlcShadow'
    BY <1>2, <1>4, <2>1 DEF DlcLeft, DlcShadow
  <2>3. 2 * DlcLeft + m < FrameLeft
    BY <1>8, <1>9, <1>10, <1>11
  <2>4. 2 * DlcLeft' + StuffAhead' < FrameLeft'
    BY <1>8, <1>9, <2>2, <2>3
  <2> QED
    BY <1>2, <2>2, <2>4 DEF DlcInTime
<1>12. CASE sb.insert = 0
  <2>1. XcvrDlc
    BY <1>4, <1>5, <1>12 DEF XcvrStuffBit
  <2>2. PICK n \in Nat : n = DlcLeft /\ 2 * n <= FrameLeft /\ n > 0
    BY <1>9, <1>10, <1>12
  <2>3. DlcShadow' /\ DlcLeft' = n - 1
    <3>1. CASE sf.cnt = 7
      <4>1. sf'.state = "CRC" /\ sf'.cnt = 0
        BY <1>6, <2>1, <3>1, ShadowFields DEF XcvrDlc
      <4>2. n = 2
        BY <2>2, <3>1 DEF DlcLeft, DlcShadow
      <4> QED
        BY <1>2, <1>4, <4>1, <4>2 DEF DlcShadow, DlcLeft
    <3>2. CASE sf.cnt /= 7
      <4>1. sf'.state = sf.state /\ sf'.cnt = sf.cnt + 1
        BY <1>6, <2>1, <3>2, ShadowFields DEF XcvrDlc
      <4>2. CASE sf.state = "CTRL"
        <5>1. sf.cnt \in 5 .. 6 /\ n = 9 - sf.cnt
          BY <2>2, <3>2, <4>2 DEF DlcLeft, DlcShadow
        <5>2. DlcLeft' = 9 - (sf.cnt + 1)
          BY <4>1, <4>2 DEF DlcLeft
        <5>3. DlcShadow'
          BY <1>2, <1>4, <4>1, <4>2, <5>1 DEF DlcShadow
        <5> QED
          BY <5>1, <5>2, <5>3
      <4>3. CASE sf.state = "CRC"
        <5>1. sf.cnt = 0 /\ n = 1
          BY <2>2, <4>3 DEF DlcLeft, DlcShadow
        <5>2. DlcLeft' = 0
          BY <4>1, <4>3, <5>1 DEF DlcLeft
        <5>3. DlcShadow'
          BY <1>2, <1>4, <4>1, <4>3, <5>1 DEF DlcShadow
        <5> QED
          BY <5>1, <5>2, <5>3
      <4> QED
        BY <4>2, <4>3 DEF DlcShadow
    <3> QED
      BY <3>1, <3>2
  <2>4. m = 1 /\ 2 * (n - 1) + m < FrameLeft
    BY <1>8, <1>9, <1>12, <2>2
  <2>5. 2 * DlcLeft' + StuffAhead' < FrameLeft'
    BY <1>8, <1>9, <2>3, <2>4
  <2> QED
    BY <1>2, <2>3, <2>5 DEF DlcInTime
<1> QED
  BY <1>4, <1>11, <1>12

\* All other edges of a unit that sends it.
LEMMA DlcSends ==
    ASSUME BusTypes, BusInv, OuTypeOK, id_ready = 1, awake = 1, awake' = 1,
           NEW in, TakenEdge(in), Sending, ou_state = "OU_DLC", DlcShadow, DlcInTime,
           phase \notin {0, 1}
    PROVE  DlcShadow' /\ DlcInTime'
<1> USE Phases
<1>1. /\ in.sleep = 0 /\ BusEdge /\ xcvr_prep /= 1 /\ prep_strobe /= 1 /\ OuClock(in)
      /\ stage_iii = (IF phase = 2 THEN 1 ELSE 0) /\ subst = 0
  BY DEF TakenEdge, Wires, Sending
<1>2. /\ phase' = (IF phase = BitEdges - 1 THEN 0 ELSE phase + 1)
      /\ UNCHANGED << fsm_state, fsm_cnt >>
      /\ phase \in 0 .. BitEdges - 1
  BY <1>1, FollowedBetween DEF BusTypes
<1>3. sf' = sf /\ sb' = (IF phase = 2 THEN SbNext ELSE sb)
  BY <1>1, ShadowsRest
<1>4. DlcShadow'
  BY <1>1, <1>2, <1>3, NoTwoInserts DEF DlcShadow
<1>5. sb.insert \in {0, 1} /\ SbNext.insert \in {0, 1}
  BY <1>1, NoTwoInserts DEF OuTypeOK, Bit
<1>6. DlcLeft' = DlcLeft /\ FrameLeft' = FrameLeft /\ DlcLeft \in Nat
  BY <1>2, <1>3 DEF DlcLeft, FrameLeft, DlcShadow
<1>7. phase' /= 1 /\ phase' /= 2 /\ subst' /= 1
  <2>1. subst' = 0
    BY <1>1, PrepRests DEF OuClock
  <2> QED
    BY <1>2, <2>1
<1>8. PICK m \in {0, 1} : m = StuffAhead' /\ m = sb'.insert
  BY <1>3, <1>5, <1>7 DEF StuffAhead
<1>9. StuffAhead \in {0, 1} /\ m <= StuffAhead
  <2>1. CASE phase = 2
    <3>1. sb.insert = 1 => SbNext.insert = 0
      BY <1>1, NoTwoInserts DEF DlcShadow
    <3>2. StuffAhead = 1 - sb.insert
      BY <2>1 DEF StuffAhead
    <3> QED
      BY <1>3, <1>5, <1>8, <2>1, <3>1, <3>2
  <2>2. CASE phase /= 2
    BY <1>1, <1>3, <1>5, <1>8, <2>2 DEF StuffAhead
  <2> QED
    BY <2>1, <2>2
<1>10. FrameLeft \in Int
  BY <1>1 DEF FrameLeft, BusTypes, TypeOK, ParserTypeOK
<1>11. DlcLeft = 0 \/ 2 * DlcLeft + m < FrameLeft
  BY <1>6, <1>9, <1>10 DEF DlcInTime
<1>12. DlcLeft' = 0 \/ 2 * DlcLeft' + StuffAhead' < FrameLeft'
  BY <1>6, <1>8, <1>11
<1> QED
  BY <1>4, <1>7, <1>12 DEF DlcInTime

\* Every edge keeps the count.
LEMMA DlcStep ==
    ASSUME BusTypes, BusTypes', BusInv, ChainInv, OuTypeOK, LineTypes, FreshInv, CtrlInv,
           SenderInv, DlcInv, ~Plain, awake = 1, awake' = 1, CoreNext
    PROVE  DlcInv'
<1> SUFFICES ASSUME ou_state' = "OU_DLC", xcvr_req' = 1
    PROVE  DlcShadow' /\ DlcInTime'
  BY DEF DlcInv
<1>1. PICK in : TakenEdge(in)
  BY TakenEdges
<1>2. id_ready = 1 /\ OuClock(in) /\ in.sleep = 0 /\ phase \in 0 .. BitEdges - 1
  BY <1>1, TakenFrame DEF TakenEdge, Wires
<1>3. ou_state /= "OU_AWAIT_FI"
  BY <1>1, PickedUp DEF Listening
<1>4. ou_state = "OU_DLC"
  <2>1. ~NewMatch(in)
    BY <1>3 DEF NewMatch
  <2> QED
    BY <1>2, <2>1, OuMoves DEF OuClock
<1>5. Listening \/ (xcvr_req = 1 /\ (Claiming \/ Sending))
  BY <1>3, <1>4 DEF SenderInv, Taken, Claiming, Sending
<1>6. fip_strb = 1 => phase = Fip + 1
  BY <1>3 DEF SenderInv, Taken
<1>7. CASE Listening
  BY <1>1, <1>2, <1>4, <1>7, DlcStarts
<1>8. CASE Claiming /\ xcvr_req = 1
  <2>1. DlcShadow /\ DlcInTime
    BY <1>4, <1>8 DEF DlcInv
  <2> QED
    BY <1>1, <1>2, <1>4, <1>8, <2>1, DlcClaims
<1>9. CASE Sending /\ xcvr_req = 1
  <2>1. DlcShadow /\ DlcInTime
    BY <1>4, <1>9 DEF DlcInv
  <2>2. CASE phase = 0
    <3>1. EndsInTime
      BY <1>4, <2>1, DlcEndsInTime DEF OuTypeOK, Bit
    <3>2. ~OverrideSent
      BY <1>1, <1>2, <1>4, <1>6, <1>9, <2>2, <3>1, SendingStep DEF Overrides
    <3> QED
      BY <1>1, <1>2, <1>4, <1>9, <2>1, <2>2, <3>2, DlcSampled
  <2>3. CASE phase = 1
    BY <1>1, <1>2, <1>4, <1>9, <2>1, <2>3, DlcPrepared
  <2>4. CASE phase \notin {0, 1}
    BY <1>1, <1>2, <1>4, <1>9, <2>1, <2>4, DlcSends
  <2> QED
    BY <2>2, <2>3, <2>4
<1> QED
  BY <1>5, <1>7, <1>8, <1>9

\* A DLC is sent in time.
LEMMA DlcInTimeEnds ==
    ASSUME ChainInv, OuTypeOK, SenderInv, DlcInv, ~Plain, awake = 1, ou_state = "OU_DLC"
    PROVE  EndsInTime
<1> USE Phases
<1>1. Listening \/ Claiming \/ Sending
  BY DEF SenderInv, Taken
<1>2. CASE Listening
  BY <1>2 DEF Listening, OverrideBit, EndsInTime
<1>3. CASE Claiming
  BY <1>3 DEF Claiming, EndsInTime
<1>4. CASE Sending
  <2>1. DlcShadow /\ DlcInTime
    BY <1>4 DEF DlcInv, Sending
  <2> QED
    BY <2>1, DlcEndsInTime DEF OuTypeOK, Bit
<1> QED
  BY <1>1, <1>2, <1>3, <1>4
-----------------------------------------------------------------------------
(* The end of a frame that the unit sends *)

\* What a sender leaves behind is gone when the frame ends, all but its mode and
\* its request, which the first edge of the sleep clears.
StillInv ==
    awake = 0 =>
        /\ ou_state \notin Overrides
        /\ << xcvr_prep, subst, stage_iii >> = << 0, 0, 0 >>
        /\ phase >= 1 => Receiver

\* The frame that was overridden ends.
LEMMA TakenEnds ==
    ASSUME BusTypes, BusInv, ChainInv, OuTypeOK, LineTypes, FreshInv, SenderInv, ~Plain,
           awake = 1, awake' /= 1, CoreNext
    PROVE  AsleepInv' /\ StillInv' /\ BusTypes' /\ awake' = 0
<1> USE Phases
<1>1. PICK in : TakenEdge(in)
  BY TakenEdges
<1>2. BusTypes'
  BY BusTypesStep DEF OuTypeOK
<1>3. status.eof = 1 /\ awake' = 0 /\ phase' = 0
  BY <1>1 DEF TakenEdge, BusEdge
<1>4. phase = 1 /\ fsm_state = "SLEEP"
  BY <1>3 DEF BusInv, Framing, Broken, Receiving, Following, Entering, Starting, Clean,
     Leaving, NoStatus, Done
<1>5. ou_state /= "OU_AWAIT_FI"
  <2>1. MatchAge \in {TreeDepth + 3, TreeDepth + 5}
    BY DEF MatchAge
  <2> QED
    BY <1>4, <2>1, TakenFrame
<1>6. ou_state = "OU_DONE" /\ Resting
  <2>1. ~Listening
    BY <1>4 DEF Listening
  <2>2. ~Claiming /\ ~Sending
    BY <1>3, <1>4 DEF Claiming, Sending
  <2> QED
    BY <1>5, <2>1, <2>2 DEF SenderInv, Taken
<1>7. /\ in.sleep = 0 /\ ~NewMatch(in) /\ prep_strobe /= 1 /\ xcvr_prep /= 1
      /\ xcvr_mode \in {0, 1} /\ can_tx \in {0, 1}
  BY <1>1, <1>6 DEF TakenEdge, Wires, NewMatch, Resting, LineTypes, Bit
<1>8. ou_state' = "OU_DONE" /\ xcvr_prep' = 0
  BY <1>1, <1>6, <1>7, OuMoves DEF TakenEdge, OuClock
<1>9. queue' = 1 /\ subst' = 0 /\ stage_iii' = 0
  BY <1>1, <1>6, <1>7, PrepRests DEF TakenEdge, OuClock
<1>10. arm' = 0
  BY <1>1, <1>7, <1>8, ArmTaken DEF TakenEdge, OuClock
<1>11. can_tx' = 1 /\ fip_strb' = 0
  BY <1>1, <1>4, <1>6, <1>7 DEF TakenEdge, TimerEdge, Resting, Not
<1> QED
  BY <1>2, <1>3, <1>8, <1>9, <1>10, <1>11 DEF AsleepInv, StillInv, Overrides
-----------------------------------------------------------------------------
(* The invariant of the core *)

\* A frame is one or the other: the unit receives, or it sends.
SideInv == awake = 1 => IF Plain THEN UnitInv ELSE SenderInv
WholeInv ==
    /\ TypeInv /\ BusInv /\ ChainInv /\ AsleepInv /\ StillInv
    /\ FreshInv /\ CtrlInv /\ DlcInv /\ SideInv

\* What of it the steps of a frame need, whichever it is.
LEMMA EitherSide ==
    ASSUME WholeInv, awake = 1
    PROVE  /\ BusTypes /\ OuTypeOK /\ LineTypes /\ arm \in Bit /\ queue \in {0, 1}
           /\ can_tx = 0 => id_ready = 1
           /\ ou_state = "OU_AWAIT_FI" \/ ~Asked \/ late_strobe = 1 => Quiet
<1>1. BusTypes /\ OuTypeOK /\ LineTypes /\ arm \in Bit /\ queue \in {0, 1}
  BY DEF WholeInv, TypeInv, UnitTypes, LineTypes, BusTypes, OuTypeOK, Bit
<1>2. CASE Plain
  BY <1>1, <1>2 DEF WholeInv, SideInv, UnitInv, Armed, Receiver, Quiet
<1>3. CASE ~Plain
  <2>1. Asked /\ id_ready = 1
    BY <1>1, <1>3, TakenFrame DEF WholeInv
  <2>2. late_strobe = 1 /\ ou_state /= "OU_AWAIT_FI" => Quiet
    BY <1>3 DEF WholeInv, SideInv, SenderInv, Taken, Listening, Claiming, Sending, Resting,
       Quiet
  <2>3. ou_state = "OU_AWAIT_FI" => Quiet
    BY DEF WholeInv, FreshInv
  <2> QED
    BY <1>1, <2>1, <2>2, <2>3
<1> QED
  BY <1>2, <1>3

\* The core starts so.
LEMMA WholeStart == CoreInit => WholeInv
<1> SUFFICES ASSUME CoreInit PROVE WholeInv
  OBVIOUS
<1>1. CoreInv
  BY CoreInitInv
<1>2. awake = 0 /\ phase = 0
  BY DEF CoreInit
<1>3. StillInv
  BY DEF CoreInit, OuInit, StillInv, Overrides
<1>4. TypeInv
  BY TypesStart
<1> QED
  BY <1>1, <1>2, <1>3, <1>4
  DEF CoreInv, WholeInv, FreshInv, CtrlInv, DlcInv, SideInv

\* A unit that works on payload is not among them.
LEMMA OverridesDlc == UnitTypes /\ ou_state \in Overrides => ou_state = "OU_DLC"
BY DEF UnitTypes, Overrides

\* Every edge of a frame.
LEMMA WholeAwake ==
    ASSUME NoPayload, WholeInv, awake = 1, awake' = 1, CoreNext
    PROVE  WholeInv'
<1>1. /\ BusTypes /\ OuTypeOK /\ LineTypes /\ arm \in Bit /\ queue \in {0, 1}
      /\ can_tx = 0 => id_ready = 1
      /\ ou_state = "OU_AWAIT_FI" \/ ~Asked \/ late_strobe = 1 => Quiet
      /\ BusInv /\ ChainInv /\ FreshInv /\ CtrlInv /\ UnitTypes
  BY EitherSide DEF WholeInv, TypeInv
<1>2. TypeInv'
  BY TypesStep DEF WholeInv
<1>3. BusTypes' /\ BusInv' /\ ChainInv'
  BY <1>1, BusTypesStep, BusStep, ChainStep
<1>4. FreshInv' /\ CtrlInv'
  BY <1>1, FreshStep, ControlStep
<1>5. AsleepInv' /\ StillInv'
  BY DEF AsleepInv, StillInv
<1>6. CASE Plain /\ Plain'
  <2>1. UnitInv
    BY <1>6 DEF WholeInv, SideInv
  <2>2. Receiver' /\ Strobed' /\ Queued' /\ Armed' /\ Finished'
    BY <1>1, <2>1, UnitStep
  <2>3. SideInv' /\ DlcInv'
    BY <1>6, <2>2 DEF SideInv, UnitInv, DlcInv
  <2> QED
    BY <1>2, <1>3, <1>4, <1>5, <2>3 DEF WholeInv
<1>7. CASE Plain /\ ~Plain'
  <2>1. Quiet
    BY <1>7 DEF WholeInv, SideInv, UnitInv, Receiver, Quiet
  <2>2. ou_state' = "OU_AWAIT_FI"
    BY <1>1, <1>7, <2>1, FoundFirst
  <2>3. SideInv' /\ DlcInv'
    BY <1>7, <2>2 DEF SideInv, SenderInv, Taken, DlcInv
  <2> QED
    BY <1>2, <1>3, <1>4, <1>5, <2>3 DEF WholeInv
<1>8. CASE ~Plain
  <2>1. SenderInv /\ DlcInv
    BY <1>8 DEF WholeInv, SideInv
  <2>2. ~Plain'
    BY <1>1, <1>8, StaysTaken
  <2>3. EndsInTime \/ ou_state \notin Overrides
    BY <1>1, <1>8, <2>1, OverridesDlc, DlcInTimeEnds
  <2>4. SenderInv'
    BY <1>1, <1>8, <2>1, <2>3, TakenMoves DEF SenderInv
  <2>5. DlcInv'
    BY <1>1, <1>3, <1>8, <2>1, DlcStep
  <2> QED
    BY <1>2, <1>3, <1>4, <1>5, <2>2, <2>4, <2>5 DEF WholeInv, SideInv
<1> QED
  BY <1>6, <1>7, <1>8

\* The edges between two frames.
LEMMA WholeAsleep ==
    ASSUME WholeInv, TypeInv', awake /= 1, CoreNext
    PROVE  WholeInv'
<1> USE Phases
<1>1. BusTypes /\ awake = 0 /\ 0 \in Bit /\ 1 \in Bit
      /\ ou_state \in OuStates \ {"OU_DLC", "OU_DATA_CRC"} /\ AsleepInv /\ StillInv
  <2>1. BusTypes /\ awake = 0 /\ ou_state \in OuStates
    BY DEF WholeInv, TypeInv, UnitTypes, LineTypes, BusTypes, OuTypeOK, Bit
  <2> QED
    BY <2>1 DEF WholeInv, StillInv, Overrides, Bit
<1>2. SleepEdge \/ WakeUp \/ ResetEdge
  BY <1>1 DEF CoreNext, FrameNext, Sample, BitStart, PreSample, FaultInjectionPoint,
     OtherEdge, Tick
<1>3. CASE WakeUp
  <2>1. Receiver /\ Units(1, 0, 0, 0) /\ hits' = 0 /\ can_tx' = can_tx
    BY <1>1, <1>3 DEF WakeUp, StillInv
  <2>2. BusTypes' /\ BusInv' /\ ChainInv' /\ UnitInv' /\ awake' = 1
    BY <1>1, <1>3, <2>1, WakeUpStep
  <2>3. fsm_state' = "SLEEP" /\ id_ready' = 0
    BY <2>1 DEF Units, Clock, ParserClock, ParserSleep, Asleep, GoTo
  <2>4. /\ << xcvr_prep, xcvr_req, subst, stage_iii, xcvr_mode >>' = << 0, 0, 0, 0, 0 >>
        /\ interrupt_req' = 0 /\ Plain' /\ Armed'
    BY <2>2 DEF UnitInv, Receiver, Strobed
  <2>5. arm' = 0 /\ can_tx' = 1
    <3>1. ou_state /= "OU_BSFX" /\ can_tx = 1
      BY <1>1 DEF AsleepInv
    <3> QED
      BY <1>1, <2>1, <3>1, UnitsAsleep
  <2>6. FreshInv' /\ CtrlInv'
    BY <2>1, <2>3, <2>4, <2>5 DEF FreshInv, CtrlInv, Quiet
  <2>7. DlcInv' /\ SideInv' /\ StillInv' /\ AsleepInv'
    BY <2>2, <2>4 DEF DlcInv, SideInv, StillInv, AsleepInv
  <2> QED
    BY <2>2, <2>6, <2>7 DEF WholeInv
<1>4. CASE SleepEdge
  <2>1. BusTypes' /\ Receiver' /\ AsleepInv' /\ awake' = 0
    BY <1>1, <1>4, SleepStep
  <2> QED
    BY <2>1 DEF Receiver, StillInv, Overrides, WholeInv, BusInv, ChainInv, FreshInv, CtrlInv,
       DlcInv, SideInv
<1>5. CASE ResetEdge
  <2>1. BusTypes' /\ Receiver' /\ AsleepInv' /\ awake' = 0
    BY <1>1, <1>5, ResetStep
  <2> QED
    BY <2>1 DEF Receiver, StillInv, Overrides, WholeInv, BusInv, ChainInv, FreshInv, CtrlInv,
       DlcInv, SideInv
<1> QED
  BY <1>2, <1>3, <1>4, <1>5

\* The edge that ends a frame.
LEMMA WholeEnds ==
    ASSUME WholeInv, TypeInv', awake = 1, awake' /= 1, CoreNext
    PROVE  WholeInv'
<1>1. BusTypes /\ OuTypeOK /\ LineTypes /\ BusInv /\ ChainInv /\ FreshInv
  BY EitherSide DEF WholeInv
<1>2. CASE Plain
  <2>1. UnitInv
    BY <1>2 DEF WholeInv, SideInv
  <2>2. AsleepInv' /\ awake' = 0 /\ Receiver'
    BY <1>1, <2>1, FallAsleep, UnitStep
  <2> QED
    BY <2>2 DEF Receiver, StillInv, Overrides, WholeInv, BusInv, ChainInv, FreshInv, CtrlInv,
       DlcInv, SideInv
<1>3. CASE ~Plain
  <2>1. SenderInv
    BY <1>3 DEF WholeInv, SideInv
  <2>2. AsleepInv' /\ StillInv' /\ awake' = 0
    BY <1>1, <1>3, <2>1, TakenEnds
  <2> QED
    BY <2>2 DEF WholeInv, BusInv, ChainInv, FreshInv, CtrlInv, DlcInv, SideInv
<1> QED
  BY <1>2, <1>3

\* All edges, and those at which nothing changes.
LEMMA WholeStep ==
    ASSUME NoPayload, WholeInv, CoreNext
    PROVE  WholeInv'
<1>1. TypeInv'
  BY TypesStep DEF WholeInv
<1> QED
  BY <1>1, WholeAwake, WholeEnds, WholeAsleep

LEMMA WholeStutter ==
    ASSUME WholeInv, UNCHANGED coreVars
    PROVE  WholeInv'
<1>1. /\ UNCHANGED << awake, phase, can_tx, xcvr_mode, fip_strb, hits >>
      /\ UNCHANGED << fsm_state, fsm_cnt, id_ready, status, id_mem, id >>
      /\ UNCHANGED << ou_state, xcvr_prep, xcvr_req, subst, stage_iii, arm, interrupt_req >>
      /\ UNCHANGED << queue, prep_strobe, late_strobe, err_dom, inj_pending, sf, sb >>
      /\ UNCHANGED data_vector_ready
  BY DEF coreVars, fsmVars, parserVars, dlcVars, bsVars, timerVars, busVars, txVars, muVars,
     ouVars
<1>2. TypeInv' /\ BusInv' /\ ChainInv' /\ AsleepInv' /\ (UnitInv => UnitInv')
      /\ (Plain' <=> Plain)
  BY TypesStutter, PartsStutter DEF WholeInv
<1>3. Hitting' = Hitting /\ Fi' = Fi /\ (Asked' <=> Asked)
  BY <1>1 DEF Hitting, Fi, Asked
<1>4. StillInv'
  BY <1>1 DEF WholeInv, StillInv, Receiver
<1>5. FreshInv'
  BY <1>1, <1>3 DEF WholeInv, FreshInv, Quiet
<1>6. CtrlInv'
  BY <1>1 DEF WholeInv, CtrlInv
<1>7. DlcInv'
  <2>1. (DlcShadow => DlcShadow')
    BY <1>1 DEF DlcShadow
  <2>2. DlcLeft' = DlcLeft /\ StuffAhead' = StuffAhead /\ FrameLeft' = FrameLeft
    BY <1>1 DEF DlcLeft, StuffAhead, FrameLeft
  <2>3. DlcInTime => DlcInTime'
    BY <1>1, <2>2 DEF DlcInTime
  <2> QED
    BY <1>1, <1>2, <2>1, <2>3 DEF WholeInv, DlcInv
<1>8. SenderInv => SenderInv'
  <2>1. /\ OverrideBit' <=> OverrideBit
        /\ PayloadBit' <=> PayloadBit
    BY <1>1 DEF OverrideBit, PayloadBit
  <2>2. Listening => Listening'
    BY <1>1, <2>1 DEF Listening
  <2>3. Claiming => Claiming'
    BY <1>1, <2>1 DEF Claiming
  <2>4. (Sending => Sending') /\ (Resting => Resting')
    BY <1>1 DEF Sending, Resting
  <2> QED
    BY <1>1, <1>2, <2>2, <2>3, <2>4 DEF SenderInv, Taken
<1> QED
  BY <1>1, <1>2, <1>4, <1>5, <1>6, <1>7, <1>8 DEF WholeInv, SideInv

\* WholeInv holds at every edge of the composed core for every table of slots but
\* those for payload: in one frame the unit flips a bit, in the next it sends the
\* DLC itself, and each finds it as if the other had never been.
THEOREM WholeInvariant ==
    ASSUME NoPayload
    PROVE  CoreSpec => []WholeInv
<1>1. WholeInv /\ [CoreNext]_coreVars => WholeInv'
  BY WholeStep, WholeStutter
<1> QED
  BY WholeStart, <1>1, PTL DEF CoreSpec

\* An injector that drives has a slot that asks for it, after the arbitration.
LEMMA DrivenArbitrated == WholeInv => NoStrayInjection
<1> SUFFICES ASSUME WholeInv, can_tx = 0 PROVE Arbitrated /\ Hitting /= {}
  BY DEF NoStrayInjection
<1>1. BusTypes /\ BusInv /\ ChainInv /\ awake = 1
  <2>1. awake \in Bit /\ awake /= 0
    BY DEF WholeInv, AsleepInv, TypeInv, LineTypes
  <2>2. awake = 1
    BY <2>1 DEF Bit
  <2> QED
    BY <2>2, EitherSide DEF WholeInv
<1>2. id_ready = 1 /\ Asked
  <2>1. CASE Plain
    BY <1>1, <2>1 DEF WholeInv, SideInv, UnitInv, Armed
  <2>2. CASE ~Plain
    BY <1>1, <2>2, TakenFrame
  <2> QED
    BY <2>1, <2>2
<1> QED
  BY <1>1, <1>2, IdentifierHeld, ArbitratedFields DEF Asked

\* An identifier not yet complete leaves all stages at rest.
LEMMA ReadyInArbitration == WholeInv => UnitReady
<1> SUFFICES ASSUME WholeInv, awake = 1, ~Arbitrated
    PROVE  /\ ou_state = "OU_AWAIT_FI" /\ queue = 1 /\ arm = 0 /\ bs_cnt = 0
           /\ << prep_strobe, xcvr_prep, late_strobe, bsfx_shift >> = << 0, 0, 0, 0 >>
           /\ << xcvr_req, xcvr_mode, interrupt_req, fi_parsed >> = << 0, 0, 0, 0 >>
  BY DEF UnitReady
<1>1. BusTypes /\ BusInv /\ ChainInv
  BY EitherSide DEF WholeInv
<1>2. id_ready = 0
  BY <1>1, IdentifierHeld, ArbitratedFields DEF BusTypes, TypeOK, ParserTypeOK, Bit
<1>3. ChainAt(0)
  BY <1>1, <1>2 DEF ChainInv, AgeOk
<1>4. ~(0 > MatchAge) /\ ~(0 = MatchAge + 1) /\ ~(0 >= TreeDepth + 2)
  BY Phases DEF MatchAge
<1>5. ou_state = "OU_AWAIT_FI" /\ << prep_strobe, bsfx_shift, bs_cnt >> = << 0, 0, 0 >>
      /\ queue = 1 /\ late_strobe = 0 /\ fi_parsed = 0
  BY <1>2, <1>3, <1>4 DEF ChainAt, OverrideAt
<1>6. Quiet /\ << xcvr_mode, arm, interrupt_req >> = << 0, 0, 0 >>
  BY <1>5 DEF WholeInv, FreshInv
<1> QED
  BY <1>5, <1>6 DEF Quiet

\* A core that falls asleep has followed the frame to the last but one bit of its
\* EOF, or has seen an error flag.
LEMMA SleepsAtEof ==
    WholeInv /\ [CoreNext]_coreVars =>
        (awake = 1 /\ awake' = 0 => mode /= "frame" \/ (field = "eof" /\ pos = 6))
<1> SUFFICES ASSUME WholeInv, [CoreNext]_coreVars, awake = 1, awake' = 0, mode = "frame"
             PROVE  field = "eof" /\ pos = 6
  OBVIOUS
<1>1. CoreNext
  BY DEF coreVars, timerVars
<1>2. BusTypes /\ BusInv /\ ChainInv /\ OuTypeOK /\ LineTypes
  BY EitherSide DEF WholeInv
<1>3. status.eof = 1
  BY <1>1, <1>2, TakenEdges DEF TakenEdge, BusEdge
<1>4. Framing /\ ~Entering /\ ~Receiving
  BY <1>2, <1>3 DEF BusInv, Entering, Starting, Clean, NoStatus, Receiving, Following
<1> QED
  BY <1>4 DEF Framing, Leaving
-----------------------------------------------------------------------------
(* The feedback of a frame that the unit sends *)

\* Pending falls with the first bit that is made dominant: until then a unit that
\* sends has it armed, over a recessive bit, or is about to give way.
PendingHits ==
    /\ hits > 0 => inj_pending = 0
    /\ hits = 0 => IF arm = 1 THEN sent = 1 /\ (phase > Psp \/ phase = 0)
                   ELSE inj_pending = 1
    /\ hits = 0 /\ ou_state \in Overrides /\ Sending => arm = 1 \/ err_dom = 1
DrivenInv ==
    awake = 1 /\ ~Plain => /\ target = "none"
                           /\ ou_state /= "OU_AWAIT_FI" => PendingHits

\* What an edge does to pending and to the count of the bits made dominant.
LEMMA PendingMoves ==
    ASSUME NEW in, TakenEdge(in), ~NewMatch(in), hits \in 0 .. 2
    PROVE  /\ inj_pending' = (IF arm = 1 THEN 0 ELSE inj_pending)
           /\ hits' = (IF phase = 0 /\ sent = 1 /\ can_tx = 0 /\ hits < 2 THEN hits + 1
                       ELSE hits)
           /\ hits' \in Nat /\ (hits > 0 => hits' > 0)
           /\ phase /= Boundary => sent' = sent
<1>1. in.sleep = 0 /\ OuStateMachine(in) /\ BusEdge /\ TimerEdge
  BY DEF TakenEdge, Wires, OuClock
<1>2. inj_pending' = (IF arm = 1 THEN 0 ELSE inj_pending)
  BY <1>1 DEF OuStateMachine, OuErrorFrame, OuDominant, OuHold, OuTransceive, OuSample,
     PendingAfterArm, NewMatch
<1>3. hits' = (IF phase = 0 /\ sent = 1 /\ can_tx = 0 /\ hits < 2 THEN hits + 1 ELSE hits)
  <2>1. can_tx \in {0, 1} /\ sent \in {0, 1}
    BY DEF TakenEdge, LineTypes, Bit
  <2>2. sent = 1 /\ can_tx = 0 <=> Overridden
    BY <2>1 DEF Overridden, Level
  <2>3. CASE phase = 0
    BY <1>1, <2>2, <2>3 DEF BusEdge, Sample
  <2>4. CASE phase /= 0
    BY <1>1, <2>4 DEF BusEdge
  <2> QED
    BY <2>3, <2>4
<1>4. phase /= Boundary => sent' = sent
  BY <1>1 DEF BusEdge, Sample
<1> QED
  BY <1>2, <1>3, <1>4

\* A unit that listens has made no bit dominant.
LEMMA PendingListens ==
    ASSUME BusTypes, BusInv, id_ready = 1, awake' = 1, NEW in, TakenEdge(in), Listening,
           ou_state \in Overrides, hits \in 0 .. 2, PendingHits
    PROVE  PendingHits'
<1> USE Phases
<1>1. ~NewMatch(in) /\ arm = 0 /\ can_tx = 1 /\ inj_pending = 1 /\ hits = 0
  BY DEF NewMatch, Overrides, Listening, PendingHits
<1>2. inj_pending' = 1 /\ hits' = 0
  BY <1>1, PendingMoves
<1>3. CASE ou_state' = "OU_DONE" /\ Resting'
  BY <1>2, <1>3 DEF PendingHits, Resting, Overrides
<1>4. CASE ou_state' = ou_state /\ Listening'
  BY <1>2, <1>4 DEF PendingHits, Listening, Sending
<1>5. CASE ou_state' = ou_state /\ Claiming'
  <2>1. ou_state' /= "OU_DONE" /\ stage_iii = 0 /\ queue = 1 /\ xcvr_mode = 0
    BY <1>5 DEF Overrides, Listening
  <2>2. arm' = 0
    BY <1>1, <2>1, ArmTaken DEF TakenEdge, OuClock
  <2> QED
    BY <1>2, <1>5, <2>2 DEF PendingHits, Claiming, Sending
<1> QED
  BY <1>3, <1>4, <1>5, ListeningStep

\* The claimed bit is recessive, or the unit gives way to it.
LEMMA PendingClaims ==
    ASSUME BusTypes, BusInv, id_ready = 1, awake' = 1, NEW in, TakenEdge(in), Claiming,
           ou_state \in Overrides, fip_strb = 1 => phase = Fip + 1,
           hits \in 0 .. 2, PendingHits
    PROVE  PendingHits'
<1> USE Phases
<1>1. /\ ~NewMatch(in) /\ phase \in 3 .. Fip /\ queue = 0 /\ xcvr_mode = 0 /\ stage_iii = 0
      /\ arm \in {0, 1} /\ err_dom \in {0, 1} /\ Level \in {0, 1} /\ sent \in {0, 1}
  BY DEF NewMatch, Overrides, Claiming, TakenEdge, OuTypeOK, LineTypes, Bit
<1>2. /\ inj_pending' = (IF arm = 1 THEN 0 ELSE inj_pending) /\ hits' = hits
      /\ phase /= Boundary => sent' = sent
  BY <1>1, PendingMoves
<1>3. ou_state' = ou_state /\ (Claiming' \/ Sending')
  BY ClaimingStep
<1>4. /\ phase = Psp => arm' = (IF Level = 1 THEN 1 ELSE 0)
      /\ phase /= Psp => arm' = arm /\ err_dom' = err_dom
  <2>1. ou_state' /= "OU_DONE"
    BY <1>3 DEF Overrides
  <2> QED
    BY <1>1, <2>1, ArmTaken DEF TakenEdge, OuClock
<1>5. phase <= Psp => arm = 0
  BY <1>1 DEF Claiming
<1>6. phase > Psp => arm = Not(err_dom)
  BY <1>1 DEF Claiming
<1>7. phase' = phase + 1
  <2>1. BusEdge /\ phase /= BitEdges - 1
    BY <1>1 DEF TakenEdge
  <2>2. phase' = (IF phase = BitEdges - 1 THEN 0 ELSE phase + 1)
    BY <2>1, <1>1, NextPhase DEF TakenEdge, BusTypes
  <2> QED
    BY <2>1, <2>2
<1>8. hits' > 0 => inj_pending' = 0
  BY <1>2 DEF PendingHits
<1>9. hits' = 0 => IF arm' = 1 THEN sent' = 1 /\ (phase' > Psp \/ phase' = 0)
                   ELSE inj_pending' = 1
  <2> SUFFICES ASSUME hits' = 0
               PROVE  IF arm' = 1 THEN sent' = 1 /\ (phase' > Psp \/ phase' = 0)
                      ELSE inj_pending' = 1
    OBVIOUS
  <2>1. hits = 0 /\ (arm = 0 => inj_pending = 1) /\ (arm = 1 => sent = 1)
    BY <1>1, <1>2 DEF PendingHits
  <2>2. CASE phase < Psp
    BY <1>1, <1>2, <1>4, <1>5, <2>1, <2>2
  <2>3. CASE phase = Psp
    <3>1. Level = 1 => sent = 1
      BY DEF Level
    <3> QED
      BY <1>1, <1>2, <1>4, <1>5, <1>7, <2>1, <2>3, <3>1
  <2>4. CASE phase > Psp
    BY <1>1, <1>2, <1>4, <1>7, <2>1, <2>4
  <2> QED
    BY <1>1, <2>2, <2>3, <2>4
<1>10. hits' = 0 /\ Sending' => arm' = 1 \/ err_dom' = 1
  <2>1. SUFFICES ASSUME Sending' PROVE arm' = 1 \/ err_dom' = 1
    OBVIOUS
  <2>2. phase = Fip
    <3>1. phase /= Fip => xcvr_mode' = 0
      BY <1>1 DEF TakenEdge, TimerEdge
    <3> QED
      BY <2>1, <3>1 DEF Sending
  <2> QED
    BY <1>1, <1>4, <1>6, <2>2 DEF Not
<1> QED
  BY <1>8, <1>9, <1>10 DEF PendingHits

\* A unit that sends holds its first bit until it is sampled.
LEMMA PendingSends ==
    ASSUME BusTypes, BusInv, id_ready = 1, awake' = 1, NEW in, TakenEdge(in), Sending,
           ou_state \in Overrides, fip_strb = 1 => phase = Fip + 1, EndsInTime,
           hits \in 0 .. 2, PendingHits
    PROVE  PendingHits'
<1> USE Phases
<1>1. /\ ~NewMatch(in) /\ phase \in 0 .. BitEdges - 1 /\ xcvr_mode = 1
      /\ arm \in {0, 1} /\ err_dom \in {0, 1} /\ queue \in {0, 1}
  BY DEF NewMatch, Overrides, Sending, TakenEdge, OuTypeOK, Bit
<1>2. /\ inj_pending' = (IF arm = 1 THEN 0 ELSE inj_pending)
      /\ hits' = (IF phase = 0 /\ sent = 1 /\ can_tx = 0 /\ hits < 2 THEN hits + 1 ELSE hits)
      /\ hits' \in Nat /\ (hits > 0 => hits' > 0)
      /\ phase /= Boundary => sent' = sent
  BY <1>1, PendingMoves
<1>3. CASE hits > 0
  BY <1>2, <1>3 DEF PendingHits
<1>4. CASE hits = 0 /\ arm = 1 /\ phase = 0
  <2>1. can_tx = 0
    BY <1>4 DEF Sending, Not
  <2>2. hits' = 1 /\ inj_pending' = 0
    BY <1>2, <1>4, <2>1 DEF PendingHits
  <2> QED
    BY <2>2 DEF PendingHits
<1>5. CASE hits = 0 /\ arm = 1 /\ phase /= 0
  <2>1. phase > Psp /\ sent = 1 /\ sent' = 1 /\ hits' = 0
    BY <1>1, <1>2, <1>5 DEF PendingHits
  <2>2. err_dom = 0 /\ queue = 0
    BY <1>1, <1>5, <2>1 DEF Sending, Not
  <2>3. phase /= 1 /\ phase /= 2
    BY <2>1
  <2>4. ~Broke /\ ~Yielded /\ ~SentOn /\ ~Looked(in)
    BY <1>5, <2>2, <2>3 DEF Broke, Yielded, SentOn, Looked, Sending
  <2>5. ou_state' = ou_state
    BY <2>4, TakenBranches DEF TakenEdge, OuClock, Waited
  <2>6. arm' = 1
    <3>1. stage_iii = 0 /\ ou_state' /= "OU_DONE"
      BY <2>3, <2>5 DEF Sending, Overrides
    <3> QED
      BY <1>1, <1>5, <3>1, ArmTaken DEF TakenEdge, OuClock
  <2>7. phase' > Psp \/ phase' = 0
    BY <1>1, <2>1, NextPhase DEF TakenEdge, BusTypes
  <2> QED
    BY <2>1, <2>6, <2>7 DEF PendingHits
<1>6. CASE hits = 0 /\ arm = 0
  <2>1. err_dom = 1 /\ inj_pending = 1
    BY <1>6 DEF PendingHits
  <2>2. phase = Fip + 1 /\ fip_strb = 1 /\ phase /= 0
    BY <2>1 DEF Sending
  <2>3. hits' = 0 /\ inj_pending' = 1
    BY <1>2, <1>6, <2>1, <2>2
  <2>4. ou_state' = "OU_DONE"
    BY <2>1, <2>2, TakenBranches
    DEF TakenEdge, OuClock, Broke, Yielded, SentOn, Looked, Waited
  <2>5. arm' = 0
    BY <1>1, <2>4, ArmTaken DEF TakenEdge, OuClock
  <2> QED
    BY <2>3, <2>4, <2>5 DEF PendingHits, Overrides
<1> QED
  BY <1>1, <1>3, <1>4, <1>5, <1>6

\* A unit that is done drives no more bit to its sample.
LEMMA PendingRests ==
    ASSUME NEW in, TakenEdge(in), Resting, ou_state = "OU_DONE", hits \in 0 .. 2, PendingHits
    PROVE  PendingHits' /\ arm' = 0
<1> USE Phases
<1>1. in.sleep = 0 /\ ~NewMatch(in) /\ arm = 0 /\ ~(phase = 0 /\ can_tx = 0)
      /\ prep_strobe /= 1 /\ xcvr_prep /= 1
  BY DEF TakenEdge, Wires, NewMatch, Resting
<1>2. inj_pending' = inj_pending /\ hits' = hits
  BY <1>1, PendingMoves
<1>3. ou_state' = "OU_DONE"
  BY <1>1, OuMoves DEF TakenEdge, OuClock
<1>4. arm' = 0
  BY <1>1, <1>3, ArmTaken DEF TakenEdge, OuClock
<1> QED
  BY <1>1, <1>2, <1>3, <1>4 DEF PendingHits, Overrides

\* A slot for a DLC has no target.
LEMMA NoTarget ==
    ASSUME TypeOK, NEW in, TakenEdge(in), Fi.type \in {"FI_DLC", "FI_DATA"}, target = "none"
    PROVE  target' = "none"
<1>1. CASE phase = Boundary
  <2>1. BitStart
    BY <1>1 DEF TakenEdge, BusEdge
  <2>2. ASSUME NEW bit PROVE ~Targeted(bit, seen)
    BY DEF Targeted, Counted
  <2> QED
    BY <2>1, <2>2 DEF BitStart, SendBit, NextSent, SendFlagBit, StaySilent, ReceiverFlags
<1>2. CASE phase /= Boundary
  BY <1>2 DEF TakenEdge, BusEdge
<1> QED
  BY <1>1, <1>2

\* Every edge of such a frame.
LEMMA DrivenStep ==
    ASSUME WholeInv, DrivenInv, ~Plain, awake = 1, awake' = 1, CoreNext
    PROVE  target' = "none" /\ (ou_state' /= "OU_AWAIT_FI" => PendingHits')
<1> USE Phases
<1>1. /\ BusTypes /\ BusInv /\ ChainInv /\ OuTypeOK /\ LineTypes /\ FreshInv /\ SenderInv
      /\ hits \in 0 .. 2 /\ UnitTypes
  BY EitherSide DEF WholeInv, SideInv, TypeInv, SenderTypes
<1>2. PICK in : TakenEdge(in)
  BY <1>1, TakenEdges
<1>3. /\ data_vector_ready = 1 /\ Asked /\ id_ready = 1
      /\ Fi.type \in {"FI_DLC", "FI_DATA"}
      /\ ou_state \in {"OU_AWAIT_FI", ActiveState(Fi.type), "OU_DONE"}
      /\ ou_state = "OU_AWAIT_FI" =>
                 /\ phase = MatchAge + 1 /\ fsm_state = "CTRL" /\ queue = 1
                 /\ prep_strobe = 0 /\ late_strobe = 0 /\ fi_parsed = 1
  BY <1>1, TakenFrame
<1>4. target' = "none"
  BY <1>1, <1>2, <1>3, NoTarget DEF DrivenInv, BusTypes
<1>6. CASE ou_state = "OU_AWAIT_FI"
  <2>1. ou_state' \in Overrides /\ Listening'
    BY <1>1, <1>2, <1>6, PickedUp
  <2>2. hits = 0 /\ phase /= 0
    <3>1. MatchAge \in Nat
      BY DEF MatchAge
    <3> QED
      BY <1>1, <1>3, <1>6, <3>1 DEF FreshInv
  <2>3. hits' = 0
    BY <1>2, <2>2 DEF TakenEdge, BusEdge
  <2> QED
    BY <1>4, <2>1, <2>3 DEF PendingHits, Listening, Sending
<1>7. CASE ou_state /= "OU_AWAIT_FI"
  <2>1. PendingHits
    BY <1>7 DEF DrivenInv
  <2>2. CASE ou_state = "OU_DONE" /\ Resting
    BY <1>1, <1>2, <1>4, <2>1, <2>2, PendingRests
  <2>3. CASE ou_state \in Overrides /\ Listening
    BY <1>1, <1>2, <1>3, <1>4, <2>1, <2>3, PendingListens
  <2>4. CASE ou_state \in Overrides /\ Claiming
    BY <1>1, <1>2, <1>3, <1>4, <2>1, <2>4, PendingClaims DEF SenderInv, Taken, Overrides
  <2>5. CASE ou_state \in Overrides /\ Sending
    <3>1. EndsInTime
      BY <1>1, <2>5, OverridesDlc, DlcInTimeEnds DEF WholeInv
    <3> QED
      BY <1>1, <1>2, <1>3, <1>4, <2>1, <2>5, <3>1, PendingSends DEF SenderInv, Taken, Overrides
  <2> QED
    BY <1>1, <1>7, <2>2, <2>3, <2>4, <2>5 DEF SenderInv, Taken
<1> QED
  BY <1>6, <1>7

\* A reset leaves nothing to report.
LEMMA FlagReset ==
    ASSUME FlagInv, ResetEdge
    PROVE  FlagInv'
<1>1. /\ awake' = 0 /\ UNCHANGED << target, mode, hits >> /\ OuReset
      /\ "ABIT" \in FsmStates /\ 0 \in Bit
  BY FsmStateNames DEF ResetEdge, busVars, Bit
<1>2. ~Current' /\ ~Reporting' /\ ~Active'
  BY <1>1 DEF Current, Reporting, Active, OuReset
<1>3. FlagTypes'
  BY <1>1 DEF FlagInv, FlagTypes, OuReset, NoErr
<1> QED
  BY <1>1, <1>2, <1>3 DEF FlagInv, PendInv, HuntInv, TargetInv, OutcomeInv, NoneInv

\* The unit's feedback is true to a frame, whether the unit flips a bit of it, sends
\* a part of it, or lets it pass.
ToldInv == BitTypes /\ IF awake = 1 /\ ~Plain THEN DrivenInv ELSE ExactInv /\ FlagInv

\* But for the frames that the unit sends itself it is a receiver.
LEMMA WholeReceives ==
    ASSUME WholeInv, IF awake = 1 THEN Plain ELSE phase >= 1
    PROVE  CoreInv
<1>1. BusTypes /\ awake \in {0, 1}
  BY DEF WholeInv, TypeInv, UnitTypes, LineTypes, BusTypes, Bit
<1>2. UnitInv
  BY <1>1 DEF WholeInv, SideInv, StillInv, UnitInv
<1> QED
  BY <1>1, <1>2 DEF WholeInv, CoreInv

\* The end of a frame that the unit has sent.
LEMMA ToldEnds ==
    ASSUME WholeInv, WholeInv', DrivenInv, ~Plain, awake = 1, awake' /= 1, CoreNext
    PROVE  FlagInv'
<1> USE Phases
<1>1. /\ BusTypes /\ BusInv /\ ChainInv /\ OuTypeOK /\ LineTypes /\ FreshInv /\ SenderInv
      /\ hits \in 0 .. 2 /\ UnitTypes
  BY EitherSide DEF WholeInv, SideInv, TypeInv, SenderTypes
<1>2. PICK in : TakenEdge(in)
  BY <1>1, TakenEdges
<1>3. phase = 1 /\ fsm_state = "SLEEP" /\ awake' = 0 /\ phase' = 0 /\ id_mem' = id_mem
  <2>1. status.eof = 1 /\ awake' = 0 /\ phase' = 0 /\ id_mem' = id_mem
    BY <1>2 DEF TakenEdge, BusEdge
  <2> QED
    BY <1>1, <2>1 DEF BusInv, Framing, Broken, Receiving, Following, Entering, Starting,
       Clean, Leaving, NoStatus, Done
<1>4. Fi.type \in {"FI_DLC", "FI_DATA"} /\ (ou_state = "OU_AWAIT_FI" => fsm_state = "CTRL")
  BY <1>1, TakenFrame
<1>5. ou_state = "OU_DONE" /\ Resting
  <2>1. ~Listening
    BY <1>3 DEF Listening
  <2>2. ~Claiming /\ ~Sending
    BY <1>2, <1>3 DEF Claiming, Sending, TakenEdge, BusEdge
  <2> QED
    BY <1>1, <1>3, <1>4, <2>1, <2>2 DEF SenderInv, Taken
<1>6. PendingHits' /\ arm' = 0 /\ target' = "none" /\ target = "none"
  BY <1>1, <1>2, <1>4, <1>5, PendingRests, NoTarget DEF DrivenInv, BusTypes
<1>7. ~NewMatch(in) /\ in.sleep = 0
  BY <1>2, <1>5 DEF NewMatch, TakenEdge, Wires
<1>8. interrupt_req' = 0 /\ hits' \in Nat
  BY <1>1, <1>2, <1>7, OuMoves, PendingMoves DEF TakenEdge, OuClock
<1>9. id' = id
  BY <1>2, <1>3 DEF TakenEdge, BusEdge, txVars
<1>10. Fi' = Fi
  BY <1>3, <1>9 DEF Fi, Hitting
<1>11. ~SingleBit'
  BY <1>4, <1>10 DEF SingleBit
<1>12. FlagTypes'
  BY <1>8 DEF FlagTypes, WholeInv, TypeInv, UnitTypes, OuTypeOK, SenderTypes
<1>13. PendInv'
  BY <1>3, <1>6, <1>8 DEF PendInv, PendingHits
<1>14. OutcomeInv' /\ NoneInv'
  BY <1>6, <1>11 DEF OutcomeInv, NoneInv
<1>15. HuntInv' /\ TargetInv'
  BY <1>3 DEF HuntInv, TargetInv, Current
<1> QED
  BY <1>3, <1>12, <1>13, <1>14, <1>15 DEF FlagInv

\* Every edge keeps it.
LEMMA ToldStep ==
    ASSUME WholeInv, WholeInv', ToldInv, CoreNext
    PROVE  ToldInv'
<1>1. BitTypes'
  BY BitTypesStep DEF WholeInv, ToldInv
<1>2. awake \in {0, 1} /\ ou_state \in OuStates /\ AsleepInv
  BY DEF WholeInv, TypeInv, UnitTypes, OuTypeOK, LineTypes, Bit
<1>3. CASE awake = 1 /\ Plain
  <2>1. CoreInv /\ ExactInv /\ FlagInv
    BY <1>3, WholeReceives DEF ToldInv
  <2>2. ExactInv' /\ FlagInv'
    BY <1>3, <2>1, ExactStep, FlagStep
  <2>3. ASSUME awake' = 1, ~Plain' PROVE DrivenInv'
    <3>1. Quiet
      BY <1>3 DEF WholeInv, SideInv, UnitInv, Receiver, Quiet
    <3>2. ou_state' = "OU_AWAIT_FI"
      BY <1>3, <2>3, <3>1, EitherSide, FoundFirst DEF WholeInv
    <3>3. Fi'.type \in {"FI_DLC", "FI_DATA"}
      BY <2>3 DEF Plain
    <3>4. Current' => FALSE
      <4>1. (\A n \in Targets : SingleBit)'
        BY SlotAsked, PTL
      <4>2. Current' => (Passed' \in Targets')
        BY <2>2 DEF FlagInv, TargetInv
      <4> QED
        BY <3>3, <4>1, <4>2 DEF SingleBit
    <3>5. target' = "none"
      BY <2>2, <2>3, <3>2, <3>4 DEF FlagInv, HuntInv
    <3> QED
      BY <3>2, <3>5 DEF DrivenInv
  <2> QED
    BY <1>1, <2>2, <2>3 DEF ToldInv
<1>4. CASE awake = 1 /\ ~Plain /\ awake' = 1
  <2>1. DrivenInv
    BY <1>4 DEF ToldInv
  <2>2. ~Plain'
    BY <1>4, EitherSide, StaysTaken DEF WholeInv
  <2>3. target' = "none" /\ (ou_state' /= "OU_AWAIT_FI" => PendingHits')
    BY <1>4, <2>1, DrivenStep
  <2> QED
    BY <1>1, <1>4, <2>2, <2>3 DEF ToldInv, DrivenInv
<1>5. CASE awake = 1 /\ ~Plain /\ awake' /= 1
  <2>1. FlagInv'
    BY <1>5, ToldEnds DEF ToldInv
  <2> QED
    BY <1>1, <1>5, <2>1 DEF ToldInv, ExactInv, HitInv
<1>6. CASE awake = 0
  <2>1. SleepEdge \/ WakeUp \/ ResetEdge
    BY <1>6 DEF CoreNext, FrameNext, Sample, BitStart, PreSample, FaultInjectionPoint,
       OtherEdge, Tick
  <2>2. ExactInv /\ FlagInv
    BY <1>6 DEF ToldInv
  <2>3. CASE WakeUp
    <3>1. CoreInv
      BY <1>6, <2>3, Phases, WholeReceives DEF WakeUp
    <3>2. ExactInv' /\ FlagInv'
      BY <2>2, <2>3, <3>1, ExactWakeUp, FlagWakeUp
    <3>3. Plain'
      <4>1. id_ready' = 0
        BY <2>3 DEF WakeUp, Units, Clock, ParserClock, ParserSleep, Asleep
      <4>2. awake' = 1
        BY <2>3 DEF WakeUp
      <4>3. ASSUME ~Plain' PROVE FALSE
        <5>1. (awake = 1 /\ ~Plain /\ WholeInv => id_ready = 1)'
          BY EitherSide, TakenFrame, PTL DEF WholeInv
        <5> QED
          BY <4>1, <4>2, <4>3, <5>1
      <4> QED
        BY <4>3
    <3> QED
      BY <1>1, <3>2, <3>3 DEF ToldInv
  <2>4. CASE SleepEdge
    <3>1. FlagInv' /\ awake' = 0
      BY <1>2, <1>6, <2>2, <2>4, FlagSleep DEF WholeInv, StillInv, SleepEdge, Overrides
    <3> QED
      BY <1>1, <3>1 DEF ToldInv, ExactInv, HitInv
  <2>5. CASE ResetEdge
    <3>1. FlagInv' /\ awake' = 0
      BY <1>6, <2>2, <2>5, FlagReset DEF ResetEdge
    <3> QED
      BY <1>1, <3>1 DEF ToldInv, ExactInv, HitInv
  <2> QED
    BY <2>1, <2>3, <2>4, <2>5
<1> QED
  BY <1>2, <1>3, <1>4, <1>5, <1>6

\* So does a stuttering step.
LEMMA ToldStutter ==
    ASSUME ToldInv, UNCHANGED coreVars
    PROVE  ToldInv'
<1>1. (Plain' <=> Plain)
  BY PartsStutter
<1>2. /\ UNCHANGED << awake, phase, can_tx, xcvr_mode, fip_strb, hits, target, sent >>
      /\ UNCHANGED << fsm_state, status, onbus, seen >>
      /\ UNCHANGED << ou_state, xcvr_prep, xcvr_req, subst, stage_iii, arm >>
      /\ UNCHANGED << queue, prep_strobe, late_strobe, err_dom, inj_pending >>
  BY DEF coreVars, fsmVars, parserVars, timerVars, busVars, txVars, ouVars
<1>3. BitTypes'
  BY <1>2 DEF ToldInv, BitTypes
<1>4. DrivenInv => DrivenInv'
  <2>1. Sending' <=> Sending
    BY <1>2 DEF Sending
  <2> QED
    BY <1>1, <1>2, <2>1 DEF DrivenInv, PendingHits
<1> QED
  BY <1>1, <1>2, <1>3, <1>4, ExactStutter, FlagStutter DEF ToldInv

\* The driven bit is the target.
LEMMA TargetDriven == WholeInv /\ ToldInv => SingleBitExact
<1> SUFFICES ASSUME WholeInv, ToldInv, SingleBit, can_tx = 0, AtSample, Unflagged
             PROVE  onbus.hot /\ target = "recessive" /\ hits = 0
  BY DEF SingleBitExact
<1>1. awake = 1 /\ Plain
  BY DEF AtSample, SingleBit, Plain
<1>2. CoreInv /\ ExactInv
  BY <1>1, WholeReceives DEF ToldInv
<1> QED
  BY <1>2, DrivenTarget DEF SingleBitExact

\* A report is read between two frames, when nothing is armed any more.
LEMMA ReportTruthful == NoPayload /\ WholeInv /\ ToldInv => FeedbackTruthful
<1> SUFFICES ASSUME NoPayload, WholeInv, ToldInv, interrupt_req = 1, Hitting /= {}
             PROVE  /\ inj_pending = 0 <=> hits > 0
                    /\ SingleBit =>
                        /\ target = "recessive" => hits = 1 /\ err_dom = 0 /\ err.miss = 0
                        /\ target = "dominant" => hits = 0 /\ err_dom = 1 /\ err.miss = 0
                        /\ target = "none" /\ mode = "silent" =>
                              hits = 0 /\ err_dom = 0 /\ err.miss = 1 /\ err.fsm = 0
                    /\ Fi.type /= "FI_DATA"
  BY DEF FeedbackTruthful
<1>1. Asked /\ BusTypes /\ awake \in {0, 1} /\ AsleepInv
  BY DEF WholeInv, TypeInv, UnitTypes, LineTypes, BusTypes, AsleepInv, Asked, Bit
<1>2. awake = 0
  <2>1. ASSUME awake = 1, Plain PROVE FALSE
    BY <2>1 DEF WholeInv, SideInv, UnitInv, Strobed
  <2>2. ASSUME awake = 1, ~Plain PROVE FALSE
    BY <2>2 DEF WholeInv, FreshInv, SideInv, SenderInv, Taken
  <2> QED
    BY <1>1, <2>1, <2>2
<1>3. arm = 0 /\ FlagInv
  BY <1>1, <1>2 DEF AsleepInv, ToldInv
<1>4. Reporting /\ ~Current /\ ~Active
  BY <1>1, <1>2, <1>3 DEF Reporting, Current, Active, FlagInv, FlagTypes
<1>5. inj_pending = 0 <=> hits > 0
  BY <1>3, <1>4 DEF FlagInv, PendInv
<1>6. /\ target = "recessive" => hits = 1 /\ err_dom = 0 /\ err.miss = 0
      /\ target = "dominant" => hits = 0 /\ err_dom = 1 /\ err.miss = 0
  BY <1>3, <1>4 DEF FlagInv, OutcomeInv
<1>7. SingleBit /\ target = "none" /\ mode = "silent" =>
        hits = 0 /\ err_dom = 0 /\ err.miss = 1 /\ err.fsm = 0
  BY <1>3, <1>4 DEF FlagInv, NoneInv, Unflagged
<1>8. Fi.type /= "FI_DATA"
  BY <1>1, SlotOfFrame DEF NoPayload, BusTypes
<1> QED
  BY <1>5, <1>6, <1>7, <1>8

\* ToldInv holds at every edge as well.
LEMMA ToldAlways == ASSUME NoPayload PROVE CoreSpec => [](WholeInv /\ ToldInv)
<1>1. CoreInit => WholeInv /\ ToldInv
  <2>1. CoreInit => awake = 0
    BY DEF CoreInit
  <2> QED
    BY <2>1, WholeStart, ExactInit, FlagInit DEF ToldInv, ExactInv
<1>2. WholeInv /\ ToldInv /\ [CoreNext]_coreVars => (WholeInv /\ ToldInv)'
  BY WholeStep, WholeStutter, ToldStep, ToldStutter
<1> QED
  BY <1>1, <1>2, PTL DEF CoreSpec
-----------------------------------------------------------------------------
(* The DLC on the bus *)

\* The shadow of the destuffer holds what the destuffer does; it has taken the bit b
\* that the destuffer has yet to take.
Alike ==
    /\ sb.state = bs_state /\ sb.insert = bs_insert /\ sb.crc_cnt = bs_crc_cnt
    /\ sb.last = bs_last /\ sb.run = bs_run
TakesIn(b) == StuffsTo(bs_state, bs_crc_cnt, bs_last, bs_run, b, 0, 0, sb)

\* In the DLC: the unit's count is that of the bit behind the one on the bus, or of
\* the bit on the bus once it has been read.
InDlc ==
    /\ IF phase = 1 \/ bs_insert = 1 THEN sf.state = "CTRL" /\ sf.cnt = fsm_cnt
       ELSE IF fsm_cnt = 7 THEN sf.state = "CRC" /\ sf.cnt = 0
       ELSE sf.state = "CTRL" /\ sf.cnt = fsm_cnt + 1
    /\ IF phase = 2 \/ (phase = 3 /\ subst = 1) THEN Alike
       ELSE TakesIn(IF phase = 1 THEN sample_buf ELSE queue)

\* Behind it: its last stuff bit, if there is one, and a recessive bit.
PastDlc ==
    /\ fsm_state \in {"DATA", "CRC_STF", "CRC"} /\ fsm_cnt = 0 /\ sf.state = "CRC"
    /\ phase = 1 =>
          /\ sf.cnt = 0
          /\ bs_insert = 0 => /\ bs_state = "MONITOR" /\ TakesIn(sample_buf)
                              /\ fsm_state /= "DATA" => sample_buf = 0
          /\ bs_insert = 1 => sb.insert = 0
    /\ phase /= 1 =>
          IF sf.cnt = 0 THEN bs_insert = 1 /\ sb.insert = (IF phase = 2 THEN 1 ELSE 0)
          ELSE queue = 1

\* A bit that the destuffer takes for a stuff bit is one.
InTune ==
    /\ phase = 1 => destuff_strobe = 1
    /\ phase /= 1 /\ bs_insert = 1 => queue = Not(bs_last)
    /\ IF fsm_state = "CTRL" THEN InDlc ELSE PastDlc
Dynamic == sf.crc_mode = 0 /\ sf.disable = 0

\* What a destuffer makes of a bit is determined.
LEMMA StuffsSame ==
    ASSUME NEW st \in {"MONITOR", "INSERT"}, NEW cnt, NEW lst, NEW rn, NEW b,
           NEW r, NEW s, StuffsTo(st, cnt, lst, rn, b, 0, 0, r),
           StuffsTo(st, cnt, lst, rn, b, 0, 0, s)
    PROVE  /\ s.state = r.state /\ s.insert = r.insert /\ s.crc_cnt = r.crc_cnt
           /\ s.last = r.last /\ s.run = r.run
BY DEF StuffsTo

\* The destuffer, like its shadow.
LEMMA DestuffsTo ==
    ASSUME TypeOK, NEW s, Clock(0, s, 0), destuff_strobe = 1, bs_state \in {"MONITOR", "INSERT"},
           bs_crc_mode = 0, bs_disable = 0, NEW r,
           r.state = bs_state', r.insert = bs_insert', r.crc_cnt = bs_crc_cnt',
           r.last = bs_last', r.run = bs_run'
    PROVE  StuffsTo(bs_state, bs_crc_cnt, bs_last, bs_run, sample_buf, 0, 0, r)
<1>1. DestuffMonitor \/ DestuffInsert
  BY DEF Clock, DestuffClock, DestuffSleep, StuffError, DestuffCrc, DestuffCrcInsert,
     DestuffDisable, DestuffStuck
<1>2. CASE DestuffMonitor
  BY <1>2 DEF DestuffMonitor, BsShiftIn, FiveEqual, StuffsTo
<1>3. CASE DestuffInsert
  BY <1>3 DEF DestuffInsert, BsShiftIn, StuffsTo
<1> QED
  BY <1>1, <1>2, <1>3

\* It rests without a strobe.
LEMMA DestuffRests ==
    ASSUME NEW s, Clock(0, s, 0), destuff_strobe = 0, bs_state /= "SLEEP"
    PROVE  UNCHANGED << bs_state, bs_insert, bs_crc_cnt, bs_last, bs_run >>
BY DEF Clock, DestuffClock, DestuffSleep, StuffError, bsVars

\* Its state in the frame's fields up to the CRC.
LEMMA DestuffsFrame ==
    ASSUME BusTypes, BusInv, awake = 1, id_ready = 1,
           fsm_state \in {"CTRL", "DATA", "CRC_STF", "CRC"}
    PROVE  /\ InStep /\ bs_state /= "SLEEP" /\ bs_insert \in {0, 1}
           /\ phase /= 1 => destuff_strobe = 0
           /\ bs_insert = 1 <=> bs_state \in {"INSERT", "CRC_INSERT"}
           /\ fsm_state = "CTRL" => /\ bs_state \in {"MONITOR", "INSERT"}
                                    /\ bs_crc_mode = 0 /\ bs_disable = 0
<1>1. Following /\ (phase /= 1 => destuff_strobe = 0)
  BY Followed DEF Done
<1>2. InStep /\ fd_mode \in {0, 1} /\ bs_insert \in {0, 1}
  BY <1>1 DEF Following, BusTypes, TypeOK, ParserTypeOK, DestuffTypeOK, Bit
<1> QED
  BY <1>1, <1>2 DEF InStep

\* The unit starts with a bit of the DLC that it has just prepared.
LEMMA TuneStarts ==
    ASSUME BusTypes, BusInv, CtrlInv, OuTypeOK, id_ready = 1, awake = 1, awake' = 1,
           NEW in, TakenEdge(in), Listening, ou_state = "OU_DLC", xcvr_req' = 1
    PROVE  Dynamic' /\ InTune'
<1> USE Phases
<1>1. in.sleep = 0 /\ BusEdge /\ xcvr_prep /= 1 /\ prep_strobe \in {0, 1} /\ xcvr_req = 0
      /\ stage_iii = 0 /\ subst = 0 /\ OuClock(in)
  BY DEF TakenEdge, Wires, Listening, OuTypeOK, Bit
<1>2. prep_strobe = 1
  <2>1. prep_strobe = 1 \/ xcvr_req' = xcvr_req
    BY <1>1, PrepRests DEF OuClock
  <2> QED
    BY <1>1, <2>1
<1>3. phase = 2 /\ fsm_state = "CTRL" /\ fsm_cnt > 3 /\ fsm_cnt \in 4 .. 7
  BY <1>2 DEF Listening, OverrideBit, CtrlInv
<1>4. phase' = 3 /\ fsm_state' = "CTRL" /\ fsm_cnt' = fsm_cnt
  BY <1>1, <1>3, NextPhase, FollowedBetween DEF BusTypes
<1>5. PrepDlc
  <2>1. PrepStuffBit \/ PrepDlc
    BY <1>1, <1>2 DEF OuClock, PrepOverride, PrepBit, PrepStuff, PrepData
  <2> QED
    BY <1>1, <2>1 DEF PrepStuffBit
<1>6. /\ bs_insert = 0 /\ bs_crc_mode = 0
      /\ UNCHANGED << bs_state, bs_insert, bs_crc_cnt, bs_last, bs_run >>
  <2>1. bs_crc_mode = 0 /\ bs_state /= "SLEEP" /\ destuff_strobe = 0
    BY <1>3, DestuffsFrame
  <2>2. Clock(0, Level, 0)
    BY <1>1, <1>3 DEF BusEdge
  <2> QED
    BY <1>5, <2>1, <2>2, DestuffRests DEF PrepDlc
<1>7. Alike' /\ subst' = 1
  <2>1. sb' = [state |-> bs_state, crc_cnt |-> bs_crc_cnt, last |-> bs_last,
               run |-> bs_run, insert |-> bs_insert]
    BY <1>1, <1>2 DEF OuClock, ShadowStuffer, CopiedSb
  <2>2. subst' = 1
    BY <1>5 DEF PrepDlc, Override
  <2> QED
    BY <1>6, <2>1, <2>2 DEF Alike
<1>8. SyncedSf \in SfTypes /\ SyncedSf.state = "CTRL" /\ SyncedSf.crc_mode = 0
      /\ SyncedSf.disable = 0
  BY <1>2, <1>3, <1>6, ShadowTypes DEF SyncedSf, BusTypes
<1>9. /\ sf'.crc_mode = 0 /\ sf'.disable = 0
      /\ IF fsm_cnt = 7 THEN sf'.state = "CRC" /\ sf'.cnt = 0
         ELSE sf'.state = "CTRL" /\ sf'.cnt = fsm_cnt + 1
  <2>1. CASE fsm_cnt = 7
    <3>1. sf' = [SyncedSf EXCEPT !.state = "CRC", !.cnt = 0]
      BY <1>5, <2>1 DEF PrepDlc
    <3> QED
      BY <1>8, <2>1, <3>1, ShadowFields
  <2>2. CASE fsm_cnt /= 7
    <3>1. sf' = [SyncedSf EXCEPT !.cnt = fsm_cnt + 1]
      BY <1>5, <2>2 DEF PrepDlc
    <3> QED
      BY <1>8, <2>2, <3>1, ShadowFields
  <2> QED
    BY <2>1, <2>2
<1>10. InDlc'
  BY <1>4, <1>6, <1>7, <1>9 DEF InDlc
<1> QED
  BY <1>4, <1>6, <1>9, <1>10 DEF Dynamic, InTune

\* A claimed bit up to its FIP.
LEMMA TuneClaims ==
    ASSUME BusTypes, BusInv, OuTypeOK, id_ready = 1, awake = 1, awake' = 1,
           NEW in, TakenEdge(in), Claiming, ou_state = "OU_DLC", Dynamic
    PROVE  Dynamic' /\ (InTune => InTune')
<1> USE Phases
<1>1. /\ in.sleep = 0 /\ BusEdge /\ xcvr_prep /= 1 /\ prep_strobe /= 1 /\ OuClock(in)
      /\ stage_iii = 0 /\ subst = (IF phase = 3 THEN 1 ELSE 0) /\ phase \in 3 .. Fip
      /\ phase /= 0 /\ phase /= 1 /\ phase /= 2 /\ fsm_state = "CTRL"
  BY DEF TakenEdge, Wires, Claiming, OverrideBit
<1>2. phase' = phase + 1 /\ UNCHANGED << fsm_state, fsm_cnt, sample_buf >>
  BY <1>1, FollowedBetween
<1>3. sf' = sf /\ sb' = (IF phase = 3 THEN SbNext ELSE sb)
  BY <1>1, ShadowsRest
<1>4. queue' = queue /\ subst' = 0
  BY <1>1, PrepRests DEF OuClock
<1>5. UNCHANGED << bs_state, bs_insert, bs_crc_cnt, bs_last, bs_run >>
  <2>1. bs_state /= "SLEEP" /\ destuff_strobe = 0
    BY <1>1, DestuffsFrame
  <2>2. Clock(0, Level, 0)
    BY <1>1 DEF BusEdge
  <2> QED
    BY <2>1, <2>2, DestuffRests
<1>6. phase' /= 1 /\ phase' /= 2 /\ phase' /= 3
  BY <1>1, <1>2
<1>7. ASSUME InTune PROVE InTune'
  <2>1. InDlc
    BY <1>1, <1>7 DEF InTune
  <2>2. TakesIn(queue)'
    <3>1. CASE phase = 3
      <4>1. Alike
        BY <1>1, <2>1, <3>1 DEF InDlc
      <4>2. StuffsTo(sb.state, sb.crc_cnt, sb.last, sb.run, queue, 0, 0, SbNext)
        BY <1>1, ShadowStuffs DEF Dynamic
      <4>3. StuffsTo(bs_state, bs_crc_cnt, bs_last, bs_run, queue, 0, 0, sb')
        BY <1>3, <3>1, <4>1, <4>2 DEF Alike
      <4> QED
        BY <1>4, <1>5, <4>3 DEF TakesIn, StuffsTo
    <3>2. CASE phase /= 3
      <4>1. TakesIn(queue) /\ sb' = sb
        BY <1>1, <1>3, <2>1, <3>2 DEF InDlc
      <4> QED
        BY <1>4, <1>5, <4>1 DEF TakesIn, StuffsTo
    <3> QED
      BY <3>1, <3>2
  <2>3. InDlc'
    BY <1>1, <1>2, <1>3, <1>5, <1>6, <2>1, <2>2 DEF InDlc
  <2> QED
    BY <1>1, <1>2, <1>4, <1>5, <1>6, <1>7, <2>3 DEF InTune
<1> QED
  BY <1>3, <1>7 DEF Dynamic

\* Stuff bit or bit of the DLC: the parser reads what the unit sends.
LEMMA TuneReads ==
    ASSUME BusTypes, BusInv, id_ready = 1, awake = 1, fsm_state \in {"CTRL", "DATA", "CRC_STF", "CRC"},
           fsm_state = "CTRL" => fsm_cnt \in 4 .. 7, bs_insert = 0 => fsm_state = "CTRL",
           NEW b \in {0, 1}, Clock(1, b, 0), phase = 0, bs_insert = 1 => b = Not(bs_last)
    PROVE  /\ UNCHANGED << bs_state, bs_insert, bs_crc_cnt, bs_last, bs_run >>
           /\ destuff_strobe' = 1 /\ sample_buf' = b
           /\ bs_insert = 1 => fsm_state' = fsm_state /\ fsm_cnt' = fsm_cnt
           /\ bs_insert = 0 /\ fsm_cnt /= 7 => fsm_state' = "CTRL" /\ fsm_cnt' = fsm_cnt + 1
           /\ bs_insert = 0 /\ fsm_cnt = 7 =>
                 /\ fsm_state' \in {"DATA", "CRC_STF", "CRC"} /\ fsm_cnt' = 0
                 /\ fsm_state' /= "DATA" => b = 0
<1>1. /\ bs_state /= "SLEEP" /\ bs_insert \in {0, 1}
      /\ bs_insert = 1 <=> bs_state \in {"INSERT", "CRC_INSERT"}
      /\ bs_last \in {0, 1} /\ dlc_buffer \in 0 .. 15
  BY DestuffsFrame DEF BusTypes, TypeOK, ParserTypeOK, DestuffTypeOK, Bit
<1>2. ~StuffError(1, b)
  BY <1>1 DEF StuffError, Not
<1>3. UNCHANGED << bs_state, bs_insert, bs_crc_cnt, bs_last, bs_run >>
  <2>1. destuff_strobe = 0
    BY DestuffsFrame, Phases
  <2> QED
    BY <1>1, <1>2, <2>1 DEF Clock, DestuffClock, DestuffSleep, bsVars
<1>4. SkipStuffBit(b) \/ ParseBit(b)
  BY <1>2 DEF Clock, ParserClock, ParserSleep, Asleep, ParserStuffError
<1>5. CASE bs_insert = 1
  <2>1. SkipStuffBit(b)
    BY <1>4, <1>5 DEF ParseBit
  <2> QED
    BY <1>3, <1>5, <2>1 DEF SkipStuffBit, TakeSample
<1>6. CASE bs_insert = 0
  <2>1. ParseBit(b) /\ fsm_state = "CTRL" /\ fsm_cnt \in 4 .. 7
    BY <1>4, <1>6 DEF SkipStuffBit
  <2>2. destuff_strobe' = 1 /\ sample_buf' = b
    BY <2>1 DEF ParseBit, TakeSample
  <2>3. DlcBit(b) \/ LastDlcBit(b)
    BY <2>1 DEF ParseBit, ArbitrationBit, ArbitrationEnd, FdfBit, ReservedBit, BrsOrEsiBit,
       DataBit, StuffCountBit, CrcBit, TailBit, LastTailBit, ErrorFlagBit, AwaitEofBit
  <2>4. CASE DlcBit(b)
    BY <1>3, <1>6, <2>1, <2>2, <2>4 DEF DlcBit, GoTo
  <2>5. CASE LastDlcBit(b)
    <3>1. ShiftDlc(b) = 0 => b = 0
      BY <1>1 DEF ShiftDlc
    <3> QED
      BY <1>3, <1>6, <2>1, <2>2, <2>5, <3>1 DEF LastDlcBit, EnterCrc, GoTo
  <2> QED
    BY <2>3, <2>4, <2>5
<1> QED
  BY <1>1, <1>5, <1>6

\* The sample of a bit that the unit sends, as long as nobody else drives.
LEMMA TuneSampled ==
    ASSUME BusTypes, BusInv, OuTypeOK, id_ready = 1, awake = 1, awake' = 1,
           NEW in, TakenEdge(in), Sending, ou_state = "OU_DLC", DlcShadow, Dynamic, InTune,
           phase = 0, ~OverrideSent, sent = 1
    PROVE  Dynamic' /\ InTune'
<1> USE Phases
<1>1. /\ in.sleep = 0 /\ BusEdge /\ xcvr_prep /= 1 /\ prep_strobe /= 1 /\ OuClock(in)
      /\ stage_iii = 0 /\ subst = 0 /\ ou_state \in Overrides /\ queue \in {0, 1}
  BY DEF TakenEdge, Wires, Sending, Overrides, OuTypeOK, Bit
<1>2. phase' = 1 /\ Clock(1, Level, 0)
  BY <1>1, NextPhase DEF BusTypes, BusEdge
<1>3. sf' = sf /\ sb' = sb
  BY <1>1, ShadowsRest
<1>4. Level = queue
  <2>1. err_dom = 0
    BY DEF Sending, OuTypeOK, Bit
  <2>2. can_tx = Not(arm) /\ arm = Not(queue)
    BY <2>1 DEF Sending
  <2> QED
    BY <1>1, <2>2 DEF Level, Not
<1>5. /\ fsm_state \in {"CTRL", "DATA", "CRC_STF", "CRC"}
      /\ fsm_state = "CTRL" => fsm_cnt \in 4 .. 7
      /\ bs_insert = 1 => queue = Not(bs_last)
  BY DEF InTune, PastDlc, DlcShadow
<1>6. bs_insert \in {0, 1}
  BY <1>5, DestuffsFrame
<1>7. fsm_state /= "CTRL" => sf.cnt = 0 /\ bs_insert = 1 /\ fsm_cnt = 0 /\ sf.state = "CRC"
                            /\ sb.insert = 0
  <2>1. ASSUME fsm_state /= "CTRL" PROVE sf.cnt = 0
    <3>1. sf.state = "CRC" /\ sf.cnt \in 0 .. 1
      BY <2>1 DEF InTune, PastDlc, DlcShadow
    <3>2. After(sf.state, "CTRL")
      BY <3>1, AfterStates, FsmStateNames
    <3> QED
      BY <3>1, <3>2 DEF OverrideSent
  <2> QED
    BY <2>1 DEF InTune, PastDlc
<1>8. /\ UNCHANGED << bs_state, bs_insert, bs_crc_cnt, bs_last, bs_run >>
      /\ destuff_strobe' = 1 /\ sample_buf' = queue
      /\ bs_insert = 1 => fsm_state' = fsm_state /\ fsm_cnt' = fsm_cnt
      /\ bs_insert = 0 /\ fsm_cnt /= 7 => fsm_state' = "CTRL" /\ fsm_cnt' = fsm_cnt + 1
      /\ bs_insert = 0 /\ fsm_cnt = 7 =>
            /\ fsm_state' \in {"DATA", "CRC_STF", "CRC"} /\ fsm_cnt' = 0
            /\ fsm_state' /= "DATA" => queue = 0
  BY <1>1, <1>2, <1>4, <1>5, <1>6, <1>7, TuneReads
<1>9. fsm_state = "CTRL" =>
         /\ StuffsTo(bs_state', bs_crc_cnt', bs_last', bs_run', sample_buf', 0, 0, sb')
         /\ bs_insert = 0 => bs_state = "MONITOR"
  <2>1. fsm_state = "CTRL" => TakesIn(queue)
    BY <1>1 DEF InTune, InDlc
  <2>2. fsm_state = "CTRL" /\ bs_insert = 0 => bs_state = "MONITOR"
    BY DestuffsFrame
  <2> QED
    BY <1>3, <1>8, <2>1, <2>2 DEF TakesIn
<1>10. CASE fsm_state = "CTRL" /\ bs_insert = 1
  <2>1. InDlc'
    BY <1>2, <1>3, <1>8, <1>9, <1>10 DEF InTune, InDlc, TakesIn
  <2> QED
    BY <1>2, <1>3, <1>8, <1>10, <2>1 DEF InTune, Dynamic
<1>11. CASE fsm_state = "CTRL" /\ bs_insert = 0 /\ fsm_cnt /= 7
  <2>1. InDlc'
    BY <1>2, <1>3, <1>8, <1>9, <1>11 DEF InTune, InDlc, TakesIn
  <2> QED
    BY <1>2, <1>3, <1>8, <1>11, <2>1 DEF InTune, Dynamic
<1>12. CASE fsm_state = "CTRL" /\ bs_insert = 0 /\ fsm_cnt = 7
  <2>1. PastDlc'
    BY <1>2, <1>3, <1>8, <1>9, <1>12 DEF InTune, InDlc, PastDlc, TakesIn
  <2> QED
    BY <1>2, <1>3, <1>8, <1>12, <2>1 DEF InTune, Dynamic
<1>13. CASE fsm_state /= "CTRL"
  <2>1. PastDlc'
    BY <1>2, <1>3, <1>5, <1>7, <1>8, <1>13 DEF PastDlc
  <2> QED
    BY <1>2, <1>3, <1>7, <1>8, <1>13, <2>1 DEF InTune, Dynamic
<1> QED
  BY <1>6, <1>10, <1>11, <1>12, <1>13

\* The edge at which the next bit is prepared, and the destuffer takes the last one.
LEMMA TunePrepared ==
    ASSUME BusTypes, BusInv, OuTypeOK, id_ready = 1, awake = 1, awake' = 1,
           NEW in, TakenEdge(in), Sending, ou_state = "OU_DLC", DlcShadow, Dynamic,
           phase = 1
    PROVE  Dynamic' /\ (InTune => InTune')
<1> USE Phases
<1>1. /\ in.sleep = 0 /\ BusEdge /\ xcvr_prep = 1 /\ prep_strobe = 0 /\ OuClock(in)
      /\ stage_iii = 0 /\ subst = 0 /\ Clock(0, Level, 0)
  BY DEF TakenEdge, Wires, Sending, BusEdge
<1>2. phase' = 2 /\ UNCHANGED << fsm_state, fsm_cnt, sample_buf >>
  BY <1>1, FollowedBetween
<1>3. sb' = sb /\ sb.insert \in {0, 1}
  BY <1>1, ShadowsRest DEF OuTypeOK, Bit
<1>4. XcvrStuffBit \/ XcvrDlc
  BY <1>1 DEF OuClock, PrepOverride, XcvrData, XcvrOther
<1>5. SyncedSf = sf /\ sf \in SfTypes
  BY <1>1, ShadowTypes DEF SyncedSf, BusTypes
<1>6. /\ sf'.crc_mode = 0 /\ sf'.disable = 0
      /\ sb.insert = 1 => sf' = sf /\ queue' = Not(sb.last)
      /\ sb.insert = 0 =>
            /\ queue' = (IF sf.cnt /= 7 /\ sf.state = "CRC" THEN 1 ELSE DlcTop)
            /\ IF sf.cnt = 7 THEN sf'.state = "CRC" /\ sf'.cnt = 0
               ELSE sf'.state = sf.state /\ sf'.cnt = sf.cnt + 1
  <2>1. CASE sb.insert = 1
    BY <1>3, <1>4, <1>5, <2>1 DEF XcvrStuffBit, XcvrDlc, Dynamic
  <2>2. CASE sb.insert = 0
    <3>1. XcvrDlc
      BY <1>3, <1>4, <2>2 DEF XcvrStuffBit
    <3>2. CASE sf.cnt = 7
      BY <1>5, <2>2, <3>1, <3>2, ShadowFields DEF XcvrDlc, Dynamic
    <3>3. CASE sf.cnt /= 7
      BY <1>5, <2>2, <3>1, <3>3, ShadowFields DEF XcvrDlc, Dynamic
    <3> QED
      BY <3>2, <3>3
  <2> QED
    BY <1>3, <2>1, <2>2
<1>7. ASSUME InTune PROVE InTune'
  <2>1. destuff_strobe = 1 /\ TypeOK /\ fsm_state \in {"CTRL", "DATA", "CRC_STF", "CRC"}
    BY <1>7 DEF InTune, PastDlc, BusTypes
  <2>2. /\ InStep /\ bs_insert \in {0, 1}
        /\ bs_insert = 1 <=> bs_state \in {"INSERT", "CRC_INSERT"}
        /\ fsm_state = "CTRL" => /\ bs_state \in {"MONITOR", "INSERT"}
                                 /\ bs_crc_mode = 0 /\ bs_disable = 0
    BY <2>1, DestuffsFrame
  <2> DEFINE r == [state |-> bs_state', insert |-> bs_insert', crc_cnt |-> bs_crc_cnt',
                   last |-> bs_last', run |-> bs_run']
  <2>3. ASSUME bs_state \in {"MONITOR", "INSERT"}, bs_crc_mode = 0, bs_disable = 0,
               TakesIn(sample_buf)
        PROVE  Alike'
    <3>1. StuffsTo(bs_state, bs_crc_cnt, bs_last, bs_run, sample_buf, 0, 0, r)
      BY <1>1, <2>1, <2>3, DestuffsTo
    <3>2. /\ sb.state = r.state /\ sb.insert = r.insert /\ sb.crc_cnt = r.crc_cnt
          /\ sb.last = r.last /\ sb.run = r.run
      BY <2>3, <3>1, StuffsSame DEF TakesIn
    <3> QED
      BY <1>3, <3>2 DEF Alike
  <2>4. CASE fsm_state = "CTRL"
    <3>1. /\ TakesIn(sample_buf) /\ sf.state = "CTRL" /\ sf.cnt = fsm_cnt /\ fsm_cnt \in 4 .. 7
      BY <1>7, <2>4 DEF InTune, InDlc, DlcShadow
    <3>2. Alike'
      BY <2>2, <2>3, <2>4, <3>1
    <3>3. bs_insert' = sb.insert /\ bs_last' = sb.last
      BY <1>3, <3>2 DEF Alike
    <3>4. InDlc'
      BY <1>2, <1>3, <1>6, <3>1, <3>2, <3>3 DEF InDlc
    <3> QED
      BY <1>2, <1>6, <2>4, <3>3, <3>4 DEF InTune
  <2>5. CASE fsm_state /= "CTRL" /\ bs_insert = 1
    <3>1. sf.cnt = 0 /\ sf.state = "CRC" /\ sb.insert = 0 /\ fsm_cnt = 0
      BY <1>7, <2>5 DEF InTune, PastDlc
    <3>2. bs_insert' = 0
      <4>1. DestuffInsert \/ DestuffCrcInsert
        BY <1>1, <2>1, <2>2, <2>5 DEF Clock, DestuffClock, DestuffSleep, StuffError,
           DestuffMonitor, DestuffCrc, DestuffDisable, DestuffStuck
      <4> QED
        BY <4>1 DEF DestuffInsert, DestuffCrcInsert
    <3>3. queue' = 1 /\ sf'.state = "CRC" /\ sf'.cnt = 1
      BY <1>6, <3>1
    <3>4. PastDlc'
      BY <1>2, <2>1, <2>5, <3>1, <3>3 DEF PastDlc
    <3> QED
      BY <1>2, <2>5, <3>2, <3>4 DEF InTune
  <2>6. CASE fsm_state /= "CTRL" /\ bs_insert = 0
    <3>1. /\ sf.cnt = 0 /\ sf.state = "CRC" /\ fsm_cnt = 0 /\ bs_state = "MONITOR"
          /\ TakesIn(sample_buf) /\ (fsm_state /= "DATA" => sample_buf = 0)
      BY <1>7, <2>6 DEF InTune, PastDlc
    <3>2. DestuffMonitor
      BY <1>1, <2>1, <3>1 DEF Clock, DestuffClock, DestuffSleep, StuffError, DestuffInsert,
         DestuffCrc, DestuffCrcInsert, DestuffDisable, DestuffStuck
    <3>3. /\ bs_last' = sample_buf /\ bs_disable = 0 /\ sb.last = sample_buf
          /\ bs_crc_mode \in {0, 1} /\ (fsm_state = "DATA" => bs_crc_mode = 0)
          /\ bs_crc_mode = 1 => bs_insert' = 1
      BY <2>1, <2>2, <2>6, <3>1, <3>2
      DEF DestuffMonitor, BsShiftIn, InStep, TakesIn, StuffsTo, TypeOK, ParserTypeOK, Bit
    <3>4. bs_crc_mode = 0 => bs_insert' = sb.insert
      BY <1>3, <2>3, <3>1, <3>3 DEF Alike
    <3>5. CASE sb.insert = 1
      <4>1. bs_insert' = 1 /\ queue' = Not(bs_last') /\ sf' = sf
        BY <1>6, <3>3, <3>4, <3>5
      <4>2. PastDlc'
        BY <1>2, <1>3, <2>1, <2>6, <3>1, <3>5, <4>1 DEF PastDlc
      <4> QED
        BY <1>2, <2>6, <4>1, <4>2 DEF InTune
    <3>6. CASE sb.insert = 0
      <4>1. queue' = 1 /\ sf'.state = "CRC" /\ sf'.cnt = 1
        BY <1>6, <3>1, <3>6
      <4>2. bs_insert' = 1 => queue' = Not(bs_last')
        <5>1. bs_insert' = 1 => bs_last' = 0
          BY <3>1, <3>3, <3>4, <3>6
        <5> QED
          BY <4>1, <5>1 DEF Not
      <4>3. PastDlc'
        BY <1>2, <2>1, <2>6, <3>1, <4>1 DEF PastDlc
      <4> QED
        BY <1>2, <2>6, <4>2, <4>3 DEF InTune
    <3> QED
      BY <1>3, <3>5, <3>6
  <2> QED
    BY <2>2, <2>4, <2>5, <2>6
<1> QED
  BY <1>6, <1>7 DEF Dynamic

\* All other edges of a unit that sends it.
LEMMA TuneSends ==
    ASSUME BusTypes, BusInv, OuTypeOK, id_ready = 1, awake = 1, awake' = 1,
           NEW in, TakenEdge(in), Sending, ou_state = "OU_DLC", DlcShadow, Dynamic,
           phase \notin {0, 1}
    PROVE  Dynamic' /\ (InTune => InTune')
<1> USE Phases
<1>1. /\ in.sleep = 0 /\ BusEdge /\ xcvr_prep /= 1 /\ prep_strobe /= 1 /\ OuClock(in)
      /\ stage_iii = (IF phase = 2 THEN 1 ELSE 0) /\ subst = 0 /\ Clock(0, Level, 0)
      /\ ou_state \in Overrides
  BY DEF TakenEdge, Wires, Sending, BusEdge, Overrides
<1>2. /\ phase' = (IF phase = BitEdges - 1 THEN 0 ELSE phase + 1)
      /\ UNCHANGED << fsm_state, fsm_cnt, sample_buf >>
      /\ phase \in 0 .. BitEdges - 1
  BY <1>1, FollowedBetween DEF BusTypes
<1>3. sf' = sf /\ sb' = (IF phase = 2 THEN SbNext ELSE sb)
  BY <1>1, ShadowsRest
<1>4. queue' = queue /\ subst' = 0
  BY <1>1, SendingStages
<1>5. phase' /= 1 /\ phase' /= 2
  BY <1>2
<1>6. ASSUME InTune PROVE InTune'
  <2>1. fsm_state \in {"CTRL", "DATA", "CRC_STF", "CRC"}
    BY <1>6 DEF InTune, PastDlc
  <2>2. bs_state /= "SLEEP" /\ destuff_strobe = 0
    BY <2>1, DestuffsFrame
  <2>3. UNCHANGED << bs_state, bs_insert, bs_crc_cnt, bs_last, bs_run >>
    BY <1>1, <2>2, DestuffRests
  <2>4. CASE fsm_state = "CTRL"
    <3>1. InDlc
      BY <1>6, <2>4 DEF InTune
    <3>2. TakesIn(queue)'
      <4>1. CASE phase = 2
        <5>1. Alike
          BY <3>1, <4>1 DEF InDlc
        <5>2. StuffsTo(sb.state, sb.crc_cnt, sb.last, sb.run, queue, 0, 0, SbNext)
          BY <1>1, ShadowStuffs DEF Dynamic
        <5>3. StuffsTo(bs_state, bs_crc_cnt, bs_last, bs_run, queue, 0, 0, sb')
          BY <1>3, <4>1, <5>1, <5>2 DEF Alike
        <5> QED
          BY <1>4, <2>3, <5>3 DEF TakesIn, StuffsTo
      <4>2. CASE phase /= 2
        <5>1. TakesIn(queue) /\ sb' = sb
          BY <1>1, <1>3, <3>1, <4>2 DEF InDlc
        <5> QED
          BY <1>4, <2>3, <5>1 DEF TakesIn, StuffsTo
      <4> QED
        BY <4>1, <4>2
    <3>3. InDlc'
      BY <1>2, <1>3, <1>4, <1>5, <2>3, <3>1, <3>2 DEF InDlc
    <3> QED
      BY <1>2, <1>4, <1>5, <1>6, <2>3, <2>4, <3>3 DEF InTune
  <2>5. CASE fsm_state /= "CTRL"
    <3>1. PastDlc
      BY <1>6, <2>5 DEF InTune
    <3>2. sf.cnt = 0 => sb'.insert = 0
      <4>1. CASE phase = 2
        <5>1. sf.cnt = 0 => sb.state \in {"INSERT", "CRC_INSERT"}
          BY <3>1, <4>1 DEF PastDlc, DlcShadow
        <5> QED
          BY <1>1, <1>3, <4>1, <5>1, NoTwoInserts
      <4>2. CASE phase /= 2
        BY <1>3, <3>1, <4>2 DEF PastDlc
      <4> QED
        BY <4>1, <4>2
    <3>3. PastDlc'
      BY <1>2, <1>3, <1>4, <1>5, <2>3, <3>1, <3>2 DEF PastDlc
    <3> QED
      BY <1>2, <1>4, <1>5, <1>6, <2>3, <2>5, <3>3 DEF InTune
  <2> QED
    BY <2>4, <2>5
<1> QED
  BY <1>3, <1>6 DEF Dynamic

\* A bit of its own is sent by the unit alone: nobody else drives, and a sender that
\* goes on in spite of the claimed bit has not sampled it yet.
Alone ==
    /\ Claiming /\ arm = 1 => sent = 1
    /\ Sending /\ err_dom = 0 =>
          /\ sent = 1 /\ mode \in {"frame", "silent"}
          /\ mode = "frame" => arm = 1 /\ fsm_state = "CTRL" /\ (phase > Fip \/ phase = 0)

\* What the bus does meanwhile, as long as nobody flags an error.
LEMMA NobodyFlags ==
    ASSUME NEW in, TakenEdge(in), Unflagged'
    PROVE  /\ Unflagged
           /\ phase /= Boundary => sent' = sent
           /\ phase \notin {0, Boundary} => mode' = mode
           /\ mode = "silent" => mode' = "silent" /\ (phase = Boundary => sent' = 1)
           /\ phase = 0 /\ Objects => mode' = "silent"
<1> USE Phases
<1>1. CASE phase = 0
  <2>1. Sample
    BY <1>1 DEF TakenEdge, BusEdge
  <2> QED
    BY <1>1, <2>1 DEF Sample, Unflagged, Objects
<1>2. CASE phase = Boundary
  <2>1. BitStart
    BY <1>2 DEF TakenEdge, BusEdge
  <2>2. SendBit \/ SendFlagBit \/ StaySilent \/ ReceiverFlags
    BY <2>1 DEF BitStart
  <2> QED
    BY <1>2, <2>2 DEF SendBit, NextSent, SendFlagBit, StaySilent, ReceiverFlags, Unflagged
<1>3. CASE phase \notin {0, Boundary}
  BY <1>3 DEF TakenEdge, BusEdge, Unflagged
<1> QED
  BY <1>1, <1>2, <1>3

\* A claimed bit that is armed was sent recessive.
LEMMA AloneClaims ==
    ASSUME BusTypes, BusInv, id_ready = 1, awake' = 1, NEW in, TakenEdge(in), Claiming,
           ou_state = "OU_DLC", fip_strb = 1 => phase = Fip + 1, Unflagged', Alone
    PROVE  Alone'
<1> USE Phases
<1>1. /\ ou_state' = ou_state /\ (Claiming' \/ Sending') /\ phase \in 3 .. Fip /\ queue = 0
      /\ stage_iii = 0 /\ ou_state' /= "OU_DONE" /\ ~NewMatch(in) /\ xcvr_mode = 0
      /\ OverrideBit /\ phase \in 0 .. BitEdges - 1 /\ phase /= 0
  BY ClaimingStep DEF Claiming, Overrides, NewMatch, TakenEdge
<1>2. /\ phase = Psp => arm' = (IF Level = 1 THEN 1 ELSE 0)
      /\ phase /= Psp => arm' = arm /\ err_dom' = err_dom
  BY <1>1, ArmTaken DEF TakenEdge, OuClock
<1>3. arm' = 1 => sent' = 1
  <2>1. CASE phase < Psp
    BY <1>2, <2>1 DEF Claiming
  <2>2. CASE phase = Psp
    BY <1>2, <2>2, NobodyFlags DEF Level
  <2>3. CASE phase > Psp
    BY <1>2, <2>3, NobodyFlags DEF Alone
  <2> QED
    BY <1>1, <2>1, <2>2, <2>3
<1>4. ASSUME Sending', err_dom' = 0
      PROVE  arm' = 1 /\ fsm_state' = "CTRL" /\ phase' > Fip
  <2>1. phase = Fip
    <3>1. phase /= Fip => xcvr_mode' = 0
      BY <1>1 DEF TakenEdge, TimerEdge
    <3> QED
      BY <1>4, <3>1 DEF Sending
  <2>2. err_dom = 0 /\ arm = 1 /\ arm' = 1
    BY <1>2, <1>4, <2>1 DEF Claiming, Not
  <2>3. BusEdge
    BY DEF TakenEdge
  <2>4. phase' = phase + 1 /\ fsm_state' = fsm_state
    BY <1>1, <2>1, <2>3, FollowedBetween
  <2> QED
    BY <1>1, <2>1, <2>2, <2>4 DEF OverrideBit, Claiming
<1>5. mode' \in {"frame", "silent"}
  BY DEF Unflagged
<1> QED
  BY <1>3, <1>4, <1>5 DEF Alone

\* A sender that finds its recessive bit dominant gives up; it sends nothing more.
LEMMA AloneSends ==
    ASSUME BusTypes, BusInv, id_ready = 1, awake = 1, awake' = 1, NEW in, TakenEdge(in), Sending,
           ou_state = "OU_DLC", ou_state' = ou_state, Unflagged', Alone
    PROVE  Alone'
<1> USE Phases
<1>1. /\ queue' \in {0, 1} /\ (phase /= 1 => queue' = queue) /\ xcvr_mode' = 1
      /\ phase \in 0 .. BitEdges - 1 /\ ou_state \in Overrides /\ BusEdge
  BY SendingStages DEF TakenEdge, Overrides
<1>2. ~Claiming'
  BY <1>1 DEF Claiming
<1>3. err_dom = 0
  <2>1. Broke \/ Yielded \/ SentOn \/ Looked(in) \/ Waited
    BY <1>1, TakenBranches DEF TakenEdge, OuClock
  <2>2. ~(err_dom = 1 /\ fip_strb = 1)
    BY <2>1 DEF Broke, Yielded, SentOn, Looked, Waited
  <2>3. err_dom \in {0, 1}
    BY DEF TakenEdge, OuTypeOK, Bit
  <2> QED
    BY <2>2, <2>3 DEF Sending
<1>4. /\ sent = 1 /\ mode \in {"frame", "silent"}
      /\ mode = "frame" => arm = 1 /\ fsm_state = "CTRL" /\ (phase > Fip \/ phase = 0)
  BY <1>3 DEF Alone
<1>5. CASE mode = "silent"
  <2>1. mode' = "silent" /\ sent' = 1
    BY <1>4, <1>5, NobodyFlags
  <2> QED
    BY <1>2, <2>1 DEF Alone
<1>6. CASE mode = "frame" /\ phase = 0
  <2>1. Level = 0
    BY <1>4, <1>6 DEF Sending, Level, Not
  <2>2. field /= "ack"
    <3>1. status.eof = 0
      BY DEF Sending
    <3>2. fsm_state = ParserState
      BY <1>6, <3>1, Foreseen
    <3> QED
      BY <1>4, <1>6, <3>2 DEF ParserState
  <2>3. Objects
    BY <1>4, <1>6, <2>1, <2>2 DEF Objects, Overridden
  <2>4. mode' = "silent" /\ sent' = 1
    BY <1>4, <1>6, <2>3, NobodyFlags
  <2> QED
    BY <1>2, <2>4 DEF Alone
<1>7. CASE mode = "frame" /\ phase /= 0
  <2>1. mode' = "frame" /\ sent' = 1
    BY <1>4, <1>7, NobodyFlags
  <2>2. /\ phase' = (IF phase = BitEdges - 1 THEN 0 ELSE phase + 1)
        /\ fsm_state' = fsm_state
    BY <1>1, <1>7, FollowedBetween
  <2>3. queue' = queue /\ arm = Not(queue)
    BY <1>1, <1>3, <1>4, <1>7 DEF Sending
  <2>4. ASSUME Sending', err_dom' = 0 PROVE arm' = 1
    <3>1. phase' /= 2
      BY <1>1, <1>4, <1>7, <2>2
    <3>2. arm' = Not(queue')
      BY <2>4, <3>1 DEF Sending
    <3> QED
      BY <1>4, <1>7, <2>3, <3>2
  <2> QED
    BY <1>1, <1>2, <1>4, <1>7, <2>1, <2>2, <2>4 DEF Alone
<1> QED
  BY <1>4, <1>5, <1>6, <1>7

\* The DLC on the bus is the unit's, bit by bit and with its stuff bits.
OwnInv ==
    awake = 1 /\ ~Plain /\ ou_state = "OU_DLC" /\ xcvr_req = 1 =>
        Dynamic /\ (Unflagged => Alone /\ InTune)

\* Every edge of the frame keeps it.
LEMMA OwnStep ==
    ASSUME BusTypes, BusInv, ChainInv, OuTypeOK, LineTypes, FreshInv, CtrlInv,
           SenderInv, DlcInv, OwnInv, ~Plain, awake = 1, awake' = 1, CoreNext
    PROVE  OwnInv'
<1> USE Phases
<1> SUFFICES ASSUME ou_state' = "OU_DLC", xcvr_req' = 1
    PROVE  Dynamic' /\ (Unflagged' => Alone' /\ InTune')
  BY DEF OwnInv
<1>1. PICK in : TakenEdge(in)
  BY TakenEdges
<1>2. id_ready = 1 /\ OuClock(in) /\ in.sleep = 0 /\ phase \in 0 .. BitEdges - 1
  BY <1>1, TakenFrame DEF TakenEdge, Wires
<1>3. ou_state /= "OU_AWAIT_FI"
  BY <1>1, PickedUp DEF Listening
<1>4. ou_state = "OU_DLC" /\ ou_state \in Overrides
  <2>1. ~NewMatch(in)
    BY <1>3 DEF NewMatch
  <2> QED
    BY <1>2, <2>1, OuMoves DEF OuClock, Overrides
<1>5. Listening \/ (xcvr_req = 1 /\ (Claiming \/ Sending))
  BY <1>3, <1>4 DEF SenderInv, Taken, Claiming, Sending
<1>6. fip_strb = 1 => phase = Fip + 1
  BY <1>3 DEF SenderInv, Taken
<1>7. Unflagged' => Unflagged
  BY <1>1, NobodyFlags
<1>8. CASE Listening
  <2>1. Dynamic' /\ InTune'
    BY <1>1, <1>2, <1>4, <1>8, TuneStarts
  <2>2. Claiming' /\ ~Sending'
    <3>1. Listening' \/ Claiming'
      BY <1>1, <1>2, <1>4, <1>8, ListeningStep
    <3> QED
      BY <3>1 DEF Listening, Claiming, Sending
  <2>3. phase' = 3
    <3>1. prep_strobe = 1 \/ xcvr_req' = xcvr_req
      BY <1>2, <1>8, PrepRests DEF OuClock, Listening
    <3>2. phase = 2
      BY <1>8, <3>1 DEF Listening
    <3> QED
      BY <1>1, <1>2, <3>2, NextPhase DEF TakenEdge, BusTypes
  <2>4. arm' = 0
    BY <2>2, <2>3 DEF Claiming
  <2> QED
    BY <2>1, <2>2, <2>4 DEF Alone
<1>9. CASE Claiming /\ xcvr_req = 1
  <2>1. Dynamic /\ (Unflagged => Alone /\ InTune)
    BY <1>4, <1>9 DEF OwnInv
  <2>2. Dynamic' /\ (InTune => InTune')
    BY <1>1, <1>2, <1>4, <1>9, <2>1, TuneClaims
  <2>3. Unflagged' => Alone'
    BY <1>1, <1>2, <1>4, <1>6, <1>7, <1>9, <2>1, AloneClaims
  <2> QED
    BY <1>7, <2>1, <2>2, <2>3
<1>10. CASE Sending /\ xcvr_req = 1
  <2>1. Dynamic /\ (Unflagged => Alone /\ InTune) /\ DlcShadow /\ DlcInTime
    BY <1>4, <1>10 DEF OwnInv, DlcInv
  <2>2. Unflagged' => Alone'
    BY <1>1, <1>2, <1>4, <1>7, <1>10, <2>1, AloneSends
  <2>3. CASE phase = 0
    <3>1. EndsInTime
      BY <1>4, <2>1, DlcEndsInTime DEF OuTypeOK, Bit
    <3>2. ~OverrideSent
      BY <1>1, <1>2, <1>4, <1>6, <1>10, <2>3, <3>1, SendingStep
    <3>3. sf' = sf
      BY <1>2, <1>10, <2>3, ShadowsRest DEF Sending
    <3>4. err_dom = 0
      BY <1>10, <2>3 DEF Sending, OuTypeOK, Bit
    <3>5. Unflagged' => sent = 1 /\ InTune
      BY <1>7, <1>10, <2>1, <3>4 DEF Alone
    <3>6. Unflagged' => InTune'
      BY <1>1, <1>2, <1>4, <1>10, <2>1, <2>3, <3>2, <3>5, TuneSampled
    <3> QED
      BY <2>1, <2>2, <3>3, <3>6 DEF Dynamic
  <2>4. CASE phase = 1
    <3>1. Dynamic' /\ (InTune => InTune')
      BY <1>1, <1>2, <1>4, <1>10, <2>1, <2>4, TunePrepared
    <3> QED
      BY <1>7, <2>1, <2>2, <3>1
  <2>5. CASE phase \notin {0, 1}
    <3>1. Dynamic' /\ (InTune => InTune')
      BY <1>1, <1>2, <1>4, <1>10, <2>1, <2>5, TuneSends
    <3> QED
      BY <1>7, <2>1, <2>2, <3>1
  <2> QED
    BY <2>3, <2>4, <2>5
<1> QED
  BY <1>5, <1>8, <1>9, <1>10

\* All edges of the core, and those at which nothing changes.
LEMMA OwnNext ==
    ASSUME WholeInv, WholeInv', OwnInv, CoreNext
    PROVE  OwnInv'
<1> SUFFICES ASSUME awake' = 1, ~Plain', ou_state' = "OU_DLC" PROVE OwnInv'
  BY DEF OwnInv
<1>1. awake \in {0, 1}
  BY DEF WholeInv, TypeInv, LineTypes, Bit
<1>2. CASE awake = 1 /\ ~Plain
  BY <1>2, EitherSide, OwnStep DEF WholeInv, SideInv
<1>3. CASE awake = 1 /\ Plain
  <2>1. Quiet
    BY <1>3 DEF WholeInv, SideInv, UnitInv, Receiver, Quiet
  <2>2. ou_state' = "OU_AWAIT_FI"
    BY <1>3, <2>1, EitherSide, FoundFirst DEF WholeInv
  <2> QED
    BY <2>2
<1>4. CASE awake = 0
  <2>1. WakeUp
    BY <1>4 DEF CoreNext, FrameNext, Sample, BitStart, PreSample, FaultInjectionPoint,
       OtherEdge, Tick, SleepEdge, ResetEdge
  <2>2. id_ready' = 0
    BY <2>1 DEF WakeUp, Units, Clock, ParserClock, ParserSleep, Asleep
  <2>3. (awake = 1 /\ ~Plain /\ WholeInv => id_ready = 1)'
    BY EitherSide, TakenFrame, PTL DEF WholeInv
  <2> QED
    BY <2>2, <2>3
<1> QED
  BY <1>1, <1>2, <1>3, <1>4

LEMMA OwnStutter ==
    ASSUME OwnInv, UNCHANGED coreVars
    PROVE  OwnInv'
<1>1. /\ UNCHANGED << awake, phase, sent, mode, xcvr_mode, can_tx, fip_strb >>
      /\ UNCHANGED << fsm_state, fsm_cnt, status, sample_buf, destuff_strobe >>
      /\ UNCHANGED << bs_state, bs_insert, bs_crc_cnt, bs_last, bs_run >>
      /\ UNCHANGED << ou_state, xcvr_prep, xcvr_req, subst, stage_iii, arm >>
      /\ UNCHANGED << queue, prep_strobe, late_strobe, err_dom, sf, sb >>
  BY DEF coreVars, fsmVars, parserVars, bsVars, timerVars, busVars, ouVars
<1>2. (Plain' <=> Plain)
  BY PartsStutter
<1>3. (Claiming' <=> Claiming) /\ (Sending' <=> Sending)
  BY <1>1 DEF Claiming, Sending, OverrideBit, PayloadBit
<1>4. Alone => Alone'
  BY <1>1, <1>3 DEF Alone
<1>5. /\ Alike' <=> Alike
      /\ \A b : StuffsTo(bs_state, bs_crc_cnt, bs_last, bs_run, b, 0, 0, sb) =>
                 StuffsTo(bs_state', bs_crc_cnt', bs_last', bs_run', b, 0, 0, sb')
  BY <1>1 DEF Alike
<1>6. InDlc => InDlc'
  BY <1>1, <1>5 DEF InDlc, TakesIn
<1>7. PastDlc => PastDlc'
  BY <1>1, <1>5 DEF PastDlc, TakesIn
<1>8. InTune => InTune'
  BY <1>1, <1>6, <1>7 DEF InTune
<1> QED
  BY <1>1, <1>2, <1>4, <1>8 DEF OwnInv, Dynamic, Unflagged

\* OwnInv holds at every edge as well.
LEMMA OwnAlways == ASSUME NoPayload PROVE CoreSpec => [](WholeInv /\ OwnInv)
<1>1. CoreInit => WholeInv /\ OwnInv
  BY WholeStart DEF OwnInv, CoreInit
<1>2. WholeInv /\ OwnInv /\ [CoreNext]_coreVars => (WholeInv /\ OwnInv)'
  BY WholeStep, WholeStutter, OwnNext, OwnStutter
<1> QED
  BY <1>1, <1>2, PTL DEF CoreSpec

\* A unit with the bus in its hands sends the DLC of a frame.
LEMMA OwnFrame ==
    ASSUME WholeInv, Overriding, xcvr_mode = 1
    PROVE  awake = 1 /\ ~Plain /\ ou_state = "OU_DLC" /\ Sending /\ DlcShadow /\ DlcInTime
<1>1. ou_state = "OU_DLC"
  BY OverridesDlc DEF WholeInv, TypeInv, Overriding, Overrides
<1>2. awake = 1
  <2>1. awake \in {0, 1}
    BY DEF WholeInv, TypeInv, LineTypes, Bit
  <2> QED
    BY <1>1, <2>1 DEF WholeInv, StillInv, Overrides
<1>3. ~Plain
  BY <1>2 DEF WholeInv, SideInv, UnitInv, Receiver
<1>4. Sending
  BY <1>1, <1>2, <1>3 DEF WholeInv, SideInv, SenderInv, Taken, Listening, Claiming
<1> QED
  BY <1>1, <1>2, <1>3, <1>4 DEF WholeInv, DlcInv, Sending

\* What it sends is no stuff error to the parser.
LEMMA OwnReadable == WholeInv /\ OwnInv => OverrideReadable
<1> SUFFICES ASSUME WholeInv, OwnInv, xcvr_mode = 1, Overriding, Unflagged
             PROVE  fsm_state \notin {"ERRF", "AWAIT_EOF"}
  BY DEF OverrideReadable
<1>1. awake = 1 /\ ~Plain /\ ou_state = "OU_DLC" /\ Sending
  BY OwnFrame
<1>2. InTune
  BY <1>1 DEF OwnInv, Sending
<1> QED
  BY <1>2 DEF InTune, PastDlc

\* The bits that it makes dominant lie in the DLC, or are the stuff bit behind it.
LEMMA OwnInField == NoPayload /\ WholeInv /\ OwnInv => OverrideInField
<1> SUFFICES ASSUME NoPayload, WholeInv, OwnInv, can_tx = 0, AtSample, Unflagged
             PROVE  /\ Fi.type /= "FI_DATA"
                    /\ Fi.type = "FI_DLC" =>
                          \/ fsm_state = "CTRL" /\ fsm_cnt >= 4
                          \/ bs_insert = 1 /\ fsm_cnt = 0
                             /\ fsm_state \in {"DATA", "CRC_STF", "CRC"}
  BY DEF OverrideInField
<1> USE Phases
<1>1. awake = 1 /\ phase = 0 /\ BusTypes /\ ChainInv
  BY EitherSide DEF AtSample, WholeInv
<1>2. Asked
  BY DrivenArbitrated DEF NoStrayInjection, Asked
<1>3. Fi.type /= "FI_DATA"
  BY <1>1, <1>2, SlotOfFrame DEF NoPayload, BusTypes
<1>4. ASSUME Fi.type = "FI_DLC"
      PROVE  \/ fsm_state = "CTRL" /\ fsm_cnt >= 4
             \/ bs_insert = 1 /\ fsm_cnt = 0 /\ fsm_state \in {"DATA", "CRC_STF", "CRC"}
  <2>1. CASE Plain
    <3>1. Active
      BY <1>1, <2>1 DEF WholeInv, SideInv, UnitInv, Armed
    <3>2. PICK a \in 0 .. Evaluated : ChainAt(a)
      BY <1>1 DEF ChainInv
    <3>3. a > MatchAge /\ Asked
      BY <3>1, <3>2 DEF ChainAt, OverrideAt, Active
    <3>4. a \in Nat /\ MatchAge \in Nat
      BY <3>2 DEF MatchAge, Evaluated
    <3>5. data_vector_ready = 1
      BY <3>2, <3>3, <3>4 DEF ChainAt, MemoryAt
    <3> QED
      BY <1>4, <2>1, <3>5 DEF Plain
  <2>2. CASE ~Plain
    <3>1. ou_state /= "OU_AWAIT_FI"
      BY <1>1 DEF WholeInv, FreshInv
    <3>2. Sending /\ ou_state \in Overrides
      BY <1>1, <2>2, <3>1
      DEF WholeInv, SideInv, SenderInv, Taken, Listening, Claiming, Resting
    <3>3. ou_state = "OU_DLC" /\ err_dom = 0 /\ arm = Not(queue) /\ can_tx = Not(arm)
          /\ arm \in {0, 1} /\ xcvr_req = 1 /\ queue \in {0, 1}
      <4>1. ou_state = "OU_DLC" /\ err_dom \in {0, 1} /\ arm \in {0, 1} /\ queue \in {0, 1}
        BY <3>2, OverridesDlc DEF WholeInv, TypeInv, UnitTypes, OuTypeOK, Bit
      <4>2. err_dom = 0 /\ can_tx = Not(arm) /\ xcvr_req = 1
        BY <1>1, <3>2, <4>1 DEF Sending
      <4> QED
        BY <1>1, <3>2, <4>1, <4>2 DEF Sending
    <3>4. InTune /\ DlcShadow
      BY <1>1, <2>2, <3>3 DEF OwnInv, WholeInv, DlcInv
    <3>5. queue /= 1
      BY <3>3 DEF Not
    <3> QED
      BY <1>1, <3>4, <3>5 DEF InTune, PastDlc, DlcShadow
  <2> QED
    BY <2>1, <2>2
<1> QED
  BY <1>3, <1>4

\* The parser arrives at the place that the unit has counted to.
LEMMA OwnInStep ==
    WholeInv /\ OwnInv /\ [CoreNext]_coreVars =>
        (AtSample /\ xcvr_mode = 1 /\ Overriding /\ Unflagged
           => \/ << fsm_state', fsm_cnt' >> = << sf.state, sf.cnt >>
              \/ ou_state = "OU_DLC" /\ After(fsm_state', "CTRL") /\ sf.state = "CRC"
              \/ UNCHANGED coreVars)
<1> SUFFICES ASSUME WholeInv, OwnInv, CoreNext, AtSample, xcvr_mode = 1, Overriding, Unflagged
             PROVE  \/ << fsm_state', fsm_cnt' >> = << sf.state, sf.cnt >>
                    \/ ou_state = "OU_DLC" /\ After(fsm_state', "CTRL") /\ sf.state = "CRC"
  OBVIOUS
<1> USE Phases
<1>1. awake = 1 /\ ~Plain /\ ou_state = "OU_DLC" /\ Sending /\ DlcShadow /\ phase = 0
  BY OwnFrame DEF AtSample
<1>2. BusTypes /\ OuTypeOK /\ LineTypes /\ BusInv /\ ChainInv /\ FreshInv
  BY <1>1, EitherSide DEF WholeInv
<1>3. PICK in : TakenEdge(in)
  BY <1>1, <1>2, TakenEdges
<1>4. id_ready = 1 /\ BusEdge
  BY <1>1, <1>2, <1>3, TakenFrame DEF TakenEdge
<1>5. Clock(1, Level, 0)
  BY <1>1, <1>4 DEF BusEdge
<1>6. Alone /\ InTune
  BY <1>1 DEF OwnInv, Sending
<1>7. /\ fsm_state \in {"CTRL", "DATA", "CRC_STF", "CRC"} /\ fsm_cnt \in Nat
      /\ fsm_state = "CTRL" => fsm_cnt \in 4 .. 7
      /\ bs_insert = 1 => queue = Not(bs_last)
      /\ bs_insert \in {0, 1} /\ queue \in {0, 1}
  BY <1>1, <1>2, <1>6 DEF InTune, PastDlc, DlcShadow, BusTypes, TypeOK, ParserTypeOK,
     DestuffTypeOK, OuTypeOK, Bit
<1>8. Level = queue
  <2>1. err_dom = 0
    BY <1>1, <1>2 DEF Sending, OuTypeOK, Bit
  <2>2. can_tx = Not(arm) /\ arm = Not(queue) /\ sent = 1
    BY <1>1, <1>6, <2>1 DEF Sending, Alone
  <2> QED
    BY <1>7, <2>2 DEF Level, Not
<1>9. CASE fsm_state = "CTRL"
  <2>1. InDlc
    BY <1>6, <1>9 DEF InTune
  <2>2. /\ bs_insert = 1 => fsm_state' = fsm_state /\ fsm_cnt' = fsm_cnt
        /\ bs_insert = 0 /\ fsm_cnt /= 7 => fsm_state' = "CTRL" /\ fsm_cnt' = fsm_cnt + 1
        /\ bs_insert = 0 /\ fsm_cnt = 7 => fsm_state' \in {"DATA", "CRC_STF", "CRC"}
    BY <1>1, <1>2, <1>4, <1>5, <1>7, <1>8, <1>9, TuneReads
  <2>3. fsm_state' \in {"DATA", "CRC_STF", "CRC"} => After(fsm_state', "CTRL")
    BY AfterStates, FsmStateNames
  <2> QED
    BY <1>1, <1>7, <1>9, <2>1, <2>2, <2>3 DEF InDlc
<1>10. CASE fsm_state /= "CTRL"
  <2>1. sf.state = "CRC"
    BY <1>6, <1>10 DEF InTune, PastDlc
  <2>2. fsm_state' \in {"ERRF", "DATA", "CRC_STF", "CRC", "EOF"}
    BY <1>5, <1>7, <1>10, FrameSampled
  <2>3. After(fsm_state', "CTRL")
    BY <2>2, AfterStates, FsmStateNames
  <2> QED
    BY <1>1, <2>1, <2>3
<1> QED
  BY <1>9, <1>10
-----------------------------------------------------------------------------
(* What the runs check *)

\* The injector never drives the bus for an identifier that no slot asks for,
\* nor in the arbitration field, nor between frames: whatever the table holds but
\* slots for payload, whoever flags an error and wherever a frame breaks, whether
\* the unit flips one bit or sends the DLC, however the frame before ended.
THEOREM NoStrays ==
    ASSUME NoPayload
    PROVE  CoreSpec => []NoStrayInjection
BY DrivenArbitrated, WholeInvariant, PTL

\* Every frame finds the three stages of the override unit at rest, however the
\* frame before ended: hit, missed, dominated, sent over or broken by an error flag.
THEOREM ReadyForEveryFrame ==
    ASSUME NoPayload
    PROVE  CoreSpec => []UnitReady
BY ReadyInArbitration, WholeInvariant, PTL

\* The core follows every frame to its EOF, whatever it does to it meanwhile: it
\* goes to sleep with a frame still on the bus only after an error flag, its own
\* DLC on the bus or not.
THEOREM FrameFollowed ==
    ASSUME NoPayload
    PROVE  CoreSpec => EndsWithFrame
<1>1. WholeInv /\ [CoreNext]_coreVars =>
        [awake = 1 /\ awake' = 0 => mode /= "frame" \/ (field = "eof" /\ pos = 6)]_coreVars
  BY SleepsAtEof
<1> QED
  BY <1>1, WholeInvariant, PTL DEF CoreSpec, EndsWithFrame

\* A single bit is hit exactly: whatever the fields' widths, the depth of the
\* tree, the slots' identifiers and masks and the places of boundary, PSP and FIP
\* in the bit, every bit of a frame with a single-bit slot that the injector is
\* driving when it is sampled is the bit or stuff bit that the slot names by its
\* field and index, was sent recessive, and is the first that it makes dominant in
\* this frame; the other slots of the table may override the DLC of other frames.
THEOREM ExactBit ==
    ASSUME NoPayload
    PROVE  CoreSpec => []SingleBitExact
BY TargetDriven, ToldAlways, PTL

\* The feedback is true: when the interrupt is raised, pending is down if and only
\* if a bit was made dominant, and for a single-bit slot "dominant" and "miss" say
\* whether the target came dominant or never came, for all widths of the fields,
\* every depth of the tree, every table of slots but those for payload and wherever
\* boundary, PSP and FIP lie in the bit, whoever flags an error.
THEOREM FeedbackTold ==
    ASSUME NoPayload
    PROVE  CoreSpec => []FeedbackTruthful
BY ReportTruthful, ToldAlways, PTL

\* What the unit sends of a DLC can be read: as long as nobody flags an error the
\* parser is neither in an error frame nor waiting for one to end.  The stuff bits
\* that the unit adds (override_unit.vhd, stage I) are those that the destuffer
\* takes out, from the bit it starts with to the stuff bit behind the last one.
THEOREM OwnDlcReadable ==
    ASSUME NoPayload
    PROVE  CoreSpec => []OverrideReadable
BY OwnAlways, OwnReadable, PTL

\* What the unit makes dominant of a frame whose DLC it overrides is one of the
\* DLC's four bits or the stuff bit right behind them, as long as nobody flags an
\* error: it is off the bus before the first bit of the payload or of the CRC.
THEOREM OwnDlcInField ==
    ASSUME NoPayload
    PROVE  CoreSpec => []OverrideInField
BY OwnAlways, OwnInField, PTL

\* The unit counts its own DLC as the parser does: with each bit of it that is
\* sampled the parser comes to the place that the shadow counter is at, which ran
\* ahead of it by one bit and stood still for each stuff bit, or past the DLC when
\* the unit is.
THEOREM OwnDlcInStep ==
    ASSUME NoPayload
    PROVE  CoreSpec => ShadowInStep
<1>1. WholeInv /\ OwnInv /\ [CoreNext]_coreVars =>
        [ AtSample /\ xcvr_mode = 1 /\ Overriding /\ Unflagged
          => \/ << fsm_state', fsm_cnt' >> = << sf.state, sf.cnt >>
             \/ ou_state = "OU_DLC" /\ After(fsm_state', "CTRL")
                /\ sf.state = "CRC" ]_coreVars
  BY OwnInStep
<1> QED
  BY <1>1, OwnAlways, PTL DEF ShadowInStep, CoreSpec
=============================================================================
