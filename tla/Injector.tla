------------------------------ MODULE Injector ------------------------------
(***************************************************************************)
(* The core on a bus: parser, memory unit and override unit as they are    *)
(* wired in can_fi_route.vhd, one sender of frames (FrameTx), and what the *)
(* timer unit does to them within one bit.                                 *)
(*                                                                         *)
(* A bit takes BitEdges clock edges, counted by phase from the edge at     *)
(* which the sample strobe is seen. The sender's next bit is on the bus    *)
(* from phase Boundary on, the pre-sample strobe is seen at phase Psp, the *)
(* time quantum of the FIP ends at phase Fip. Samples are those of the     *)
(* nominal rate; the two rates and resynchronisation belong to the timer   *)
(* unit. The override vector's bits may be anything.                       *)
(***************************************************************************)
EXTENDS OverrideUnit, MemoryUnit, FrameTx

CONSTANTS
    BitEdges, Boundary, Psp, Fip,
    SlotTables,     \* contents of the slot registers, fixed before the start
    SentFormats     \* the frame formats on the bus

ASSUME PhasesAssumption ==
    /\ {BitEdges, Boundary, Psp, Fip} \subseteq Nat
    /\ 1 < Boundary /\ Boundary < Psp /\ Psp < Fip /\ Fip + 1 < BitEdges
    /\ TreeDepth + 7 <= Psp     \* a match is queued before the next PSP

ASSUME TablesAssumption ==
    /\ SlotTables \subseteq [Entries -> [value : Nat, mask : Nat, fi : FiFrames]]
    /\ SentFormats \subseteq Formats /\ SentFormats /= {}

VARIABLES
    phase, awake,               \* position in the bit; tu_active_r
    can_tx, xcvr_mode, fip_strb,\* timer unit
    sent,                       \* level the other nodes put on the bus
    mode, flag,                 \* sender: "frame"; an error "flag" is on the
                                \* bus, or was ("flagged"); "silent" otherwise
    onbus,                      \* ghost: the bit of the frame on the bus
    seen,                       \* ghost: stuff bits of the target field so far
    target,                     \* ghost: did the target come, and its level
    hits                        \* ghost: bits made dominant, up to 2

timerVars == << phase, awake, can_tx, xcvr_mode, fip_strb >>
busVars == << txVars, sent, mode, flag, onbus, seen, target >>
coreVars == << fsmVars, ouVars, muVars, id_mem, timerVars, busVars, hits >>

Level == IF sent = 1 /\ can_tx = 1 THEN 1 ELSE 0
NoHostWrite == [valid |-> 0, addr |-> 0, data |-> 0]
NoBit == [state |-> "SLEEP", cnt |-> 0, kind |-> "field", hot |-> FALSE]

CoreInit ==
    /\ Init /\ OuInit /\ MuInit /\ id_mem \in SlotTables
    /\ TxInit /\ format = CHOOSE f \in SentFormats : TRUE
    /\ phase = 0 /\ awake = 0 /\ can_tx = 1 /\ xcvr_mode = 0 /\ fip_strb = 0
    /\ sent = 1 /\ mode = "silent" /\ flag = 0
    /\ onbus = NoBit /\ seen = 0 /\ target = "none" /\ hits = 0
-----------------------------------------------------------------------------
(* What the slots ask for, by the identifier the sender has sent *)

Arbitrated ==
    field \notin {"idle", "sof", "ida", "srr", "ide", "idb", "rrs"}
Hitting == { e \in Entries : Matches(id, id_mem[e]) }
Fi == IF Hitting = {} THEN FiNull
      ELSE id_mem[CHOOSE e \in Hitting : \A f \in Hitting : e <= f].fi
SingleBit == Fi.type \in {"FI_BIT", "FI_BSDY", "FI_BSFX"}

\* Is this bit a stuff bit that the slot counts?
Counted(bit) ==
    \/ Fi.type = "FI_BSFX" /\ bit.kind = "fixed"
    \/ /\ Fi.type = "FI_BSDY" /\ bit.kind = "dynamic"
       /\ bit.state = CanField(Fi.field)
Targeted(bit, n) ==
    \/ Counted(bit) /\ n = Fi.meta
    \/ /\ Fi.type = "FI_BIT" /\ bit.kind = "field"
       /\ bit.state = CanField(Fi.field) /\ bit.cnt = Fi.meta
-----------------------------------------------------------------------------
(* The units at one edge *)

DataBits == IF ou_state = "OU_DATA_CRC" /\ (prep_strobe = 1 \/ xcvr_prep = 1)
            THEN Bit ELSE {0}

Units(sleep, strb, psp_strb, xcvr_strb) ==
    /\ Clock(strb, Level, sleep)
    /\ MuClock(sleep, id_buffer, id_ready, 0, NoHostWrite, interrupt_req, 0)
    /\ \E d \in DataBits :
          OuClock([sleep |-> sleep, fi |-> fi_frame, fi_ready |-> fi_frame_ready,
                   vec_ready |-> data_vector_ready, data |-> d, psp |-> Level,
                   psp_strb |-> psp_strb, fip_strb |-> fip_strb,
                   xcvr_strb |-> xcvr_strb])
    /\ UNCHANGED id_mem

\* Every edge of a frame; eof_stat ends it (state_mgmt of the timer unit).
Tick ==
    /\ awake = 1 /\ awake' = 1 - status.eof
    /\ phase' = IF status.eof = 1 THEN 0 ELSE (phase + 1) % BitEdges

\* In transceiver mode the armed level is driven at every time quantum.
Driven == IF xcvr_mode = 1 THEN Not(arm) ELSE can_tx
-----------------------------------------------------------------------------
(* Steps *)

\* The sender gives up: it waits for the interframe space.
GiveUp ==
    /\ field' = "ifs" /\ pos' = 0 /\ stuff' = NoStuff
    /\ last' = 1 /\ run' = 1 /\ group' = 0
    /\ onbus' = NoBit
    /\ UNCHANGED << format, id >>

\* Sample point. The sender goes on to its next bit, unless it reads a dominant
\* level for its recessive bit: then it raises an error flag or, if it is error
\* passive, falls silent.
Overridden == sent = 1 /\ Level = 0
Objects == mode = "frame" /\ Overridden /\ field /= "ack"

Sample ==
    /\ phase = 0 /\ Tick
    /\ Units(0, 1, 0, xcvr_mode)
    /\ hits' = IF Overridden /\ hits < 2 THEN hits + 1 ELSE hits
    /\ \/ /\ Objects /\ GiveUp
          /\ \/ mode' = "flag" /\ flag' = 6
             \/ mode' = "silent" /\ UNCHANGED flag
       \/ /\ ~Objects /\ UNCHANGED << mode, flag, onbus >>
          /\ IF mode = "frame" THEN Send(Level) ELSE UNCHANGED txVars
    /\ fip_strb' = 0
    /\ UNCHANGED << can_tx, xcvr_mode, sent, seen, target >>

\* The sender's next bit; the injector lets go of a single bit.
NextSent(bit) ==
    /\ LET hot == Arbitrated /\ Targeted(bit, seen)
       IN  /\ onbus' = [bit EXCEPT !.hot = hot]
           /\ target' = IF ~hot THEN target
                        ELSE IF sent' = 1 THEN "recessive" ELSE "dominant"
    /\ seen' = IF Arbitrated /\ Counted(bit) /\ seen <= Fi.meta
               THEN seen + 1 ELSE seen
    /\ UNCHANGED << mode, flag >>

SendBit ==
    /\ mode = "frame"
    /\ \/ /\ stuff = NoStuff /\ sent' \in FieldBits
          /\ NextSent([NoBit EXCEPT !.state = ParserState,
                                    !.cnt = ParserCount])
       \/ /\ stuff = sent'
          /\ NextSent([onbus EXCEPT !.kind =
                        IF FixedStuffed THEN "fixed" ELSE "dynamic"])
    /\ UNCHANGED txVars

SendFlagBit ==
    /\ mode = "flag" /\ sent' = 0
    /\ flag' = flag - 1 /\ mode' = IF flag = 1 THEN "flagged" ELSE "flag"
    /\ UNCHANGED << txVars, onbus, seen, target >>

StaySilent ==
    /\ mode \in {"silent", "flagged"} /\ sent' = 1
    /\ UNCHANGED << txVars, mode, flag, onbus, seen, target >>

\* A receiver objects: to a broken stuff bit, a CRC, or for reasons of its own.
ReceiverFlags ==
    /\ mode \in {"frame", "silent"} /\ Arbitrated
    /\ sent' = 0 /\ mode' = "flag" /\ flag' = 5
    /\ GiveUp
    /\ UNCHANGED << seen, target >>

BitStart ==
    /\ phase = Boundary /\ Tick
    /\ sent' \in Bit
    /\ SendBit \/ SendFlagBit \/ StaySilent \/ ReceiverFlags
    /\ Units(0, 0, 0, 0)
    /\ can_tx' = IF xcvr_mode = 1 THEN can_tx ELSE 1
    /\ fip_strb' = 0
    /\ UNCHANGED << xcvr_mode, hits >>

PreSample ==
    /\ phase = Psp /\ Tick
    /\ Units(0, 0, 1 - xcvr_mode, 0)
    /\ can_tx' = Driven /\ fip_strb' = 0
    /\ UNCHANGED << xcvr_mode, busVars, hits >>

FaultInjectionPoint ==
    /\ phase = Fip /\ Tick
    /\ Units(0, 0, 0, 0)
    /\ can_tx' = Not(arm)
    /\ xcvr_mode' = IF xcvr_req = 1 THEN 1 ELSE xcvr_mode
    /\ fip_strb' = 1 - xcvr_mode
    /\ UNCHANGED << busVars, hits >>

OtherEdge ==
    /\ phase \notin {0, Boundary, Psp, Fip} /\ Tick
    /\ Units(0, 0, 0, 0)
    /\ can_tx' = Driven /\ fip_strb' = 0
    /\ UNCHANGED << xcvr_mode, busVars, hits >>

\* The rest of EOF, the interframe space and error delimiters are recessive
\* and go by while the core sleeps; phase counts enough edges for one bit.
SleepEdge ==
    /\ awake = 0 /\ UNCHANGED awake
    /\ Units(1, 0, 0, 0)
    /\ phase' = IF phase < BitEdges - 1 THEN phase + 1 ELSE phase
    /\ can_tx' = 1 /\ xcvr_mode' = 0 /\ fip_strb' = 0
    /\ mode' = IF mode \in {"flag", "flagged"} THEN "flagged" ELSE "silent"
    /\ sent' = 1 /\ flag' = 0 /\ field' = "idle"
    /\ UNCHANGED << pos, format, id, stuff, last, run, group, onbus, seen,
                    target, hits >>

WakeUp ==
    /\ awake = 0 /\ phase = BitEdges - 1
    /\ Units(1, 0, 0, 0)
    /\ StartFrame /\ format' \in SentFormats
    /\ awake' = 1 /\ phase' = Boundary
    /\ mode' = "frame" /\ sent' = 1
    /\ onbus' = NoBit /\ seen' = 0 /\ target' = "none" /\ hits' = 0
    /\ UNCHANGED << can_tx, xcvr_mode, fip_strb, flag >>

\* A reset between two frames.
ResetEdge ==
    /\ awake = 0 /\ UNCHANGED awake
    /\ Reset /\ OuReset /\ MuReset
    /\ phase' = 0 /\ can_tx' = 1 /\ xcvr_mode' = 0 /\ fip_strb' = 0
    /\ UNCHANGED << id_mem, busVars, hits >>

FrameNext ==
    \/ Sample \/ BitStart \/ PreSample \/ FaultInjectionPoint \/ OtherEdge
    \/ SleepEdge \/ WakeUp
CoreNext == FrameNext \/ ResetEdge

CoreSpec == CoreInit /\ [][CoreNext]_coreVars

\* The clock runs, and nobody resets the core.
CoreFairSpec == CoreInit /\ [][FrameNext]_coreVars /\ WF_coreVars(FrameNext)

\* Configuration mode puts the core to sleep in mid-frame; the rest of the
\* frame goes by while the timer unit waits for a free bus.
CutShort ==
    /\ awake = 1 /\ awake' = 0 /\ phase' = 0
    /\ Units(0, 0, 0, 0)
    /\ can_tx' = can_tx /\ fip_strb' = 0
    /\ UNCHANGED << xcvr_mode, busVars, hits >>

CutSpec == CoreInit /\ [][CoreNext \/ CutShort]_coreVars
-----------------------------------------------------------------------------
(* Properties *)

\* The bit on the bus is about to be sampled.
AtSample == phase = 0 /\ awake = 1
Overriding == ou_state \in {"OU_DLC", "OU_DATA_CRC"}
\* No error flag of another node, which breaks into whatever is being sent.
Unflagged == mode \in {"frame", "silent"}

CoreTypeOK ==
    /\ TypeOK /\ OuTypeOK /\ MuTypeOK
    /\ phase \in 0 .. BitEdges - 1 /\ awake \in Bit
    /\ can_tx \in Bit /\ xcvr_mode \in Bit /\ fip_strb \in Bit /\ sent \in Bit
    /\ mode \in {"frame", "flag", "flagged", "silent"} /\ flag \in 0 .. 6
    /\ onbus \in [state : FsmStates, cnt : Nat, hot : BOOLEAN,
                  kind : {"field", "fixed", "dynamic"}]
    /\ seen \in Nat /\ hits \in 0 .. 2
    /\ target \in {"none", "recessive", "dominant"}

\* The injector never drives the bus in a frame whose identifier no slot asks
\* for, nor in the arbitration field, nor between frames.
NoStrayInjection == can_tx = 0 => Arbitrated /\ Hitting /= {}

\* A single-bit injection makes the bit dominant that the slot names, and no
\* other: not the stuff bit before it, not its neighbour (each stage of the
\* unit acts on what the parser and the destuffer said one edge earlier, and
\* the slot is known only edges after the identifier), and only once. Left out
\* are frames with the error flag of another node: one that starts in the last
\* bits of the CRC runs into the tail, where the parser cannot tell.
SingleBitExact ==
    SingleBit /\ can_tx = 0 /\ AtSample /\ Unflagged =>
        onbus.hot /\ target = "recessive" /\ hits = 0

\* What the flags say when the interrupt is raised is what happened on the
\* bus: pending is down when a bit was made dominant, "dominant" is up when the
\* target came but could not be overridden, "miss" when it never came, "dlc" when the vector was
\* not for this DLC. (The flag of another node may have taken the place of the
\* target: then "miss" or "dominant" may be up.)
FeedbackTruthful ==
    interrupt_req = 1 /\ Hitting /= {} =>
        /\ inj_pending = 0 <=> hits > 0
        /\ SingleBit =>
            /\ target = "recessive" => hits = 1 /\ err_dom = 0 /\ err.miss = 0
            /\ target = "dominant" => hits = 0 /\ err_dom = 1 /\ err.miss = 0
            /\ target = "none" /\ mode = "silent" =>
                  hits = 0 /\ err_dom = 0 /\ err.miss = 1 /\ err.fsm = 0
        /\ Fi.type = "FI_DATA" /\ mode = "silent" =>
            /\ err.dlc = 1 <=> Fi.meta /= format.dlc
            /\ err.dlc = 1 => hits = 0

\* An override stays in its field: the DLC bits with the stuff bit that may
\* follow them, or payload and CRC. (A first dominant bit of the vector on the
\* CRC delimiter is the exception: the receiver-mode path strobes one bit more
\* than the field has, although README.md:58 spares the delimiter.)
OverrideInField ==
    can_tx = 0 /\ AtSample /\ Unflagged =>
        /\ Fi.type = "FI_DLC" =>
            \/ fsm_state = "CTRL" /\ fsm_cnt >= 4
            \/ bs_insert = 1 /\ fsm_cnt = 0 /\ fsm_state \in {"DATA", "CRC_STF", "CRC"}
        /\ Fi.type = "FI_DATA" =>
            \/ fsm_state \in {"DATA", "CRC_STF", "CRC"}
            \/ fsm_state = "EOF" /\ fsm_cnt = 0 /\ (bs_insert = 1 \/ hits = 0)

\* While the unit sends by itself its own count of the frame is the one that
\* the parser, which reads the bits back, arrives at.
ShadowInStep ==
    [][ AtSample /\ xcvr_mode = 1 /\ Overriding /\ Unflagged
          => \/ << fsm_state', fsm_cnt' >> = << sf.state, sf.cnt >>
             \/ ou_state = "OU_DLC" /\ After(fsm_state', "CTRL")
                /\ sf.state = "CRC" ]_coreVars

\* Every payload and CRC bit takes the next bit of the vector, stuff bits take
\* none: the index is always the one of the bit on the bus.
BitsBefore ==
    fsm_cnt + CASE fsm_state = "DATA"    -> 0
                [] fsm_state = "CRC_STF" -> data_width
                [] fsm_state = "CRC"     -> data_width + 4 * fd_mode
                [] fsm_state = "EOF"     -> data_width + 4 * fd_mode + crc_width
                [] OTHER -> 0 - fsm_cnt
PayloadInOrder ==
    AtSample /\ ou_state = "OU_DATA_CRC" /\ Unflagged =>
        LET here == IF fsm_state \in {"DATA", "CRC_STF", "CRC", "EOF"}
                       /\ bs_insert = 0 THEN 1 ELSE 0
        IN  data_cnt = VectorBits - 1 - (BitsBefore + here)

\* What the unit sends is correctly stuffed: as long as nobody flags an error
\* the parser reads the overridden field without a stuff error.
OverrideReadable ==
    xcvr_mode = 1 /\ Overriding /\ Unflagged =>
        fsm_state \notin {"ERRF", "AWAIT_EOF"}

\* Every frame finds the unit idle with nothing queued, armed or counted left
\* over from the frame before (its process resets some of its registers when it
\* sleeps, some when it is done, and some when a frame matches).
UnitReady ==
    awake = 1 /\ ~Arbitrated =>
        /\ ou_state = "OU_AWAIT_FI" /\ queue = 1 /\ arm = 0 /\ bs_cnt = 0
        /\ << prep_strobe, xcvr_prep, late_strobe, bsfx_shift >> = << 0, 0, 0, 0 >>
        /\ << xcvr_req, xcvr_mode, interrupt_req, fi_parsed >> = << 0, 0, 0, 0 >>

\* The core follows a frame to its EOF whatever it does to it meanwhile.
EndsWithFrame ==
    [][ awake = 1 /\ awake' = 0 =>
          mode /= "frame" \/ (field = "eof" /\ pos = 6) ]_coreVars

\* Every matched frame is answered by an interrupt.
MatchAnswered == Arbitrated /\ Hitting /= {} /\ awake = 1 ~> interrupt_req = 1
=============================================================================
