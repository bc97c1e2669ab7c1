------------------------------ MODULE MemoryBus ------------------------------
(***************************************************************************)
(* The memory unit between the parser and the host: frames with any        *)
(* identifier come and go, and the host rewrites slot registers at any     *)
(* time. (HostBus writes the payload memory, through the control program.) *)
(*                                                                         *)
(* From the parser it assumes what ParserBus checks (IdStable): the        *)
(* identifier does not change while id_ready is up, and goes with the frame.*)
(***************************************************************************)
EXTENDS MemoryUnit

CONSTANTS
    Slots,          \* slot contents the host writes
    Rewritten       \* entries it rewrites while frames come and go

VARIABLES
    awake, cfg_en,          \* tu_active_r, GLOBAL_CONFIG.cfg_en
    id, id_ready,           \* from the parser
    untouched,              \* ghost: no slot register was written in this frame
    age                     \* ghost: edges since id_ready, up to MatchLatency

busVars == << awake, cfg_en, id, id_ready >>
memVars == << muVars, id_mem, busVars, untouched, age >>

Ids == 0 .. 2 ^ IdBits - 1
NoHostWrite == [valid |-> 0, addr |-> 0, data |-> 0]

\* One edge per level of the tree and one for the frame register.
MatchLatency == TreeDepth + 1
\* Then read state, RAM access, RAM output, and the ready flag.
VectorLatency == MatchLatency + 4

MemInit ==
    /\ MuInit
    /\ id_mem \in [Entries -> Slots]
    /\ awake = 0 /\ cfg_en = 1 /\ id = 0 /\ id_ready = 0
    /\ untouched = 1 /\ age = 0

Unit(req, resp) ==
    MuClock(1 - awake, id, id_ready, cfg_en, NoHostWrite, req, resp)

AgeOnce == age' = IF id_ready = 1 /\ age < VectorLatency THEN age + 1 ELSE age

\* Clock edges and what the neighbours do at them.
Edge ==
    /\ Unit(0, 0) /\ AgeOnce
    /\ UNCHANGED << id_mem, busVars, untouched >>

StartFrame ==
    /\ awake = 0 /\ cfg_en = 0 /\ awake' = 1
    /\ Unit(0, 0)
    /\ id' \in Ids /\ untouched' = 1 /\ age' = 0
    /\ UNCHANGED << id_mem, cfg_en, id_ready >>

IdComplete ==
    /\ awake = 1 /\ id_ready = 0 /\ id_ready' = 1
    /\ Unit(0, 0) /\ AgeOnce
    /\ UNCHANGED << id_mem, awake, cfg_en, id, untouched >>

\* The parser clears the identifier at the first edge of the sleep, when the
\* tree is in reset and does not look at it.
EndFrame ==
    /\ awake = 1 /\ awake' = 0
    /\ Unit(0, 0)
    /\ age' = 0 /\ id_ready' = 0 /\ id' = 0
    /\ UNCHANGED << id_mem, cfg_en, untouched >>

\* cfg_en puts the timer unit to sleep at once. The host's next register
\* access comes edges later.
SetConfig(c) ==
    /\ cfg_en' = c /\ cfg_en /= c
    /\ awake' = 0 /\ id_ready' = 0 /\ id' = 0 /\ age' = 0
    /\ Unit(0, 0)
    /\ UNCHANGED << id_mem, untouched >>

\* Match, mask and frame of a slot are three registers, written one by one.
WriteSlot(e, slot, part) ==
    /\ id_mem' = [id_mem EXCEPT ![e][part] = slot[part]]
    /\ id_mem' /= id_mem
    /\ Unit(0, 0) /\ AgeOnce
    /\ untouched' = 0
    /\ UNCHANGED busVars

\* The override unit raises the interrupt in its sleep branch.
InterruptRequest ==
    /\ awake = 0
    /\ Unit(1, 0) /\ AgeOnce
    /\ UNCHANGED << id_mem, busVars, untouched >>

ReadIrqReset ==
    /\ Unit(0, 1) /\ AgeOnce
    /\ UNCHANGED << id_mem, busVars, untouched >>

FrameNext ==
    \/ Edge \/ StartFrame \/ IdComplete \/ EndFrame
    \/ \E c \in Bit : SetConfig(c)

MemNext ==
    \/ FrameNext \/ InterruptRequest \/ ReadIrqReset
    \/ \E e \in Rewritten, slot \in Slots, part \in {"value", "mask", "fi"} :
          WriteSlot(e, slot, part)

MemSpec == MemInit /\ [][MemNext]_memVars
-----------------------------------------------------------------------------
(* Properties *)

Matching == { e \in Entries : Matches(id, id_mem[e]) }
Chosen == CHOOSE e \in Matching : \A f \in Matching : e <= f

\* The tree, its registers and the frame register together pick the matching
\* slot with the smallest number, never one of a frame before, and never one
\* when no slot matches; id_matcher.vhd:125-127 decides this pairwise, on
\* values that are one level older at each level.
SlotSelected ==
    untouched = 1 /\ awake = 1 =>
        /\ fi_frame_ready = 1 => Matching /= {} /\ fi_frame = id_mem[Chosen].fi
        /\ age >= MatchLatency /\ Matching /= {} => fi_frame_ready = 1

\* The override unit is served in time: tb_memory_unit.vhd:161 waits as long.
ServedInTime ==
    untouched = 1 /\ awake = 1 /\ age = VectorLatency /\ Matching /= {} =>
        data_vector_ready = 1
=============================================================================
