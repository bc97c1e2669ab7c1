----------------------------- MODULE MemoryUnit -----------------------------
(***************************************************************************)
(* memory_unit.vhd with its id_matcher tree and its payload_memory: finds  *)
(* the slot whose identifier matches, hands its frame to the override unit *)
(* and fetches the slot's override vector.                                 *)
(*                                                                         *)
(* One step is one clock edge, one action per process (see CanFsm). The    *)
(* tree is a function on its inner nodes << depth, position >>; a leaf is  *)
(* combinational and is the operator Leaf. The block RAM (Xilinx xpm) is   *)
(* two functions from addresses to words, with its two read registers.     *)
(* bram_ena_r repeats bram_wea_r and is left out.                          *)
(***************************************************************************)
EXTENDS CanTypes

CONSTANTS
    TreeDepth,      \* MATCHER_MAX_TREE_DEPTH                   (code: 3)
    IdBits,         \* bits of an identifier                    (code: 29)
    SegCnt,         \* PLD_IN_SEG_CNT                           (code: 18)
    Bank0Segs,      \* BANK0_SEGS                               (code: 16)
    SegStride,      \* PLD_SEG_STRIDE                           (code: 32)
    Words           \* values of a payload segment

ASSUME MemoryAssumption ==
    /\ TreeDepth \in Nat \ {0} /\ IdBits \in Nat
    /\ SegCnt \in Nat /\ Bank0Segs \in 1 .. SegCnt - 1
    /\ SegStride \in Nat /\ SegStride >= SegCnt /\ 0 \in Words

\* The law of the powers of 2, for the proofs: no prover knows exponentiation.
ASSUME PowersAssumption ==
    \A d \in 0 .. TreeDepth : 2 ^ d \in Nat \ {0} /\ 2 ^ (d + 1) = 2 * 2 ^ d

Entries == 0 .. 2 ^ TreeDepth - 1
Segments == 0 .. SegCnt - 1
Bank1Segs == SegCnt - Bank0Segs
FiFrames == [type : FiTypes, field : 0 .. 7, meta : 0 .. 511]
FiNull == [type |-> "FI_NULL", field |-> 0, meta |-> 0]

VARIABLES
    id_mem,                             \* the slot registers of the AXI file
    node,                               \* registers of the matcher tree
    fi_frame, fi_frame_ready,           \* to the override unit
    data_vector_ready,
    ram_read_state, mem_rd_latency,     \* latency: bit of the one, 0 or 1
    bram_addrb, bram_enb, bram_rstb,
    bram_write,                         \* bram_wea_r, _addra_r and _dina_r
    ram_write_err,
    interrupt_hold,
    bank0, bank1,                       \* contents of the two RAMs
    ram_latch, ram_out                  \* their read registers

muVars == << node, fi_frame, fi_frame_ready, data_vector_ready,
    ram_read_state, mem_rd_latency, bram_addrb, bram_enb, bram_rstb,
    bram_write, ram_write_err, interrupt_hold, bank0, bank1, ram_latch, ram_out >>

NoWrite == [en |-> 0, entry |-> 0, seg |-> 0, data |-> 0]
NoData == [s \in Segments |-> 0]
Nodes == UNION { {d} \X (0 .. 2 ^ d - 1) : d \in 0 .. TreeDepth - 1 }
NodeReset == [match |-> 0, ready |-> 0, idx |-> 0]
Root == node[<< 0, 0 >>]

MuTypeOK ==
    /\ node \in [Nodes -> [match : Bit, ready : Bit, idx : Entries]]
    /\ fi_frame \in FiFrames /\ fi_frame_ready \in Bit
    /\ data_vector_ready \in Bit
    /\ ram_read_state \in {"AWAIT_MATCH", "AWAIT_MEM", "READY", "SKIP_READ"}
    /\ mem_rd_latency \in Bit
    /\ bram_addrb \in Entries /\ bram_enb \in Bit /\ bram_rstb \in Bit
    /\ bram_write \in [en : Bit, entry : Entries, seg : Segments, data : Words]
    /\ ram_write_err \in Bit /\ interrupt_hold \in Bit
    /\ bank0 \in [0 .. 2 ^ TreeDepth * Bank0Segs - 1 -> Words]
    /\ bank1 \in [0 .. 2 ^ TreeDepth * Bank1Segs - 1 -> Words]
    /\ ram_latch \in [Segments -> Words] /\ ram_out \in [Segments -> Words]

\* All but the slot registers; the RAM powers up with zeros.
MuInit ==
    /\ node = [n \in Nodes |-> NodeReset]
    /\ fi_frame = FiNull /\ fi_frame_ready = 0 /\ data_vector_ready = 0
    /\ ram_read_state = "AWAIT_MATCH" /\ mem_rd_latency = 0
    /\ bram_addrb = 0 /\ bram_enb = 0 /\ bram_rstb = 0 /\ bram_write = NoWrite
    /\ ram_write_err = 0 /\ interrupt_hold = 0
    /\ bank0 = [a \in 0 .. 2 ^ TreeDepth * Bank0Segs - 1 |-> 0]
    /\ bank1 = [a \in 0 .. 2 ^ TreeDepth * Bank1Segs - 1 |-> 0]
    /\ ram_latch = NoData /\ ram_out = NoData
-----------------------------------------------------------------------------
(* id_matcher *)

BitOf(n, i) == (n \div 2 ^ i) % 2
Matches(id, slot) ==
    \A i \in 0 .. IdBits - 1 :
        BitOf(id, i) = BitOf(slot.value, i) \/ BitOf(slot.mask, i) = 1

Leaf(e, id, id_ready) ==
    [match |-> IF id_ready = 1 /\ Matches(id, id_mem[e]) THEN 1 ELSE 0,
     ready |-> 1, idx |-> e]

NodeOutput(d, p, id, id_ready) ==
    IF d = TreeDepth THEN Leaf(p, id, id_ready) ELSE node[<< d, p >>]

MergeRightFirst(l, r) ==                \* mutant: the larger number wins
    [match |-> IF l.match = 1 \/ r.match = 1 THEN 1 ELSE 0,
     ready |-> IF l.ready = 1 /\ r.ready = 1 THEN 1 ELSE 0,
     idx   |-> IF r.match = 1 THEN r.idx ELSE l.idx]

\* The left child, with the smaller slot numbers, has priority.
Merge(l, r) ==
    [match |-> IF l.match = 1 \/ r.match = 1 THEN 1 ELSE 0,
     ready |-> IF l.ready = 1 /\ r.ready = 1 THEN 1 ELSE 0,
     idx   |-> IF l.match = 1 THEN l.idx ELSE r.idx]

ChildNodeIntegrate(sleep, id, id_ready) ==
    node' = [n \in Nodes |->
        IF sleep = 1 THEN NodeReset
        ELSE Merge(NodeOutput(n[1] + 1, 2 * n[2], id, id_ready),
                   NodeOutput(n[1] + 1, 2 * n[2] + 1, id, id_ready))]
-----------------------------------------------------------------------------
(* memory_unit *)

\* As long as the tree reports a match the frame is loaded at every edge.
ExtractFiFrame(sleep) ==
    \/ sleep = 1 /\ fi_frame' = FiNull /\ fi_frame_ready' = 0
    \/ /\ sleep = 0 /\ Root.match = 1 /\ Root.ready = 1
       /\ fi_frame' = id_mem[Root.idx].fi /\ fi_frame_ready' = 1
    \/ /\ sleep = 0 /\ ~(Root.match = 1 /\ Root.ready = 1)
       /\ UNCHANGED << fi_frame, fi_frame_ready >>

\* write: what the AXI registers hold at this edge; valid is 1 when MU_CFG_BASE
\* was just written with ram_data_valid set.
Accepted(addr) == addr < 2 ^ TreeDepth * SegStride /\ addr % SegStride < SegCnt
WriteStrobe(cfg_en, write) == cfg_en = 1 /\ write.valid = 1

WriteAxiToRam(cfg_en, write) ==
    \/ /\ WriteStrobe(cfg_en, write) /\ Accepted(write.addr)
       /\ bram_write' = [en |-> 1, entry |-> write.addr \div SegStride,
                         seg |-> write.addr % SegStride, data |-> write.data]
       /\ ram_write_err' = 0
    \/ /\ WriteStrobe(cfg_en, write) /\ ~Accepted(write.addr)
       /\ bram_write' = NoWrite /\ ram_write_err' = 1
    \/ /\ ~WriteStrobe(cfg_en, write)
       /\ bram_write' = NoWrite /\ UNCHANGED ram_write_err

ReadSleep ==
    /\ bram_rstb' = 1 /\ data_vector_ready' = 0 /\ bram_enb' = 0
    /\ ram_read_state' = "AWAIT_MATCH" /\ mem_rd_latency' = 0
    /\ UNCHANGED bram_addrb

AwaitMatch ==
    /\ ram_read_state = "AWAIT_MATCH"
    /\ LET read == fi_frame_ready = 1 /\ fi_frame.type = "FI_DATA"
       IN  /\ bram_addrb' = IF read THEN Root.idx ELSE bram_addrb
           /\ bram_enb' = IF read THEN 1 ELSE 0
           /\ ram_read_state' = IF fi_frame_ready = 0 THEN "AWAIT_MATCH"
                                ELSE IF read THEN "AWAIT_MEM" ELSE "SKIP_READ"
    /\ UNCHANGED << data_vector_ready, mem_rd_latency >>

AwaitMem ==
    /\ ram_read_state = "AWAIT_MEM"
    /\ IF mem_rd_latency = 1
       THEN ram_read_state' = "READY" /\ UNCHANGED mem_rd_latency
       ELSE mem_rd_latency' = 1 /\ UNCHANGED ram_read_state
    /\ bram_enb' = 0
    /\ UNCHANGED << bram_addrb, data_vector_ready >>

VectorReadyIfRead ==                    \* mutant: SKIP_READ announces nothing
    /\ ram_read_state \in {"READY", "SKIP_READ"}
    /\ data_vector_ready' = IF ram_read_state = "READY" THEN 1 ELSE data_vector_ready
    /\ bram_enb' = 0
    /\ UNCHANGED << ram_read_state, bram_addrb, mem_rd_latency >>

VectorReady ==
    /\ ram_read_state \in {"READY", "SKIP_READ"}
    /\ data_vector_ready' = 1 /\ bram_enb' = 0
    /\ UNCHANGED << ram_read_state, bram_addrb, mem_rd_latency >>

WriteRamToBuffer(sleep) ==
    \/ sleep = 1 /\ ReadSleep
    \/ sleep = 0 /\ bram_rstb' = 0 /\ (AwaitMatch \/ AwaitMem \/ VectorReady)

InterruptMgmt(req, resp) ==
    interrupt_hold' = IF req = 1 THEN 1 ELSE IF resp = 1 THEN 0 ELSE interrupt_hold
-----------------------------------------------------------------------------
(* payload_memory *)

Bank0Addr(entry, seg) == entry * Bank0Segs + seg
Bank1Addr(entry, seg) == entry * Bank1Segs + (seg - Bank0Segs)

WriteRoute ==
    /\ bank0' = IF bram_write.en = 1 /\ bram_write.seg < Bank0Segs
                THEN [bank0 EXCEPT
                    ![Bank0Addr(bram_write.entry, bram_write.seg)] = bram_write.data]
                ELSE bank0
    /\ bank1' = IF bram_write.en = 1 /\ bram_write.seg >= Bank0Segs
                THEN [bank1 EXCEPT
                    ![Bank1Addr(bram_write.entry, bram_write.seg)] = bram_write.data]
                ELSE bank1

\* The wide word that the RAM reads at an entry: the RAM packs as many narrow
\* words as fit, the first of them in the low bits.
WideWord(entry) ==
    [s \in Segments |-> IF s < Bank0Segs THEN bank0[entry * Bank0Segs + s]
                        ELSE bank1[entry * Bank1Segs + (s - Bank0Segs)]]

\* Read latency 2: enb loads the first register, the second one follows it.
ReadBanks ==
    /\ ram_latch' = IF bram_enb = 1 THEN WideWord(bram_addrb) ELSE ram_latch
    /\ ram_out' = IF bram_rstb = 1 THEN NoData ELSE ram_latch
-----------------------------------------------------------------------------
MuClock(sleep, id, id_ready, cfg_en, write, req, resp) ==
    /\ ChildNodeIntegrate(sleep, id, id_ready)
    /\ ExtractFiFrame(sleep)
    /\ WriteAxiToRam(cfg_en, write)
    /\ WriteRamToBuffer(sleep)
    /\ InterruptMgmt(req, resp)
    /\ WriteRoute /\ ReadBanks

\* The reset branches. The RAM and its registers have none.
MuReset ==
    /\ node' = [n \in Nodes |-> NodeReset]
    /\ fi_frame' = FiNull /\ fi_frame_ready' = 0 /\ data_vector_ready' = 0
    /\ ram_read_state' = "AWAIT_MATCH" /\ mem_rd_latency' = 0
    /\ bram_addrb' = 0 /\ bram_enb' = 0 /\ bram_rstb' = 0 /\ bram_write' = NoWrite
    /\ ram_write_err' = 0 /\ interrupt_hold' = 0
    /\ WriteRoute /\ ReadBanks
=============================================================================
