---------------------------- MODULE MemoryProofs ----------------------------
(***************************************************************************)
(* The memory unit for every depth of the matcher tree, every identifier   *)
(* length and every contents of the slots: the frame it hands out is that  *)
(* of the first matching slot, in time, with the vector's ready flag.      *)
(*                                                                         *)
(* SlotSelected speaks of the end of the pipeline only. What is inductive  *)
(* says what each node of the tree reports at each age of the identifier   *)
(* (TreeInv: the first matching slot of those under the node, once the     *)
(* identifier has come up to it, and before that nothing), and then the    *)
(* same of the frame register (FrameInv) and the read state (ReadInv).     *)
(***************************************************************************)
EXTENDS MemoryBus, MemoryUnitProofs

Served == untouched = 1 /\ awake = 1

AgeInv ==
    /\ awake \in Bit /\ id_ready \in Bit /\ age \in 0 .. VectorLatency
    /\ id_ready = 0 => age = 0
    /\ awake = 0 => id_ready = 0
TreeInv == Served => TreeOf(node, Matching, age)
FrameInv ==
    Served =>
        /\ fi_frame_ready = 1 <=> age >= MatchLatency /\ Matching /= {}
        /\ fi_frame_ready = 1 =>
              \E e \in Entries : First(e, Matching) /\ fi_frame = id_mem[e].fi
Fetched == ram_read_state \in {"READY", "SKIP_READ"}
ReadInv ==
    /\ ram_read_state \in {"AWAIT_MATCH", "AWAIT_MEM", "READY", "SKIP_READ"}
    /\ Served /\ Matching /= {} =>
        /\ age > MatchLatency     => ram_read_state /= "AWAIT_MATCH"
        /\ age > MatchLatency + 1 => Fetched \/ mem_rd_latency = 1
        /\ age > MatchLatency + 2 => Fetched
        /\ age > MatchLatency + 3 => data_vector_ready = 1
MemInv == AgeInv /\ TreeInv /\ FrameInv /\ ReadInv
-----------------------------------------------------------------------------
(* The invariant *)

\* A clock edge of an awake unit between two steps of the neighbours that leave
\* the identifier and the slots alone, which is all that Served tells apart.
Running == Served /\ AgeOnce /\ \E q \in Bit : Unit(0, q)
Steady == UNCHANGED << id_mem, id, awake, untouched >>

LEMMA AgeStep ==
    ASSUME AgeInv, Running
    PROVE  /\ age' \in 0 .. VectorLatency /\ age' >= age
           /\ id_ready = 0 => age' = age /\ age = 0
           /\ id_ready = 1 => age' = age + 1 \/ (age' = VectorLatency /\ age = VectorLatency)
<1>1. VectorLatency \in Nat
  BY MemoryAssumption DEF VectorLatency, MatchLatency
<1>2. AgeOnce /\ age \in 0 .. VectorLatency /\ id_ready \in {0, 1}
      /\ (id_ready = 0 => age = 0)
  BY DEF AgeInv, Running, Bit
<1>3. CASE id_ready = 0
  BY <1>1, <1>2, <1>3 DEF AgeOnce
<1>4. CASE id_ready = 1
  BY <1>1, <1>2, <1>4 DEF AgeOnce
<1> QED
  BY <1>2, <1>3, <1>4

LEMMA TreeStep ==
    ASSUME AgeInv, TreeInv, Running, Steady
    PROVE  TreeInv'
<1>1. Served /\ Matching' = Matching /\ Matching = Hits(id)
  BY DEF Running, Served, Steady, Matching, Matches, Hits
<1>2. TreeDepth \in Nat \ {0} /\ VectorLatency \in Int /\ VectorLatency > TreeDepth
  BY MemoryAssumption DEF VectorLatency, MatchLatency
<1>3. age \in Int /\ age' \in Int /\ age >= 0 /\ id_ready \in {0, 1}
  BY <1>2, AgeStep DEF AgeInv, Bit
<1>4. Ages(id_ready, age, age')
  BY <1>2, <1>3, AgeStep DEF Ages
<1>5. ChildNodeIntegrate(0, id, id_ready)
  <2>1. 1 - awake = 0
    BY <1>1 DEF Served
  <2> QED
    BY <2>1 DEF Running, Unit, MuClock
<1>6. TreeOf(node', Hits(id), age')
  BY <1>1, <1>4, <1>5, TreeAdvances DEF TreeInv
<1> QED
  BY <1>1, <1>6 DEF TreeInv, TreeOf

LEMMA FrameStep ==
    ASSUME AgeInv, TreeInv, FrameInv, Running, Steady
    PROVE  FrameInv'
<1>1. Served /\ Matching' = Matching /\ id_mem' = id_mem
  BY DEF Running, Steady, Matching, Matches
<1>2. TreeDepth \in Nat \ {0} /\ VectorLatency \in Int /\ MatchLatency = TreeDepth + 1
      /\ VectorLatency >= MatchLatency
  BY MemoryAssumption DEF VectorLatency, MatchLatency
<1>3. age' >= MatchLatency <=> age >= TreeDepth
  <2>1. age \in Int /\ age' \in Int /\ id_ready \in {0, 1}
    BY <1>2, AgeStep DEF AgeInv, Bit
  <2> QED
    BY <1>2, <2>1, AgeStep
<1>4. ExtractFiFrame(0)
  <2>1. 1 - awake = 0
    BY <1>1 DEF Served
  <2> QED
    BY <2>1 DEF Running, Unit, MuClock
<1> DEFINE root == /\ Root.match = 1 <=> age >= TreeDepth /\ Matching /= {}
                   /\ Root.match = 1 => First(Root.idx, Matching) /\ Root.ready = 1
<1>5. root
  <2>1. TreeOf(node, Matching, age) /\ age \in Int /\ Matching \in SUBSET Entries
    BY <1>1, <1>2 DEF TreeInv, AgeInv, Matching
  <2> QED
    BY <2>1, RootReports
<1>6. CASE Root.match = 1
  <2>1. Root.ready = 1 /\ First(Root.idx, Matching) /\ age >= TreeDepth /\ Matching /= {}
    BY <1>5, <1>6
  <2>2. fi_frame' = id_mem[Root.idx].fi /\ fi_frame_ready' = 1 /\ Root.idx \in Entries
    BY <1>4, <1>6, <2>1 DEF ExtractFiFrame, First, Matching
  <2> QED
    BY <1>1, <1>3, <2>1, <2>2 DEF FrameInv, First
<1>7. CASE Root.match /= 1
  <2>1. ~(age >= TreeDepth /\ Matching /= {})
    BY <1>5, <1>7
  <2>2. fi_frame' = fi_frame /\ fi_frame_ready' = fi_frame_ready
    BY <1>4, <1>7 DEF ExtractFiFrame
  <2>3. fi_frame_ready /= 1
    BY <1>1, <1>2, <2>1 DEF FrameInv, AgeInv
  <2> QED
    BY <1>1, <1>3, <2>1, <2>2, <2>3 DEF FrameInv
<1> QED
  BY <1>6, <1>7

LEMMA ReadStep ==
    ASSUME AgeInv, FrameInv, ReadInv, Running, Steady
    PROVE  ReadInv'
<1>1. Served /\ Matching' = Matching
  BY DEF Running, Steady, Matching, Matches
<1>2. /\ TreeDepth \in Nat \ {0} /\ MatchLatency \in Nat
      /\ VectorLatency = MatchLatency + 4
  BY MemoryAssumption DEF VectorLatency, MatchLatency
<1>3. AwaitMatch \/ AwaitMem \/ VectorReady
  <2>1. 1 - awake = 0
    BY <1>1 DEF Served
  <2> QED
    BY <2>1 DEF Running, Unit, MuClock, WriteRamToBuffer
<1>4. /\ age \in Int /\ age' \in Int
      /\ age' = age \/ age' = age + 1
      /\ age' = age => age = 0 \/ age = VectorLatency
  BY <1>2, AgeStep DEF AgeInv, Bit
<1>5. ram_read_state' \in {"AWAIT_MATCH", "AWAIT_MEM", "READY", "SKIP_READ"}
  BY <1>3 DEF ReadInv, AwaitMatch, AwaitMem, VectorReady
<1>6. SUFFICES ASSUME Matching /= {}
      PROVE  /\ age' > MatchLatency     => ram_read_state' /= "AWAIT_MATCH"
             /\ age' > MatchLatency + 1 => Fetched' \/ mem_rd_latency' = 1
             /\ age' > MatchLatency + 2 => Fetched'
             /\ age' > MatchLatency + 3 => data_vector_ready' = 1
  BY <1>1, <1>5 DEF ReadInv
<1>7. /\ age >= MatchLatency       => fi_frame_ready = 1
      /\ age > MatchLatency     => ram_read_state /= "AWAIT_MATCH"
      /\ age > MatchLatency + 1 => Fetched \/ mem_rd_latency = 1
      /\ age > MatchLatency + 2 => Fetched
      /\ age > MatchLatency + 3 => data_vector_ready = 1
  BY <1>1, <1>6 DEF FrameInv, ReadInv
<1>8. CASE AwaitMatch
  BY <1>2, <1>4, <1>7, <1>8 DEF AwaitMatch, Fetched
<1>9. CASE AwaitMem
  BY <1>2, <1>4, <1>7, <1>9 DEF AwaitMem, Fetched
<1>10. CASE VectorReady
  BY <1>2, <1>4, <1>7, <1>10 DEF VectorReady, Fetched
<1> QED
  BY <1>3, <1>8, <1>9, <1>10

\* All steps of an awake unit that leave the identifier and the slots alone.
LEMMA RunningStep ==
    ASSUME MemInv, Running, Steady, id_ready' \in Bit, id_ready = 1 => id_ready' = 1
    PROVE  MemInv'
<1>1. AgeInv'
  BY AgeStep DEF MemInv, AgeInv, Steady, Running, Served, Bit
<1> QED
  BY <1>1, TreeStep, FrameStep, ReadStep DEF MemInv

\* A frame starts from the reset of the sleep branches.
LEMMA StartStep ==
    ASSUME MemInv, StartFrame
    PROVE  MemInv'
<1>1. id_ready = 0 /\ id_ready' = 0 /\ awake' = 1 /\ age' = 0 /\ 1 - awake = 1
  BY DEF MemInv, AgeInv, StartFrame, Bit
<1>2. /\ node' = [n \in Nodes |-> NodeReset] /\ fi_frame_ready' = 0
      /\ ram_read_state' = "AWAIT_MATCH"
  BY <1>1 DEF StartFrame, Unit, MuClock, ChildNodeIntegrate, ExtractFiFrame,
              WriteRamToBuffer, ReadSleep
<1>3. /\ TreeDepth \in Nat \ {0} /\ MatchLatency \in Nat \ {0}
      /\ VectorLatency \in Nat
  BY MemoryAssumption DEF VectorLatency, MatchLatency
<1>4. AgeInv'
  BY <1>1, <1>3 DEF AgeInv, Bit
<1>5. TreeInv'
  <2>1. TreeOf(node', Matching', age')
    BY <1>1, <1>2, TreeCleared
  <2> QED
    BY <2>1 DEF TreeInv, TreeOf
<1>6. FrameInv'
  BY <1>1, <1>2, <1>3 DEF FrameInv
<1>7. ReadInv'
  BY <1>1, <1>2, <1>3 DEF ReadInv
<1> QED
  BY <1>4, <1>5, <1>6, <1>7 DEF MemInv

\* Whatever else happens leaves the unit asleep, or a frame that nothing is
\* promised about.
LEMMA UnservedStep ==
    ASSUME MemInv, Served' = FALSE, AgeInv', \E q, r \in Bit : Unit(q, r)
    PROVE  MemInv'
<1>1. ReadSleep \/ AwaitMatch \/ AwaitMem \/ VectorReady
  BY DEF Unit, MuClock, WriteRamToBuffer
<1>2. ram_read_state' \in {"AWAIT_MATCH", "AWAIT_MEM", "READY", "SKIP_READ"}
  BY <1>1 DEF MemInv, ReadInv, ReadSleep, AwaitMatch, AwaitMem, VectorReady
<1> QED
  BY <1>2 DEF MemInv, TreeInv, FrameInv, ReadInv

LEMMA MemInvStep ==
    ASSUME MemInv, [MemNext]_memVars
    PROVE  MemInv'
<1>1. VectorLatency \in Nat
  BY MemoryAssumption DEF VectorLatency, MatchLatency
<1>2. /\ awake \in Bit /\ id_ready \in Bit /\ age \in 0 .. VectorLatency
      /\ id_ready = 0 => age = 0
      /\ awake = 0 => id_ready = 0
  BY DEF MemInv, AgeInv
<1>3. ASSUME NEW q \in Bit, Unit(0, q), AgeOnce,
             UNCHANGED << id_mem, busVars, untouched >>
      PROVE  MemInv'
  <2>1. AgeInv'
    BY <1>1, <1>2, <1>3 DEF AgeInv, AgeOnce, busVars, Bit
  <2>2. CASE Served
    <3>1. Running /\ Steady
      BY <1>3, <2>2 DEF Running, Steady, busVars
    <3> QED
      BY <1>2, <1>3, <3>1, RunningStep DEF busVars
  <2>3. CASE ~Served
    <3>1. Served' = FALSE /\ 0 \in Bit
      BY <1>3, <2>3 DEF Served, busVars, Bit
    <3> QED
      BY <1>3, <2>1, <3>1, UnservedStep
  <2> QED
    BY <2>2, <2>3
<1>4. CASE Edge
  BY <1>3, <1>4 DEF Edge, Bit
<1>5. CASE ReadIrqReset
  BY <1>3, <1>5 DEF ReadIrqReset, Bit
<1>6. CASE StartFrame
  BY <1>6, StartStep
<1>7. CASE IdComplete
  <2>1. AgeInv' /\ 0 \in Bit
    BY <1>1, <1>2, <1>7 DEF AgeInv, AgeOnce, IdComplete, Bit
  <2>2. CASE Served
    <3>1. Running /\ Steady /\ id_ready' \in Bit /\ (id_ready = 1 => id_ready' = 1)
      BY <1>7, <2>1, <2>2 DEF Running, Steady, IdComplete, Bit
    <3> QED
      BY <3>1, RunningStep
  <2>3. CASE ~Served
    <3>1. Served' = FALSE
      BY <1>7, <2>3 DEF Served, IdComplete
    <3> QED
      BY <1>7, <2>1, <3>1, UnservedStep DEF IdComplete
  <2> QED
    BY <2>2, <2>3
<1>8. CASE EndFrame \/ \E c \in Bit : SetConfig(c)
  <2>1. AgeInv' /\ 0 \in Bit
    BY <1>1, <1>8 DEF AgeInv, EndFrame, SetConfig, Bit
  <2>2. Served' = FALSE
    BY <1>8 DEF Served, EndFrame, SetConfig
  <2> QED
    BY <1>8, <2>1, <2>2, UnservedStep DEF EndFrame, SetConfig
<1>9. CASE InterruptRequest
  <2>1. AgeInv' /\ 0 \in Bit /\ 1 \in Bit
    BY <1>1, <1>2, <1>9 DEF AgeInv, AgeOnce, InterruptRequest, busVars, Bit
  <2>2. Served' = FALSE
    BY <1>9 DEF Served, InterruptRequest, busVars
  <2> QED
    BY <1>9, <2>1, <2>2, UnservedStep DEF InterruptRequest
<1>10. ASSUME NEW e \in Rewritten, NEW slot \in Slots, NEW part, WriteSlot(e, slot, part)
       PROVE  MemInv'
  <2>1. AgeInv' /\ 0 \in Bit
    BY <1>1, <1>2, <1>10 DEF AgeInv, AgeOnce, WriteSlot, busVars, Bit
  <2>2. Served' = FALSE
    BY <1>10 DEF Served, WriteSlot
  <2> QED
    BY <1>10, <2>1, <2>2, UnservedStep DEF WriteSlot
<1>11. CASE UNCHANGED memVars
  <2>1. Matching' = Matching /\ Served' = Served
    BY <1>11 DEF memVars, busVars, Matching, Matches, Served
  <2> QED
    BY <1>11, <2>1 DEF memVars, busVars, muVars, MemInv, AgeInv, TreeInv, FrameInv,
                       ReadInv, Fetched
<1> QED
  BY <1>4, <1>5, <1>6, <1>7, <1>8, <1>9, <1>10, <1>11 DEF MemNext, FrameNext

\* At each age of the identifier, each stage of the memory unit knows what the
\* edges since then let it know, and no more.
THEOREM MemInvariant == MemSpec => []MemInv
<1>1. MemInit => MemInv
  <2> SUFFICES ASSUME MemInit PROVE MemInv
    OBVIOUS
  <2>1. VectorLatency \in Nat
    BY MemoryAssumption DEF VectorLatency, MatchLatency
  <2>2. ~Served /\ AgeInv
    BY <2>1 DEF MemInit, Served, AgeInv, Bit
  <2> QED
    BY <2>2 DEF MemInit, MuInit, MemInv, TreeInv, FrameInv, ReadInv
<1>2. MemInv /\ [MemNext]_memVars => MemInv'
  BY MemInvStep
<1> QED
  BY <1>1, <1>2, PTL DEF MemSpec

\* Of a slot table that was left alone during the frame, the frame of the first
\* matching slot is handed out, no other, and after one edge per level and one.
THEOREM SlotIsSelected == MemSpec => []SlotSelected
<1>1. MemInv => SlotSelected
  <2> SUFFICES ASSUME MemInv, Served PROVE
        /\ fi_frame_ready = 1 => Matching /= {} /\ fi_frame = id_mem[Chosen].fi
        /\ age >= MatchLatency /\ Matching /= {} => fi_frame_ready = 1
    BY DEF SlotSelected, Served
  <2>1. ASSUME NEW e \in Entries, First(e, Matching)
        PROVE  Chosen = e
    <3>1. \A f \in Matching : f \in Int
      BY Ends DEF Matching
    <3>2. Chosen \in Matching /\ \A f \in Matching : Chosen <= f
      BY <2>1 DEF Chosen, First
    <3> QED
      BY <2>1, <3>1, <3>2 DEF First
  <2> QED
    BY <2>1 DEF MemInv, FrameInv
<1> QED
  BY <1>1, MemInvariant, PTL

\* With a matching slot the vector's ready flag is up four edges after the
\* frame, for a slot with a test vector and for one without.
THEOREM VectorIsServed == MemSpec => []ServedInTime
<1>1. MemInv => ServedInTime
  <2>1. MatchLatency \in Nat /\ VectorLatency = MatchLatency + 4
    BY MemoryAssumption DEF VectorLatency, MatchLatency
  <2> QED
    BY <2>1 DEF MemInv, ReadInv, Served, ServedInTime
<1> QED
  BY <1>1, MemInvariant, PTL
=============================================================================
