# CAN-FD-FI in TLA+

Specifications, model-checking configurations and proofs for the CAN / CAN FD fault injection core
(`src/src/hdl`), the control program that works on it (`src/src/sw`) and the C++ class through which
software reaches its registers (`src/gen`). The core listens to a CAN bus, matches the identifier of a
frame against eight slots, and makes chosen bits of a matched frame dominant. One step of a
specification of the core is one rising edge of the clock; each VHDL process is an action and an edge
is the conjunction of them, because all registers are written at the same edge from their old values.
One step of a specification of software is one register access.

Paths below are relative to the repository; line numbers are those of the modelled commit.

## 1. Inventory

| Component | Keeps | Does | Talks to |
| --- | --- | --- | --- |
| Timer unit (`timer_unit.vhd`) | time quantum counter, bit timing of two rates, active / sleep / config, delay compensation, transmit level | wakes on a falling edge, samples, resynchronises, places pre-sample point (PSP) and fault injection point (FIP), drives the bus, rejects glitches | samples and strobes to parser and override unit; sleep to all; reads the parser's flags and the override unit's arm |
| Parser and destuffer (`can_fsm.vhd`) | field and bit counter, format, identifier, DLC and widths; stuffing state | takes a frame apart bit by bit; predicts stuff bits; detects stuff errors and error flags; announces end of frame, rate switch, CRC delimiter | identifier to memory unit, state and prediction to override unit, flags to timer unit |
| Memory unit (`memory_unit.vhd`, `id_matcher.vhd`, `payload_memory.vhd`) | tree of match registers, active frame, RAM of override vectors, interrupt | finds the first matching slot; fetches its vector; stores payload segments the host writes | frame and vector to override unit, interrupt to host |
| Override unit (`override_unit.vhd`) | injection state, queued and armed bit, shadow parser and shadow stuffer, error flags | follows the matched frame, queues the target bit, arms it at the PSP; sends DLC or payload by itself in transceiver mode | arm to timer unit, interrupt request to memory unit, flags to registers |
| Wiring and registers (`can_fi_route.vhd`, `can_fd_fi_registers.toml`) | AXI registers | maps registers to slots, timing and payload port | all |
| Test vector encoders (`scripts/test_vector_generator`) | a frame being built | encode classic and FD frames with stuffing | test benches |
| Control software (`sw/rust_can_fd_fi_test`) | nothing between two invocations | one command per invocation: probes the core, then writes bit timing, slots or vectors, enables or disables | registers, through generated Rust accessors |
| Register class (`gen/can_fd_fi.cpp`, its two headers) | nothing | get and set methods for 35 registers and their fields; asserts on ranges | register bus |
| Bench script (`scripts/can_fi_phy_test`) | - | the order of commands: disable, slots, vectors, enable, send a frame | control software |
| Shell, generated register file, register generators, test benches | - | - | - |

**What is hard here.** Nothing is tested at the level of one edge, and everything depends on it:

* The units are pipelines. What the parser says of a bit, what the destuffer predicts of the next
  one, the slot and its vector become known on different edges; each consumer must use values of
  the same bit.
* Every process resets its registers under its own conditions (sleep, reset, match, done). What is
  left of an earlier frame, in particular one that was cut short, meets the next one.
* Values are loaded after the state that needs them was entered (widths after the DLC), or a field
  is skipped altogether (DLC 0).
* In transceiver mode the core must know what the others will see: it stuffs its own bits from a
  context it took over in mid-frame.
* The host writes registers at any time, a slot or a bit timing field by field; an error flag of
  another node may start at any bit.
* The timer unit reads the bus late, moves its time quantum counter with every edge, changes the bit
  rate in mid-bit and drives levels that come back to it; every bit must still be sampled once.
* A command of the control program is a list of register accesses with frames between them, and the
  program may die between any two. A field setter reads a register, and writes it back later.

**What makes each component correct.** *Parser:* it is at the sender's bit at every sample point, its
counter stays in the field, it always gets back to sleep, it carries nothing over. *Memory unit:* the
first matching slot of this frame, in time, with the vector the host stored. *Override unit:* the
bit that the slot names and no other; nothing without a match; a readable override; flags that tell
what happened; always an interrupt. *Timer unit:* one sample per bit, one PSP and FIP in order, the
transmit level released in time. *Control program:* a core that follows a frame does so with what
the operator asked for, as far as the program can promise it. *Register class:* a method changes the
fields it names, at one moment.

`PROJECT.json` lists the hazards with their lines and the properties aimed at them.

## 2. Modules

| Module | Stands for | State and actions |
| --- | --- | --- |
| `CanTypes` | `sys_config_pkg.vhd`, the DLC table of `can_fsm.vhd` | types; bit counts as constants |
| `CanFsm` | `can_fsm.vhd` | `ParserClock` (parser_fsm), `DestuffClock` (update_bs, bs_gate), `DlcClock` (parse_dlc), `Reset`; `Clock` is an edge. One action per branch: `FdfBit`, `LastDlcBit`, `TailBit`, ... |
| `BitClock` | what the parser may rely on of `timer_unit.vhd` | `awake` (tu_active_r) and the distance of two strobes |
| `TimerUnit` | `timer_unit.vhd` | one action per process: `BtlProcessor` (`CountQuanta`, `LockResync`, `HoldEdge`, `Strobes`, `Drive`), `TdcCounter`, `StateMgmt`, `GlitchRejection`, `StrobeGen`, `ShiftSpeed`; `TuClock` an edge |
| `TimerBus` | timer unit on a bus | a sender with its own clock, glitches, the delay of the transceiver, the parser's announcements, what the override unit arms, configuration mode |
| `ParserBus` | parser on an arbitrary bus | `SampleBit`, `Idle`, `WakeUp`, `Abort`, `ResetEdge`, `FallSilent` |
| `FrameTx` | the encoders (`canframe.py`, `canfdframe.py`, `utils.py`) | one `Send` per bit: fields, dynamic and fixed stuff bits |
| `FramePath` | `CanFsm` fed by `FrameTx` | `Begin`, `SampleSent`, `ClockEdge`, `SendUnsampled` |
| `MemoryUnit` | `id_matcher.vhd`, `memory_unit.vhd`, `payload_memory.vhd` | one action per process, `MuClock` an edge |
| `MemoryBus` | memory unit between parser and host | frames, configuration mode, slot writes, interrupt |
| `OverrideUnit` | `override_unit.vhd` | `ParseFiFrame`, `OuStateMachine`, `PrepOverride`, `ArmInjection`, `ShadowStuffer`; `OuClock` an edge |
| `Injector` | the core as wired in `can_fi_route.vhd`, on a bus | `Sample`, `BitStart`, `PreSample`, `FaultInjectionPoint`, `OtherEdge`, `SleepEdge`, `WakeUp`, `ResetEdge`, `CutShort` |
| `Host` | `main.rs`, `cli.rs`, the mapping of registers in `can_fi_route.vhd` | an invocation as the list of its accesses (`Probe`, `ConfCan`, `ConfFi`, `SetFi`, `SetVec`, ...), each field of a command with a read and a write of its own; `MakeAccess` one of them |
| `HostBus` | operator, program, memory unit and bus | `Launch` and `Kill` of invocations, one `Run` action per command, `ProgramStep`, frames |
| `RegisterMap` | the constants of `can_fd_fi.cpp` and its headers | index, mode, fields, checked ranges of the 35 registers |
| `RegisterAccess` | the methods of `can_fd_fi.cpp` | `GetRegister`, `GetField`, `SetRegister`, `SetRaw`, `SetOnly`, `BeginSet` and `EndSet` (read, then write) by several callers; `CoreWrites` |
| `FieldStore` | the interface `i_can_fd_fi.h`, as its callers understand it | `Get`, `Put`, `Present` on records of fields |
| `CodecProofs` | one edge of `CanFsm` and one bit of `FrameTx`, for all their users | |
| `ParserProofs` | theorems about `ParserBus` and `FramePath` | |
| `TimerProofs` | theorems about `TimerBus` | |
| `MemoryUnitProofs`, `MemoryProofs` | tree and payload memory for both users; theorems about `MemoryBus` | |
| `InjectorProofs` | theorems about `Injector` | |
| `HostProofs` | theorems about `HostBus` | |
| `RegisterProofs` | theorems about `RegisterAccess` | |
| `MC*` | instances for TLC | |

`Injector` extends `OverrideUnit` (which extends `CanFsm`), `MemoryUnit` and `FrameTx`; `FramePath`
extends `CanFsm`, `BitClock` and `FrameTx`; `HostBus` extends `Host`, which extends `MemoryUnit`. The
registers have the names of the code without `_r`.

Two abstract specifications have a detailed one that implements them. `BitClock`, on which
`ParserBus` and `FramePath` are built, is what is left of the timer unit when one only sees it sleep,
wake and sample: `TimerBus` implements it (`ImplementsBitClock`; a theorem but for frames that the
unit sends at the data rate). `FieldStore` is a store of records
whose methods are atomic: `RegisterAccess` implements it with words, masks and two accesses per method
(`ImplementsStore`; also a theorem), where callers of a register take turns.

Abstractions, each with its reason:

* *Shift register of the destuffer* as newest bit and length of the run that ends in it (at most 5):
  the unit never asks for more. The same for the shadow stuffer.
* *Bit counts* are constants, since the runs on compositions need shorter frames. The
  theorems hold for all.
* *Payload, CRC, identifier bits* take any value in `FrameTx`: more frames than the encoders send.
  The override vector's bits are arbitrary in `Injector` (`DataBits`); that the right vector is
  there is `ServedAsWanted`.
* *Registers without a reset value* start at the 0 that the FPGA configuration gives them.
* *Timer unit in `Injector`*: a bit is `BitEdges` edges; sample point, bit boundary, PSP and FIP are
  at fixed phases in this order. That the timer unit keeps this order whatever it does to its counter
  is `PointsInOrder` of `TimerBus`, a theorem. `PhasesAssumption` also has the match queued before the next PSP:
  `TreeDepth + 7` edges, 10 with the 8 slots of the core, and a nominal bit (1 Mbit/s at most) has 80
  at the 80 MHz of the bench (tb_func_timer_unit.vhd:102).
* *Delay counter*: of `td_cnt` only distances are used, so each stored value is replaced by the time
  quanta since it was stored, modulo the width of the counter.
* *Other units in `TimerBus`*: the parser announces what the kind of the sampled bit calls for; the
  override unit arms or takes over where it likes, at the edge at which its process does. `err_stat`
  is 0, the sender sends on whatever is done to a single bit, and it gives up when the unit takes over.
  After the unit's own frame the bus is idle: its tail is left out.
* *Registers in `Host`*: the four configuration registers are records of their fields, `GLOBAL_CONFIG`
  (with `cfg_en`), `NOMINAL_CONFIG`, `DATA_CONFIG` and `FI_CONFIG`. Their values fit the field; what a
  setter makes of one that does not is in `RegisterAccess`. Identifiers, masks and metadata are cut to their
  fields, as the setters of the slots do. What a fault's field and meta mean to the override unit is the
  subject of `Injector`; here they have to arrive.
* *Words in `RegisterAccess`* are the sets of their 1 bits: shift, and, or and the comparison of
  values have exact counterparts that the prover can handle.
* *The other nodes in `Injector`* are one sender and the error flags of anybody. A sender that reads
  a dominant level for its recessive bit flags an error or, being error passive, falls silent.
* Mutated forms of definitions are marked `mutant` and used by no specification.

## 3. Runs

| Run | Question | States |
| --- | --- | --- |
| `parser_bus` | On any bit sequence, with aborts and resets at any edge: counter in its field, fresh widths, parser and destuffer in step, clean start, stable identifier; a silent bus releases the core | 0.6 M |
| `frame_path` | The parser follows every frame of the encoders, all DLCs and formats, announces in time and lets go in time | 0.3 M |
| `timer` | The timer unit on a bus: each bit sampled once and as the others read it, points in order, injections exactly on their bit, back to sleep on a quiet bus, `BitClock` implemented | 0.6 M |
| `memory_slots` | Pipelined tree and frame register, slots rewritten meanwhile: the first matching slot, in time | 0.3 M |
| `inject_bit` | Whole core, ten kinds of slots, classic and FD: exact hit, no stray injection, truthful flags, unit ready, frame followed to its end | 2.8 M |
| `inject_override` | DLC and payload overrides with arbitrary vectors: in their field, in order, readable, shadow in step | 2.1 M |
| `inject_live` | Every match is answered by an interrupt, for each kind of injection | 0.1 M |
| `host` | Invocations of the control program access by access, some killed, beside frames: the core runs as configured, serves what was typed, gets back to work | 1.3 M |
| `registers` | Two callers of the register class, each register beside a kept one: the store of fields implemented, damage reported, getters quiet | 0.03 M |

Bounds. *Parser on a bus*: 2 + 2 identifier bits, one bit per payload byte, CRCs of 6, 9 and 13
bits: each loop of the parser runs through its first, inner and last bits, and the fixed-stuffed
fields hold several groups. `MinGap` = 2 edges between samples is the shortest distance the timer
unit can produce; longer ones are included. (For the code's own bit counts the safety properties of
the counter, widths and identifier are proved, section 4.) *Frames*: each DLC from 0 to 15, each
format, the CRC lengths of the code. *Timer*: two register contents, one with a measured delay and
another prescaler at the nominal rate, one with a fixed secondary sample point; bits of 18 to 22
edges, a delay of one edge in the transceiver besides the three input registers, a sender that is off
by one edge between two resynchronisations, up to two recessive bits in a row (each falling edge
may resynchronise, and so does the first bit without one). Two delay slots, as in the code; the slot
counter wraps at 64, far beyond the longest bit, as 1024 is. Glitches of one or two edges; three idle
bits instead of 11 end configuration. Whatever happens in a bit needs two or three bits before it,
so frames have no length: the kinds of bits follow each other as in a frame, in any number.
*Memory*: a tree of depth 2, so that both a leaf level and an inner level are merged, with a rewritten
slot on either side. *Core*: 11 edges a bit, enough for the slot to arrive one bit after the identifier
and for each stage of the override unit to settle; two slots, one for another identifier; CRCs of 2 to
6 bits (an FD frame has two fixed stuff groups and an incomplete one, as in the code); vectors of 16
bits, longer than the payload and CRC of the frames they are sent in. *Host*: two slots, vectors of
three segments over two banks of different width, identifiers of one bit; a `conf-can` with two fields
in different registers, of which the probe writes one, and a `conf-fi`; a single-bit fault and a
payload, with an identifier, a mask, a field and metadata that have to be cut, a mask other than
the reset's, and a slot number that no slot has. *Registers*: all 35; two callers, three calls, of which two may be under
way at once; values at and beyond the limits. Counters are bounded by the fields they count. Nothing is cut off
by a state constraint.

Fairness. `BusFairSpec`: the clock runs, and while awake the timer unit keeps sampling (its time
quantum counter is free running). `TimerBusSpec`: the clock runs. `CoreFairSpec`: the clock runs; no
resets from outside. `HostBusSpec`: an invocation makes its next access sooner or later, unless it is
killed; nothing makes the operator or the bus do anything. The sender's bits and errors are choices
within fair steps, never assumed to be good. Deadlock is checked in every run but `registers`, where
the calls are used up.

**The operator of `HostBus`.** The program itself does not protect a running core from a half-written
slot; the order of its invocations does. `HostBus` takes it from `python_test.py` (139-149): disable,
set slots and vectors, enable. Status, bit timing and sample points are used at any time, as the bench does
(python_test.py:95-96). For the status the probe is protection enough: it puts the core into
configuration mode and gives it back as it was. For the bit timing it is not: `main.rs:78` has restored
`cfg_en` when `conf-can` starts to write, and an enabled core follows frames between any two of
the up to ten fields. `RunsAsConfigured` says what can be said of these frames: each field has the
value from before the command or the one from after it, never that of the probe, and fields that the
command does not name do not move; all of them are as asked when no such command is under way.
An operator who saw an invocation die disables the core, repeats that
command, and before enabling sets again the fields it named and `brp_nomi`: a probe that is killed after
main.rs:71 leaves the test prescaler behind, and the next one saves and restores it faithfully.
`RunsAsConfigured` fails as soon as one of these steps is left out.

### Differences between code and documents

Three runs state what a comment or a document says and find a counterexample:

| Run | Says | Does |
| --- | --- | --- |
| `inject_cut` | override_unit.vhd:236: reset registers for the next frame | a frame cut short by configuration mode (any command of the control program does it, a status query too) leaves state and queue; a later unmatched frame is driven |
| `timer_takeover` | timer_unit.vhd:395: a timestamp slot for each bit boundary | taking over on a bit that is dominant already allocates none (396 wants `injection_arm_i`): at the data rate this bit is never sampled and the parser is a bit behind |
| `host_mask` | cli.rs:237: no mask given, use all bits | the default has a 1 for every bit, and id_matcher.vhd:153 ignores bits with a 1: the slot matches every identifier |

The properties of the passing runs are stated around these: `NoStrayInjection` holds of frames that
are not cut short, `SampledOnce` of take-overs on recessive bits (`OnDominant`). Others, which have no
run of their own but shape the properties or the environment:

* can_fsm.vhd:580-582 wants seven consecutive recessive samples before AWAIT_EOF ends. The code counts
  pairs of recessive samples, with any number of dominant ones between. `SilentBusReleases` is the
  other half, that the wait ends; no property says that it is long enough.
* override_unit.vhd:225 and 264 want the error flags latched until the next match; every error frame
  sets `inj_err_fsm` (250-252), matched or not. `FeedbackTruthful` speaks of matched frames.
* README.md:44 gives FI-BSFX an index in its field; 333-343 and 425-432 count through both CRC fields
  and ignore the field. `SingleBitExact` uses the count of the code.
* README.md:58 drives up to the CRC delimiter; a vector without an effective dominant bit before it
  drives the delimiter itself (358-360, 463-468). `OverrideInField` leaves this case out.
* README.md:28 has the core initialised in configuration mode; after a reset it sleeps, with `cfg_en`
  0 (timer_unit.vhd:600, can_fd_fi_registers.toml:63). The operator of `HostBus` starts from there.
* README.md:28-36 has the core configured first, and configuration mode left then. Nothing in
  `conf-can` and `conf-fi` (cli.rs:215-233) asks for it, and the bench sets bit timings on a core that it has
  not disabled (python_test.py:95-96, utils.py:118-136): frames meet a mixture of two timings.
  `RunsAsConfigured` allows it, field by field.
* can_fd_fi_registers.toml:38 describes `tu_ready_config`; timer_unit.vhd:457-467 sets it even when a
  dominant level at this edge keeps the unit in CONFIG, and it stays set for a whole further wait.
* memory_unit.vhd:209-211 loads the active frame again at every edge, so that a host that rewrites a
  slot changes the injection in mid-frame (README.md:52 says the slot is loaded on match, and nothing of
  later writes). `SlotSelected` asks for slots that were not written in the frame.

### What the timer unit needs of its configuration

The run `timer` fails for register contents outside of these limits, none of which the core checks:

* The PSP lies behind the delay: `psp * brp > Delay + 4` edges, or it reads what is left of the bit before.
* FIP and the way through the transceiver end before the sample points of all nodes; the FIP is at
  least two edges behind the PSP, so that the armed bit is there.
* At the switch of the rate PH1, PSP and FIP change only at the start of the next bit while the
  prescaler changes at once: `psp >= 2` and `(psp - 2) * brp >= 1` at both rates.
* The secondary sample point is the distance from the bit boundary at which a bit is read, but the
  take-over starts its slot at the FIP. `ssp = ph1 + 1`, as tb_func_timer_unit.vhd:639 has it, reads
  this one bit too late.

A glitch shorter than the filter, right before a SOF, makes the unit miss the frame: it goes back to
sleep in the dominant SOF and wakes at the next falling edge (`GlitchGap`). A bus without `IdleBits`
recessive bits never lets the unit out of configuration (so `QuietBusSleeps` starts from a quiet bus).

Every property of a passing run has a mutant of the code (PROJECT.json) that violates it.

## 4. Proofs

All theorems about the core hold for every value of its constants that satisfies the assumptions of
its modules: `WidthsAssumption`, `CounterAssumption` (arbitration field and CRC fit the counter), `MinGapAssumption`
(no two sample strobes on adjacent edges), `FdCrcAssumption` (the CRC of an FD frame ends in an
incomplete stuff group; it does for 17 and 21 bits), `MemoryAssumption`, `PowersAssumption`,
`PhasesAssumption`, `TablesAssumption`, `VectorAssumption`, and in the timer unit `TimerAssumption`,
`TimerBusAssumption`, `TimingsAssumption`.

### The parser on an arbitrary bus

`ParserProofs` proves of `BusSpec`:

* `TypeCorrect`: `[]BusTypeOK`;
* `CounterStaysInField`: `[]CounterInField`;
* `WidthsStayFresh`: `[]WidthsFresh`;
* `IdentifierStable`: `IdStable`;
* `StufferStaysInStep`: `[]StufferInStep`;
* `EveryFrameStartsClean`: `[]FrameStartsClean`.

*Argument.* Types come in two parts. `TypesAndWidths` needs one fact besides itself, `GroupOpen`: the
stuff group counter is below 4 while it counts. It knows the bit counter as a natural number only: that it
keeps the range of its VHDL declaration (0 to 512, can_fsm.vhd:84) follows from the place in the field where
`CounterInField` has it, and `TypeCorrect` puts the two together. `CounterInField` is not inductive,
because in DATA and CRC the bound is a register
loaded an edge after `dlc_ready`. The strengthening `ParserInv` adds that no sample falls on that
edge (`LoadPending`, where `MinGap >= 2` is used), that the counter is still 0 then (`LoadAtStart`),
that the register then has the width of this frame (`WidthsFresh`) and that it is not 0 in DATA
(`DataHasLength`, from the jump over DATA for DLC 0); `ArbitrationUnready` gives `IdStable`, which
speaks of the identifier, and of frame format and DLC from when they are parsed. The
lemmas go from the operators (`WidthBounds`, `ShiftBounds`) over one process at a time
(`ParserTypes`, `DestuffTypes`, `WidthTypes`, `ParsedBit`, `ClockKeeps`) to the step
(`ParserInvStep`); no proof depends on the fields' lengths. That samples are apart is not an axiom
of the project: it is what `TimerClock` proves of the timer unit.

The last two theorems need parser, destuffer and timer unit together. `PhaseInv` says where an active
timer unit finds them: about to start (`Starting`, nothing left over), in a frame (`Following`), or done
for this very edge (`Done`). In a frame, `InStep` gives the destuffer's states for each state of the
parser; while `destuff_strobe` is up it is a bit behind and may still be in the mode of the field
before, which is why `StufferInStep` alone is not inductive. The lemmas `PhaseOf...` of `CodecProofs`
have one case per kind of edge: wake-up, first edge, sample point, any other.

### Every frame of the encoders

`ParserProofs` proves of `PathSpec`, for all lengths of identifier, byte and CRC, each format and
DLC, any payload and any spacing of the sample points from `MinGap` up:

* `ParserKeepsUp`: `[]ParserAligned`, the parser is at the sender's bit at every sample point and
  predicts the stuff bits that come, and no others;
* `FrameDecoded`: `[]Decoded`;
* `FlagsInTime`: `[]AnnouncedInTime`;
* `FrameReleased`: `[]ReleasedInTime`.

*Argument.* `PathInv` speaks of every edge, not only of sample points. `CodecProofs` gives the sender by
itself: `FieldOrder` (the next field, which `NextField` finds in a concatenation of sequences, is that
of the table `Successor`), and `TxInv`: a stuff bit is due after five equal bits or a full group
(`StuffDue`), and none falls between FDF and BRS (`NoStuffBeforeBrs`: the bit before FDF is 0), so that no
stuff bit takes an announcement down before its bit comes. In a frame (`Receiving`) the parser is at the
next bit as soon as it was clocked (`Aligned`, `Decoding`, `Announcing`), and the destuffer one edge later:
`Behind` relates what it held before the bit to what the sender made of the bit, `CaughtUp` is what the
next edge makes of that. One lemma per group of fields (`ArbitrationFollows` to `TailFollows`) takes the
parser and the sender one bit on; `SampleReceived` and `EdgeReceived` put the halves together. The
incomplete last group of `FdCrcAssumption` is where the destuffer could otherwise expect a stuff bit
behind the CRC. A type mistake in a width, a wrong jump in the control field or a lost boundary between
the two stuffing modes breaks one of these lemmas.

### The timer unit

`TimerProofs` proves of `TimerBusSpec`, for any number of register contents within the ranges of
sys_config_pkg.vhd, any delay, sender, glitches and requests of the other units:

* `TimerTypes`: `[]TimerTypeOK`;
* `TimerPoints`: `PointsInOrder`;
* `TimerClock`: `ImplementsBitClock`, in every behaviour with `[]AtSamplePoint`;
* `TimerFollows`: the same step by step, without that hypothesis, while the unit does not send itself.

*Assumptions.* `OrderedTimings` (`3 <= psp < fip <= ph1` at both rates) is what section 3 asks of a
configuration, as far as the order of the points goes; `TimerPoints` uses it. `SpacedTimings` (`MinGap < ph1`
at both rates) is used by the last two. `AtSamplePoint`: a unit that sends is not at the data rate. There the
strobes are those of the delay slots, and how far apart two of them are depends on the measured delay and on
the sender; for this case `ImplementsBitClock` stays with `timer`. Both register contents of `timer` satisfy
the first two.

*Argument.* `CounterMoves` is what a tick does to the quantum counter: on by one, back or on within the
bit, or to the start of a bit. A switch of the rate leaves the counter and moves the points, which could put
a point behind the counter unseen; `BitStarts` (PSP, FIP and PH1 are only exchanged while the counter is at 0
or 1) excludes it. `PlaceInv` then says between which points the counter is, by the last one that came:
`PlaceStep` takes it over an edge. For the distance of two samples, `GapInv` bounds the counter by the edges
since the last one: resynchronisation only takes it back, or past the sample point, so that it comes back to
it by single steps and is at most two ahead (`Within`). `FollowedGapStep` has the way out of a frame of the
unit's own: it gives up `xcvr_mode` asleep, where the counter is 0.

### The memory unit

For every depth of the tree, any identifiers and masks, and banks of any size, `MemoryProofs` proves

* `SlotIsSelected`: `[]SlotSelected`;
* `VectorIsServed`: `[]ServedInTime`;

and `MemoryUnitProofs`, whatever the unit is composed with,

* `SegmentStored`: a write of the host changes the addressed segment of the addressed vector, in whichever
  bank it is, and no other word; the rows of two vectors never overlap.

*Argument.* `SlotSelected` speaks of the root. `TreeInv` says of each node what it reports at each age of the
identifier: the first matching slot below it once the identifier has come up to its level, and before
that nothing. `TreeAdvances` is one edge of the tree for any neighbours; `MergeReports` is the step from two children to their parent, on the two halves of the
slots (`Halves`). `FrameInv` and `ReadInv` continue the same for the frame register and the fetch of
the vector. All of it is claimed while the unit is awake and no slot was written in this frame (`Served`).
`PowersAssumption` states `2 ^ (d + 1) = 2 * 2 ^ d` for the levels of the tree: arithmetic, but out of
the provers' reach, which know exponents of numbers only; TLC evaluates it in each run.

### The core on a bus

`InjectorProofs` proves of `CoreSpec`, for all lengths of the fields, any depth of the tree, any identifiers
and masks and any places of boundary, PSP and FIP in the bit that satisfy `PhasesAssumption`:

* `NoStrays`: `[]NoStrayInjection`;
* `ReadyForEveryFrame`: `[]UnitReady`;
* `ExactBit`: `[]SingleBitExact`;
* `FrameFollowed`: `EndsWithFrame`;
* `FeedbackTold`: `[]FeedbackTruthful`;
* `CoreTypes`: `[]CoreTypeOK`;
* `OwnDlcReadable`: `[]OverrideReadable`;
* `OwnDlcInField`: `[]OverrideInField`;
* `OwnDlcInStep`: `ShadowInStep`.

*Assumptions.* All have `NoPayload`: the slots of a table ask for a single bit (`FI_BIT`, `FI_BSDY`,
`FI_BSFX`), for another DLC (`FI_DLC`) or for nothing, side by side as they come. Left out is `FI_DATA`: there the
index of the vector must not run out, which depends on the length of the field that is overridden.

*Argument.* All speak of the override unit, but none holds for reasons of its own: it drives in a bit
because of what it decided at the bit before, for a slot that was found by a search that ended in the
middle of the first CTRL bit. `CoreInv`, for the frames that the unit receives (all but those whose
DLC it overrides), has a part for each of these. `BusInv` puts the parser where the sender is
(`Framing`, from `PathInv`), or, in a frame that was given up, behind the identifier and
in step with the destuffer (`Broken`); with `IdentifierHeld` the slots that are hit are those of the
identifier on the bus. `ChainInv` gives the edges since the identifier came, an age, and at each age the
tree (`TreeOf`, as in `MemoryProofs`), the frame register, the fetch and the unit's own match: what arrives
arrives for this identifier, and once (`MatchAt`: exactly `TreeDepth + 3` edges after it). `UnitInv` places the three
stages in the bit: `Strobed` (a prepared bit is queued at the edge after), `Queued` (a queued bit belongs to
an active unit, and from the PSP on it is armed or gave way to a dominant bit), `Armed` (an armed bit
drives from the FIP on, and has driven until the boundary), `Finished` (an error flag and the end of the frame
stop the unit, fixed stuff bits before CRC delimiter and ACK have all come). `AsleepInv` says which of
the registers is cleared at which edge after `eof_stat`; they are all clear before the next SOF can come.
`AwakeEdges` makes one edge of all steps of a frame, `OuBranches` four cases of the unit's process;
`StrobedStep`, `QueuedStep`, `ArmedStep` and `FinishedStep` take the parts over that edge, and `FallAsleep`,
`SleepStep`, `WakeUpStep` and `ResetStep` the gap between two frames.

Which bit is hit is one step further, because the unit prepares a bit before it is on the bus, at the sample
of the bit before it. `Foreseen` and `Ahead` say that at this moment sender, parser and destuffer agree on the bit that
comes (`Upcoming`): its field, its place in it, and whether it is a stuff bit of which kind. `ExactInv` adds to
`CoreInv` that the sender's count of the slot's stuff bits never passes a target
unnoticed (`GhostInv`), that the unit has counted exactly the stuff bits that have gone by, although it looks
at a register the destuffer leaves one bit later for fixed stuff bits than for the others
(`CountInv`, `ShadowInv`), that what it prepares or has queued is the slot's bit, before the boundary as the bit
ahead and after it as the bit on the bus (`PrepInv`, `QueueInv`; `StageOne` and `StageTwo` take the two decisions), and that
a bit that was made dominant was the target, and silences the sender that saw it
(`HitInv`), so that there is no second one.

The flags are read between two frames, edges after the unit is done, and several edges after that it
may only know that it prepared nothing. `FlagInv` therefore keeps what became of the target: while it is on
the bus (`Current`) the unit hunts, or has just given way to its dominant level (`TargetInv`); a target that the
unit has taken into account is queued (`TakenInv`), so that at its sample a recessive one is hit and a
dominant one reported (`TargetSampled`, `OutcomeInv`). For "miss" it needs the converse, that a unit that stops
has nothing left to hit (`OverInv`): the parser never goes back in its order of states (`Onward`), nor does
what the unit remembers of it come before the parser (`OrderInv`), and a stuff bit still due belongs to a state that is past
as well (`MissOver`, `OverKept`). `NoneInv` is what remains for a target that never came, and says
nothing of frames with an error flag: a flag ends the hunt wherever it starts. `FlagSleep` takes the flags
over the edges up to the interrupt.

In a frame whose DLC it overrides the unit is the sender from the first bit it claims. Its stages then serve
another purpose, `UnitInv` is false, the sender of the frame gives up, and parser and destuffer read what the
unit itself puts on the bus. `WholeInvariant` is the invariant for both kinds of frames. `SideInv` has `UnitInv` in the one and
`SenderInv` in the other: the unit listens for the first bit it has to change (`Listening`), has claimed it
and waits for PSP and FIP (`Claiming`), drives bit after bit (`Sending`), or has nothing left but what the last
bit leaves in its stages (`Resting`); `FreshInv` is what it finds at the match. `DlcInv` is the part that needed
finding: nothing in the unit stops it from sending into the end of a frame that got shorter by its own DLC. `DlcInTime` counts the bits
of the DLC that are still to come, each with a stuff bit before it (`DlcLeft`, `StuffAhead`), and compares
them with the least that the parser has still to read (`FrameLeft`); that the unit's two shadows never insert two
stuff bits in a row (`NoTwoInserts`) keeps the count from falling behind. So the unit is at rest when the frame ends (`TakenEnds`),
and `StillInv` hands over to `AsleepInv`. `ToldInv` says the same of the feedback: `ExactInv` and `FlagInv` for frames that are received,
`DrivenInv` for the others, where pending falls with the first bit that is made dominant (`PendingHits`).

What the bits of a sent DLC are to parser and destuffer is `OwnInv`, on top of `WholeInv`. The unit sends by
itself: a claimed bit is armed only if it was sent recessive, and the sender that finds it dominant
gives up, so that until somebody flags an error the level is the unit's (`Alone`). The unit has to be one bit ahead of the
parser, because what it queues is on the bus before the parser has read it. `InDlc` states this lead between
the edges: the shadow counter is at the bit behind the one on the bus (at the same one for a stuff bit, or once it has
been read), the shadow stuffer is where the destuffer will be once it has taken in the queued bit (`TakesIn`), and they are
alike (`Alike`) for the two edges between one bit and the next. `PastDlc` is what may follow the last bit: its stuff bit,
and a recessive bit that is nobody's. `InTune` adds that a bit which the destuffer takes for a
stuff bit is one. `TuneStarts` shows it for the bit that the unit starts with, whose shadows are copies, `TuneClaims` up to its
FIP, and `TuneSampled`, `TunePrepared` and `TuneSends` at the three kinds of edges of each bit after.
A shadow that is copied an edge too late, or one that does not take in its own stuff bits, breaks `InDlc`. The second half of
`OverrideInField`, of payload slots, is empty under `NoPayload` and stays with `inject_override`.

`CoreTypes` stands by itself, for every step and every slot. It needs three facts next to the types, that the
groups of the destuffer and of its shadow are short (`GroupOpen`, `ShadowOpen`) and that a flag has bits left to
send, and has one lemma for each process of the units (`StateTypes`, `PrepTypes`, `StufferTypes`).

### The control program

`HostProofs` proves of `HostBusSpec`, for any number of slots and segments, any lists of fields on the
command lines of `conf-can` and `conf-fi`, any identifiers, faults and payloads, and kills at any access:

* `RunsAsAsked`: `[]RunsAsConfigured`;
* `ServedAsAsked`: `[]ServedAsWanted`.

*Assumptions.* `OperatorAssumption` is what the parsers of the command line let through; indices may be
wrong. Both theorems have the hypothesis that each of the `FiLines` has a mask. It is needed: `host_mask`
shows what a slot that was programmed without one does.

*Argument.* `HostInv` (proved as `HostInvariant`) follows an invocation from access to access.

* *The list.* `TodoInv` says which access comes next (`Made` of them were made), so that a step is known
  from its number: the probe, then the command. The lists of `conf-can` and `conf-fi` have a read and a
  write for each field that is given, and no length known in advance. `Sets` says of such a list that
  each write is of a field that was given, with the value given, after a read of the register of
  that field, and that every field given has one; two such lists joined are one again (`ConfSets`).
* *The pair.* `SetterInv`: between the two accesses of a field setter, `base` is what the register still
  has, because there is one invocation at a time; so what is written back with the field is what was
  there, and fields that were set stay set. With two callers this fails: the subject of the next part.
* *The fields.* While the probe has its test value in the register, `Settled` is the configuration it
  will give back, and what is claimed of a field is claimed of that: it is among the values that the
  operator reckons with, one, or several from a kill on. `unset` has the fields of which there are
  several, and the core is enabled only when it is empty.
* *Slots and vectors* are as asked but for the one that is owed or under way, which needs a disabled
  core. A vector is not in the RAM at once: a write is presented, taken over and stored at three
  edges (`EdgeWrites`). `Stored` is the memory with these writes done, `Arrived` what a vector under way has
  of it, word by word from the last segment, and `PendingInv` says that no write is on its way when
  the core is enabled.

There is one lemma for each kind of access and one for each end of an invocation. In a frame nothing of this
changes (`Quiet`) but timing fields, which the memory unit does not read, so `ServeInv` only follows
the identifier through the tree (with `TreeAdvances`) and the vector through RAM and output register
(`ServingEdge`).

### The register class

`RegisterProofs` proves of `Spec` of `RegisterAccess`, for any registers, callers, arguments and
number of calls:

* `StoreImplemented`: `ImplementsStore`, every step is one of `FieldStore` or a stutter;
* `SpillAlwaysReported`: `[]SpillReported`;
* `GettersQuiet`: `[]GetterQuiet`.

*Assumptions.* `LayoutAssumption`: registers have indices, and fields bits, of their own, and reset
values fit. `RangeAssumption`: the limit a setter checks fits the field, and getters accept what the
reset and the core put there. `ArgsAssumption`: arguments are 32-bit words of the types in the
signatures. TLC evaluates all three for the 35 registers of `RegisterMap` in the run `registers`: they
are what the generated constants have to get right.

*Argument.* On sets of bits, `RoundTrip` (a value that fits survives being shifted in and sliced out),
`ModifiedFields` and `JoinedFields` say that a write changes the slices of the fields it names and no
others, and `AcceptedFits` that a value below the checked limit fits. `ShapeInv` types the bus and
the calls under way. The store is implemented through `TurnInv`: the word that a caller of a kept
register read is still the one in the register when it writes, because others waited; this is where
the discipline is used, which the class (it has no lock) leaves to its callers. `GetterQuiet` is not
inductive either: `QuietInv` adds that, without misuse, every word a getter can see *and every word
a caller holds between its two accesses* has fields in range, because a stale word may be written
back. `ShapeStep`, `TurnStep` and the steps of the others have one case per method.

### Only model-checked

Liveness (outside the prover). Of the timer unit what it samples and drives in relation to the sender
(`SampledOnce`, `ReadAsOthers`, `InjectedExactly`, `OwnBitsRead`, `PspUndisturbed`, `WakesAtSof`): these
compare two clocks over whole bits, by products of register contents, prescalers and drift that the prover
does not handle; and `BitClock` in frames sent at the data rate. Of the composed core
tables with payload slots, in all of its properties, and with them the order of the bits of the vector
(`PayloadInOrder`): `inject_override` checks what is sent and the types with them, `inject_bit` that a vector
for another DLC leaves the frame alone and is reported.

## 5. Not modelled

* `Injector` with the whole timer unit instead of its phases: the product is out of TLC's reach. The
  two meet in what `TimerBus` shows of the order of the points.
* Bit errors that the sender reacts to, and `err_stat`, in `TimerBus`: they are in `Injector`.
* Two invocations of the control program at the same time: nothing in it excludes them, the bench
  scripts never do it, and what two read-modify-write accesses do to each other is in `registers`.
* Remote frames and classic frames with a DLC above 8: the encoders do not send them.
* The test bench buffers of the parser, debug registers and the status pins of the timer unit.
* Shell, generated register file (an instance of a library that is not in the repository),
  generators, test benches: no behaviour of their own.

## 6. Plan

1. (done) Parser and destuffer; arbitrary bus, then the encoders' frames; first theorems.
2. (done) Memory unit; override unit; the core on a bus.
3. (done) Timer unit, and that it implements `BitClock`.
4. (done) Control program and registers; the register class and its theorems.
5. `FrameObserver`, an abstract specification of the parser (a frame is followed, its identifier
   announced once, its end reported once), implemented by `ParserBus`.
6. (done) Proofs for the parser in step with the destuffer and with the encoders, for the memory unit
   and for the control program.
7. (done) Proofs for the composed core with single-bit and DLC slots: no stray injection, clean start, the
   exact hit, the frame followed to its end, the feedback, the types, the bits of an overridden DLC.
8. (done) Proofs for the timer unit: types, the order of the points, `BitClock`.
9. Proofs: payload slots.
