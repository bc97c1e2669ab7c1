------------------------------- MODULE HostBus -------------------------------
(***************************************************************************)
(* The control program, the memory unit and a bus with frames, driven by   *)
(* an operator who works like python_test.py: slots and vectors are        *)
(* programmed between disable and enable, bit timing, sample points and    *)
(* status at any time, one invocation after the other. An invocation may   *)
(* be killed; the operator then disables the core, repeats what was killed *)
(* before other programming, and sets again, before enabling, the brp that *)
(* the probe may have left behind and the fields of a killed command.      *)
(***************************************************************************)
EXTENDS Host

CONSTANTS
    CanOptions,     \* command lines of conf-can: [field -> value], of the
    FiOptions,      \* fields that are given; and of conf-fi
    FiLines,        \* of set-fi: [idx, value, mask, fault]
    VecLines        \* of set-vector: [idx, words]

\* The parsers of the command line; an index is checked by the commands.
ASSUME OperatorAssumption ==
    /\ ResetTiming \in [TimingFields -> Nat] /\ ProbeBrp \in Nat
    /\ \A args \in CanOptions \cup FiOptions :
        \A f \in DOMAIN args : f \in TimingFields /\ args[f] \in Nat
    /\ \A args \in CanOptions : FieldsOf("FI_CONFIG") \cap DOMAIN args = {}
    /\ \A args \in FiOptions : DOMAIN args \subseteq FieldsOf("FI_CONFIG")
    /\ FiLines \subseteq [idx : Nat, value : Nat, mask : Nat,
            fault : [kind : DOMAIN OneHot, field : 0 .. 7, meta : Nat]]
    /\ VecLines \subseteq [idx : Nat, words : Seq(Words)]

VARIABLES
    awake, id, id_ready,    \* tu_active_r and the parser's identifier
    mode,                   \* operator: "on", "off", "unsure"
    key,                    \* the command under way
    owed, unset,            \* commands to be repeated, fields to be set again
    want, wanted            \* what the operator asked for; with this command

busVars == << awake, id, id_ready >>
operatorVars == << mode, key, owed, unset, want, wanted >>
hostBusVars == << muVars, id_mem, hostVars, busVars, operatorVars >>

Ids == 0 .. 2 ^ IdBits - 1
Idle == << "none", 0 >>
Unset == [value |-> 0, mask |-> 0, fault |-> [kind |-> "none", field |-> 0, meta |-> 0]]

\* The fields that a command sets, of those that the operator keeps count of.
Timed(command) ==
    IF command[1] \in {"conf_can", "conf_fi"} THEN DOMAIN command[2] ELSE {}

\* want.timing has, of each field, the values that the operator reckons with:
\* one, or several from when a command that sets the field was killed until it
\* is set again.
HostBusInit ==
    /\ MuInit /\ HostInit
    /\ awake = 0 /\ id = 0 /\ id_ready = 0
    /\ mode = "unsure" /\ key = Idle /\ owed = {} /\ unset = {}
    /\ want = [timing |-> [f \in TimingFields |-> {ResetTiming[f]}],
               slots |-> [e \in Entries |-> Unset],
               vectors |-> [e \in Entries |-> NoData]]
    /\ wanted = want

Unit == MuClock(1 - awake, id, id_ready, Value("cfg_en"), Presented, 0, 0)
-----------------------------------------------------------------------------
(* The bus *)

Edge == Unit /\ NoAccess /\ UNCHANGED << busVars, operatorVars >>

StartFrame ==
    /\ awake = 0 /\ Value("cfg_en") = 0
    /\ awake' = 1 /\ id' \in Ids /\ UNCHANGED id_ready
    /\ Unit /\ NoAccess /\ UNCHANGED operatorVars

IdComplete ==
    /\ awake = 1 /\ id_ready = 0
    /\ id_ready' = 1 /\ UNCHANGED << awake, id >>
    /\ Unit /\ NoAccess /\ UNCHANGED operatorVars

EndFrame ==
    /\ awake = 1
    /\ awake' = 0 /\ id' = 0 /\ id_ready' = 0
    /\ Unit /\ NoAccess /\ UNCHANGED operatorVars
-----------------------------------------------------------------------------
(* The program *)

\* With its last access a command has been carried out.
Carried ==
    /\ want' = wanted
    /\ owed' = owed \ {key} /\ unset' = unset \ Timed(key)
    /\ mode' = IF key[1] = "enable" THEN "on"
               ELSE IF key[1] = "disable" THEN "off" ELSE mode
    /\ key' = Idle /\ UNCHANGED wanted

\* cfg_en puts the timer unit to sleep; the next access comes edges later.
ProgramStep ==
    /\ MakeAccess
    /\ Unit
    /\ IF Value("cfg_en")' = 1 THEN awake' = 0 /\ id' = 0 /\ id_ready' = 0
       ELSE UNCHANGED busVars
    /\ IF todo' = << >> THEN Carried ELSE UNCHANGED operatorVars

Launch(command, accesses, result) ==
    /\ todo = << >>
    /\ todo' = Probe \o accesses
    /\ key' = command /\ wanted' = result
    /\ UNCHANGED << muVars, id_mem, config, mu, was_written, base, cfg_save,
                    busVars, mode, owed, unset, want >>

Kill ==
    /\ todo /= << >> /\ todo' = << >>
    /\ owed' = owed \cup (IF key[1] \in {"set_fi", "set_vec"} THEN {key} ELSE {})
    /\ unset' = unset \cup {"brp_nomi"} \cup Timed(key)
    /\ want' = [want EXCEPT !.timing = [f \in TimingFields |->
                                         @[f] \cup wanted.timing[f]]]
    /\ wanted' = want'
    /\ mode' = "unsure" /\ key' = Idle
    /\ base' = << >> /\ cfg_save' = << >>
    /\ UNCHANGED << muVars, id_mem, config, mu, was_written, busVars >>
-----------------------------------------------------------------------------
(* The operator *)

RunStatus == Launch(<< "status", 0 >>, << >>, want)
RunEnable ==
    mode = "off" /\ owed = {} /\ unset = {} /\ Launch(<< "enable", 0 >>, Enable, want)
RunDisable == Launch(<< "disable", 0 >>, Disable, want)

\* These two also on a core in operation, as the bench does at each bit rate.
Set(args) == [want EXCEPT !.timing = [f \in TimingFields |->
                    IF f \in DOMAIN args THEN {args[f]} ELSE @[f]]]
RunConfCan == \E args \in CanOptions :
    Launch(<< "conf_can", args >>, ConfCan(args), Set(args))
RunConfFi == \E args \in FiOptions :
    Launch(<< "conf_fi", args >>, ConfFi(args), Set(args))

RunSetFi == \E line \in FiLines :
    /\ mode = "off" /\ owed \subseteq {<< "set_fi", line.idx >>}
    /\ Launch(<< "set_fi", line.idx >>, SetFi(line.idx, line.value, line.mask, line.fault),
              [want EXCEPT !.slots = [e \in Entries |->
                IF e = line.idx
                THEN [value |-> IdPart(line.value), fault |-> line.fault,
                      mask |-> IF line.mask = NoMask THEN NoMask ELSE IdPart(line.mask)]
                ELSE @[e]]])

\* The payload is what the vector starts with, from its highest segment on.
RunSetVec == \E line \in VecLines :
    /\ mode = "off" /\ owed \subseteq {<< "set_vec", line.idx >>}
    /\ Launch(<< "set_vec", line.idx >>, SetVec(line.idx, line.words),
              [want EXCEPT !.vectors = [e \in Entries |->
                IF e = line.idx THEN [s \in Segments |-> Word(line.words, SegCnt - s)]
                ELSE @[e]]])

Operator ==
    \/ RunStatus \/ RunEnable \/ RunDisable \/ RunConfCan \/ RunConfFi
    \/ RunSetFi \/ RunSetVec

HostBusNext ==
    \/ Edge \/ StartFrame \/ IdComplete \/ EndFrame
    \/ ProgramStep \/ Kill \/ Operator

HostBusSpec == HostBusInit /\ [][HostBusNext]_hostBusVars
               /\ WF_hostBusVars(ProgramStep)
-----------------------------------------------------------------------------
(* Properties *)

Meaning == [none |-> "FI_NULL", bit |-> "FI_BIT", dlc |-> "FI_DLC",
            dyn_stuff |-> "FI_BSDY", fix_stuff |-> "FI_BSFX", data_crc |-> "FI_DATA"]

\* What the core should make of a fault: the field counts for the faults of a
\* single bit only, the register has nine bits for the metadata.
Meant(fault) ==
    [type |-> Meaning[fault.kind],
     field |-> IF fault.kind \in {"bit", "dyn_stuff", "fix_stuff"} THEN fault.field ELSE 0,
     meta |-> IF fault.kind = "none" THEN 0 ELSE fault.meta % 512]

\* The slot that the operator expects to serve this identifier.
Fits(e) == Matches(id, want.slots[e])
Fitting == { e \in Entries : Fits(e) }
Expected == CHOOSE e \in Fitting : \A f \in Fitting : e <= f

\* A core that takes part in a frame does so with what the operator asked for,
\* to the last register and RAM word: never with the test value of the probe
\* (main.rs:71), with half a slot, or with part of a vector, and whatever was
\* killed in the meantime. Only the bit timing and the sample points, which are
\* set field by field under frames (cli.rs:215-233), may be a mixture: while a
\* command that sets a field is under way, or after it was killed, the field
\* has the value from before it or the one from after it.
RunsAsConfigured ==
    awake = 1 =>
        /\ \A f \in TimingFields : Value(f) \in want.timing[f] \cup wanted.timing[f]
        /\ \A e \in Entries :
            /\ id_mem[e].value = want.slots[e].value
            /\ id_mem[e].mask = want.slots[e].mask
            /\ id_mem[e].fi = Meant(want.slots[e].fault)
            /\ WideWord(e) = want.vectors[e]

\* The override unit is handed the fault of the slot that the operator expects
\* to match, with its field and its metadata, and its vector as typed: the
\* words reach the two banks in reverse order through single registers
\* (cli.rs:340), and the ready flag does not run ahead of the RAM
\* (memory_unit.vhd:267).
ServedAsWanted ==
    awake = 1 =>
        /\ fi_frame_ready = 1 =>
            Fitting /= {} /\ fi_frame = Meant(want.slots[Expected].fault)
        /\ data_vector_ready = 1 =>
            /\ fi_frame_ready = 1
            /\ fi_frame.type = "FI_DATA" => ram_out = want.vectors[Expected]

\* Every invocation, a status query too, takes the core out of operation for
\* its probe; a core that was enabled gets back to work after it (main.rs:78).
CoreGivenBack == mode = "on" ~> (Value("cfg_en") = 0 \/ mode /= "on")

\* Where a slot was programmed without a mask, all bits of the identifier
\* count: a frame with another identifier gets no fault from it ("If no mask is
\* provided, just use all bits", cli.rs:237).
AllBitsCompared ==
    awake = 1 /\ fi_frame_ready = 1 /\ fi_frame.type /= "FI_NULL" =>
        \E e \in Entries :
            /\ fi_frame = id_mem[e].fi
            /\ want.slots[e].mask = NoMask => id = want.slots[e].value
=============================================================================
