-------------------------------- MODULE Host --------------------------------
(***************************************************************************)
(* The control program (main.rs, cli.rs) and the registers through which   *)
(* it works on the core.                                                   *)
(*                                                                         *)
(* An invocation is a list of register accesses, fixed when it starts: the *)
(* probe of main.rs, then those of one command. Between two accesses the   *)
(* core makes any number of clock edges. The configuration registers are   *)
(* records of their fields, the slots are id_mem of MemoryUnit. The        *)
(* register file presents a written MU_CFG_BASE with a strobe of one edge  *)
(* (was_written). Values of the configuration fields fit their field (what *)
(* a setter makes of others is in RegisterMap).                            *)
(***************************************************************************)
EXTENDS MemoryUnit

CONSTANTS
    ResetTiming,    \* defaults of the configuration fields but cfg_en
    ProbeBrp,       \* what the probe writes to brp_nomi        (code: 16)
    NoMask          \* no --id-mask on the command line

VARIABLES
    config,             \* the configuration registers: [register -> [field -> value]]
    mu,                 \* MU_RAM_DATA, MU_CFG_ADDR, MU_CFG_BASE
    was_written,        \* reg_was_written.MU_CFG_BASE
    todo,               \* the accesses that the invocation has still to make
    base, cfg_save      \* its locals, of a field setter and of main.rs, as
                        \* long as they are needed: contents of a register

programVars == << todo, base, cfg_save >>
hostVars == << config, mu, was_written, programVars >>

RegisterOf ==
    [cfg_en |-> "GLOBAL_CONFIG", brp_nomi |-> "GLOBAL_CONFIG", brp_data |-> "GLOBAL_CONFIG",
     td_en |-> "GLOBAL_CONFIG", ssp |-> "GLOBAL_CONFIG", ph1_nomi |-> "NOMINAL_CONFIG",
     ph2_nomi |-> "NOMINAL_CONFIG", sjw_nomi |-> "NOMINAL_CONFIG", ph1_data |-> "DATA_CONFIG",
     ph2_data |-> "DATA_CONFIG", sjw_data |-> "DATA_CONFIG", psp_nomi |-> "FI_CONFIG",
     psp_data |-> "FI_CONFIG", fip_nomi |-> "FI_CONFIG", fip_data |-> "FI_CONFIG"]
Fields == DOMAIN RegisterOf
TimingFields == Fields \ {"cfg_en"}
ConfigRegisters == { RegisterOf[f] : f \in Fields }
FieldsOf(r) == { f \in Fields : RegisterOf[f] = r }
Value(f) == config[RegisterOf[f]][f]

HostInit ==
    /\ config = [r \in ConfigRegisters |-> [f \in FieldsOf(r) |->
                    IF f = "cfg_en" THEN 0 ELSE ResetTiming[f]]]
    /\ id_mem = [e \in Entries |-> [value |-> 0, mask |-> 0, fi |-> FiNull]]
    /\ mu = [data |-> 0, addr |-> 1, valid |-> 0] /\ was_written = 0
    /\ todo = << >> /\ base = << >> /\ cfg_save = << >>
-----------------------------------------------------------------------------
(* The accesses of an invocation *)

Access(op, at, v) == [op |-> op, at |-> at, v |-> v]

\* The field setter of a configuration register reads it first; those of the
\* slots and of the registers that are only written start from the default.
SetConfigField(field, v) == << Access("read", RegisterOf[field], 0), Access(field, 0, v) >>

ProbeSavesLate ==               \* mutant: saved after the first write
    SetConfigField("cfg_en", 1) \o << Access("save", 0, 0) >>
    \o SetConfigField("brp_nomi", ProbeBrp)
    \o << Access("check", 0, 0), Access("restore", 0, 0) >>

ProbeTimingFirst ==             \* mutant: a running core sees the test value
    << Access("save", 0, 0) >>
    \o SetConfigField("brp_nomi", ProbeBrp) \o SetConfigField("cfg_en", 1)
    \o << Access("check", 0, 0), Access("restore", 0, 0) >>

\* The round trip that main.rs makes before every command.
Probe ==
    << Access("save", 0, 0) >>
    \o SetConfigField("cfg_en", 1) \o SetConfigField("brp_nomi", ProbeBrp)
    \o << Access("check", 0, 0), Access("restore", 0, 0) >>

Enable == SetConfigField("cfg_en", 0)
Disable == SetConfigField("cfg_en", 1)

\* What the command line gives is a function args from fields to values. Each
\* field is a read and a write of its own, the others of its register are
\* written back as read.
Given(field, args) ==
    IF field \in DOMAIN args THEN SetConfigField(field, args[field]) ELSE << >>
ConfCan(args) ==
    Given("brp_nomi", args) \o Given("brp_data", args)
    \o Given("td_en", args) \o Given("ssp", args)
    \o Given("ph1_nomi", args) \o Given("ph1_data", args)
    \o Given("ph2_nomi", args) \o Given("ph2_data", args)
    \o Given("sjw_nomi", args) \o Given("sjw_data", args)
ConfFi(args) ==
    Given("psp_nomi", args) \o Given("psp_data", args)
    \o Given("fip_nomi", args) \o Given("fip_data", args)

\* The setters of the slots cut off what an identifier has no bits for.
IdPart(v) == v % 2 ^ IdBits
AllOnes == 2 ^ IdBits - 1

\* The one-hot code of a fault, and what parse_fi_type makes of it.
OneHot == [none |-> 1, bit |-> 2, dlc |-> 4, dyn_stuff |-> 8, fix_stuff |-> 16,
           data_crc |-> 32]
ParseFiType(code) ==
    CASE code = 32 -> "FI_DATA" [] code = 16 -> "FI_BSFX" [] code = 8 -> "FI_BSDY"
      [] code = 4 -> "FI_DLC" [] code = 2 -> "FI_BIT" [] OTHER -> "FI_NULL"

\* An index that no slot has makes the program panic, after the probe. The
\* faults that concern the whole frame have field code 0.
SetFi(idx, id_match, id_mask, fault) ==
    IF idx \notin Entries THEN << >>
    ELSE << Access("value", idx, IdPart(id_match)),
            Access("mask", idx, IF id_mask = NoMask THEN AllOnes ELSE IdPart(id_mask)),
            Access("fi", idx,
                [type |-> ParseFiType(OneHot[fault.kind]),
                 field |-> IF fault.kind \in {"none", "dlc", "data_crc"} THEN 0
                           ELSE fault.field,
                 meta |-> IF fault.kind = "none" THEN 0 ELSE fault.meta % 512]) >>

\* Word i of a payload; what the command line does not give is zero.
Word(words, i) == IF i \in DOMAIN words THEN words[i] ELSE 0

\* Word i takes the accesses 4i - 3 to 4i.
WordAt(n) == 1 + (n - 1) \div 4
Turn(n) == 1 + ((n - 1) % 4)

SetVecValidFirst(idx, words) ==     \* mutant: announced before it is addressed
    [n \in 1 .. 4 * SegCnt |->
        << Access("data", 0, Word(words, WordAt(n))), Access("valid", 0, 1),
           Access("addr", 0, idx * SegStride + SegCnt - WordAt(n)),
           Access("valid", 0, 0) >>[Turn(n)]]

\* The first word goes to the last segment; idx is not checked here.
SetVec(idx, words) ==
    [n \in 1 .. 4 * SegCnt |->
        << Access("data", 0, Word(words, WordAt(n))),
           Access("addr", 0, idx * SegStride + SegCnt - WordAt(n)),
           Access("valid", 0, 1), Access("valid", 0, 0) >>[Turn(n)]]
-----------------------------------------------------------------------------
(* One access *)

Configuration(a) ==
    /\ \/ a.op = "save" /\ cfg_save' = config["GLOBAL_CONFIG"]
          /\ UNCHANGED << config, base >>
       \/ a.op = "read" /\ base' = config[a.at]
          /\ UNCHANGED << config, cfg_save >>
       \/ a.op = "check" /\ UNCHANGED << config, base, cfg_save >>
       \/ a.op \in Fields
          /\ config' = [config EXCEPT ![RegisterOf[a.op]] = [base EXCEPT ![a.op] = a.v]]
          /\ base' = << >> /\ UNCHANGED cfg_save
       \/ a.op = "restore" /\ config' = [config EXCEPT !["GLOBAL_CONFIG"] = cfg_save]
          /\ cfg_save' = << >> /\ UNCHANGED base
    /\ was_written' = 0 /\ UNCHANGED << id_mem, mu >>

Slot(a) ==
    /\ a.op \in {"value", "mask", "fi"}
    /\ id_mem' = [id_mem EXCEPT ![a.at][a.op] = a.v]
    /\ was_written' = 0 /\ UNCHANGED << config, mu, base, cfg_save >>

MuRegister(a) ==
    /\ a.op \in {"data", "addr", "valid"}
    /\ mu' = [mu EXCEPT ![a.op] = a.v]
    /\ was_written' = IF a.op = "valid" THEN 1 ELSE 0
    /\ UNCHANGED << config, id_mem, base, cfg_save >>

\* The asserts of main.rs: a failing one ends the program on the spot.
Sticks == Value("cfg_en") = 1 /\ Value("brp_nomi") = ProbeBrp

MakeAccess ==
    /\ todo /= << >>
    /\ LET a == Head(todo)
       IN  /\ Configuration(a) \/ Slot(a) \/ MuRegister(a)
           /\ todo' = IF a.op = "check" /\ ~Sticks THEN << >> ELSE Tail(todo)

\* An edge without an access.
NoAccess == was_written' = 0 /\ UNCHANGED << config, mu, id_mem, programVars >>

\* What the memory unit sees of the write registers at this edge.
Presented == [valid |-> IF was_written = 1 THEN mu.valid ELSE 0,
              addr |-> mu.addr, data |-> mu.data]
=============================================================================
