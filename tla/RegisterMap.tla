----------------------------- MODULE RegisterMap ----------------------------
(***************************************************************************)
(* The registers of the core: the attributes of their fields, from the     *)
(* namespaces of i_can_fd_fi.h, and what can_fd_fi.cpp has of its own for  *)
(* each register: its index on the bus, its mode and the bounds that the   *)
(* assertions of its get and set methods check. What the methods do with   *)
(* them is RegisterAccess. Names are those of the code.                    *)
(***************************************************************************)
EXTENDS Integers

\* The positions of the 1 bits of a number.
Ones(n) == {b \in 0 .. 30 : (n \div 2^b) % 2 = 1}
AllOnes(width) == 0 .. width - 1

\* A field: its lowest bit, its number of bits, its value after reset.
Field(shift, width, default) ==
    [shift |-> shift, width |-> width, reset |-> Ones(default)]

-----------------------------------------------------------------------------
(* Fields of each register.                                                *)
CORE_INFO == [info_t |-> Field(0, 32, 1246644547)]

CORE_VERSION == [
    magic_valid |-> Field(0, 8, 170), patch |-> Field(8, 8, 5),
    minor |-> Field(16, 8, 2), major |-> Field(24, 8, 1)]

STATUS_FLAGS == [
    tu_ready_config |-> Field(0, 1, 1), inj_err_miss |-> Field(1, 1, 0),
    inj_err_dom |-> Field(2, 1, 0), inj_err_dlc |-> Field(3, 1, 0),
    inj_err_fsm |-> Field(4, 1, 0)]

GLOBAL_CONFIG == [
    cfg_en |-> Field(0, 1, 0), cfg_brp_nomi |-> Field(1, 6, 8),
    cfg_brp_data |-> Field(7, 6, 8), cfg_td_en |-> Field(13, 1, 0),
    cfg_ssp |-> Field(14, 9, 0)]

NOMINAL_CONFIG == [
    cfg_ph1_len_nomi |-> Field(0, 8, 1), cfg_ph2_len_nomi |-> Field(8, 7, 1),
    cfg_sjw_nomi |-> Field(15, 7, 1)]

DATA_CONFIG == [
    cfg_ph1_len_data |-> Field(0, 8, 1), cfg_ph2_len_data |-> Field(8, 7, 1),
    cfg_sjw_data |-> Field(15, 7, 1)]

FI_CONFIG == [
    cfg_psp_nomi |-> Field(0, 8, 0), cfg_psp_data |-> Field(8, 8, 0),
    cfg_fip_nomi |-> Field(16, 8, 0), cfg_fip_data |-> Field(24, 8, 0)]

IRQ_RST_REG == [irq_rst |-> Field(0, 32, 0)]

ID_MEM0_MATCH == [idm0_match |-> Field(0, 29, 0)]
ID_MEM0_MASK == [idm0_mask |-> Field(0, 29, 0)]
ID_MEM0_FIF == [idm0_fif |-> Field(0, 18, 0)]
ID_MEM1_MATCH == [idm1_match |-> Field(0, 29, 0)]
ID_MEM1_MASK == [idm1_mask |-> Field(0, 29, 0)]
ID_MEM1_FIF == [idm1_fif |-> Field(0, 18, 0)]
ID_MEM2_MATCH == [idm2_match |-> Field(0, 29, 0)]
ID_MEM2_MASK == [idm2_mask |-> Field(0, 29, 0)]
ID_MEM2_FIF == [idm2_fif |-> Field(0, 18, 0)]
ID_MEM3_MATCH == [idm3_match |-> Field(0, 29, 0)]
ID_MEM3_MASK == [idm3_mask |-> Field(0, 29, 0)]
ID_MEM3_FIF == [idm3_fif |-> Field(0, 18, 0)]
ID_MEM4_MATCH == [idm4_match |-> Field(0, 29, 0)]
ID_MEM4_MASK == [idm4_mask |-> Field(0, 29, 0)]
ID_MEM4_FIF == [idm4_fif |-> Field(0, 18, 0)]
ID_MEM5_MATCH == [idm5_match |-> Field(0, 29, 0)]
ID_MEM5_MASK == [idm5_mask |-> Field(0, 29, 0)]
ID_MEM5_FIF == [idm5_fif |-> Field(0, 18, 0)]
ID_MEM6_MATCH == [idm6_match |-> Field(0, 29, 0)]
ID_MEM6_MASK == [idm6_mask |-> Field(0, 29, 0)]
ID_MEM6_FIF == [idm6_fif |-> Field(0, 18, 0)]
ID_MEM7_MATCH == [idm7_match |-> Field(0, 29, 0)]
ID_MEM7_MASK == [idm7_mask |-> Field(0, 29, 0)]
ID_MEM7_FIF == [idm7_fif |-> Field(0, 18, 0)]

MU_CFG_BASE == [ram_data_valid |-> Field(0, 1, 0)]
MU_CFG_ADDR == [ram_data_address |-> Field(0, 15, 1)]
MU_RAM_DATA == [ram_data_payload |-> Field(0, 32, 0)]

-----------------------------------------------------------------------------
(* What the methods of each register add: where the register is, and the   *)
(* bounds that they check. A field without an assertion has no bound here. *)
Unchecked == [f \in {} |-> {}]
Both == {"Read", "Write"}

Register(index, mode, fields, get, set) ==
    [index |-> index, reads |-> "Read" \in mode, writes |-> "Write" \in mode,
     fields |-> fields, least |-> get.least, most |-> get.most, limit |-> set]
NoGetterAsserts == [least |-> Unchecked, most |-> Unchecked]

ReadOnly(index, fields) == Register(index, {"Read"}, fields, NoGetterAsserts, Unchecked)
ReadWrite(index, fields, limit) == Register(index, Both, fields, NoGetterAsserts, limit)
WriteOnly(index, fields, limit) == Register(index, {"Write"}, fields, NoGetterAsserts, limit)

CORE_INFO_methods == ReadOnly(0, CORE_INFO)
CORE_VERSION_methods == ReadOnly(1, CORE_VERSION)
STATUS_FLAGS_methods == ReadOnly(2, STATUS_FLAGS)

GLOBAL_CONFIG_get == [
    least |-> [cfg_brp_nomi |-> Ones(1), cfg_brp_data |-> Ones(1)],
    most |-> [cfg_brp_nomi |-> Ones(32), cfg_brp_data |-> Ones(32), cfg_ssp |-> Ones(383)]]
GLOBAL_CONFIG_set ==
    [cfg_brp_nomi |-> Ones(32), cfg_brp_data |-> Ones(32), cfg_ssp |-> Ones(383)]
NOMINAL_CONFIG_get == [
    least |-> [cfg_ph1_len_nomi |-> Ones(1), cfg_ph2_len_nomi |-> Ones(1),
               cfg_sjw_nomi |-> Ones(1)],
    most |-> Unchecked]
NOMINAL_CONFIG_set ==
    [cfg_ph1_len_nomi |-> Ones(255), cfg_ph2_len_nomi |-> Ones(127), cfg_sjw_nomi |-> Ones(127)]
DATA_CONFIG_get == [
    least |-> [cfg_ph1_len_data |-> Ones(1), cfg_ph2_len_data |-> Ones(1),
               cfg_sjw_data |-> Ones(1)],
    most |-> Unchecked]
DATA_CONFIG_set ==
    [cfg_ph1_len_data |-> Ones(255), cfg_ph2_len_data |-> Ones(127), cfg_sjw_data |-> Ones(127)]
FI_CONFIG_get == NoGetterAsserts
FI_CONFIG_set ==
    [cfg_psp_nomi |-> Ones(255), cfg_psp_data |-> Ones(255),
     cfg_fip_nomi |-> Ones(255), cfg_fip_data |-> Ones(255)]

IRQ_RST_REG_methods == ReadOnly(7, IRQ_RST_REG)

ID_MEM0_MATCH_methods == ReadWrite(8, ID_MEM0_MATCH, [idm0_match |-> Ones(536870911)])
ID_MEM0_MASK_methods == ReadWrite(9, ID_MEM0_MASK, [idm0_mask |-> Ones(536870911)])
ID_MEM0_FIF_methods == ReadWrite(10, ID_MEM0_FIF, [idm0_fif |-> Ones(262143)])
ID_MEM1_MATCH_methods == ReadWrite(11, ID_MEM1_MATCH, [idm1_match |-> Ones(536870911)])
ID_MEM1_MASK_methods == ReadWrite(12, ID_MEM1_MASK, [idm1_mask |-> Ones(536870911)])
ID_MEM1_FIF_methods == ReadWrite(13, ID_MEM1_FIF, [idm1_fif |-> Ones(262143)])
ID_MEM2_MATCH_methods == ReadWrite(14, ID_MEM2_MATCH, [idm2_match |-> Ones(536870911)])
ID_MEM2_MASK_methods == ReadWrite(15, ID_MEM2_MASK, [idm2_mask |-> Ones(536870911)])
ID_MEM2_FIF_methods == ReadWrite(16, ID_MEM2_FIF, [idm2_fif |-> Ones(262143)])
ID_MEM3_MATCH_methods == ReadWrite(17, ID_MEM3_MATCH, [idm3_match |-> Ones(536870911)])
ID_MEM3_MASK_methods == ReadWrite(18, ID_MEM3_MASK, [idm3_mask |-> Ones(536870911)])
ID_MEM3_FIF_methods == ReadWrite(19, ID_MEM3_FIF, [idm3_fif |-> Ones(262143)])
ID_MEM4_MATCH_methods == ReadWrite(20, ID_MEM4_MATCH, [idm4_match |-> Ones(536870911)])
ID_MEM4_MASK_methods == ReadWrite(21, ID_MEM4_MASK, [idm4_mask |-> Ones(536870911)])
ID_MEM4_FIF_methods == ReadWrite(22, ID_MEM4_FIF, [idm4_fif |-> Ones(262143)])
ID_MEM5_MATCH_methods == ReadWrite(23, ID_MEM5_MATCH, [idm5_match |-> Ones(536870911)])
ID_MEM5_MASK_methods == ReadWrite(24, ID_MEM5_MASK, [idm5_mask |-> Ones(536870911)])
ID_MEM5_FIF_methods == ReadWrite(25, ID_MEM5_FIF, [idm5_fif |-> Ones(262143)])
ID_MEM6_MATCH_methods == ReadWrite(26, ID_MEM6_MATCH, [idm6_match |-> Ones(536870911)])
ID_MEM6_MASK_methods == ReadWrite(27, ID_MEM6_MASK, [idm6_mask |-> Ones(536870911)])
ID_MEM6_FIF_methods == ReadWrite(28, ID_MEM6_FIF, [idm6_fif |-> Ones(262143)])
ID_MEM7_MATCH_methods == ReadWrite(29, ID_MEM7_MATCH, [idm7_match |-> Ones(536870911)])
ID_MEM7_MASK_methods == ReadWrite(30, ID_MEM7_MASK, [idm7_mask |-> Ones(536870911)])
ID_MEM7_FIF_methods == ReadWrite(31, ID_MEM7_FIF, [idm7_fif |-> Ones(262143)])

MU_CFG_BASE_methods == WriteOnly(32, MU_CFG_BASE, Unchecked)
MU_CFG_ADDR_methods == WriteOnly(33, MU_CFG_ADDR, [ram_data_address |-> Ones(32767)])
MU_RAM_DATA_methods == WriteOnly(34, MU_RAM_DATA, Unchecked)

-----------------------------------------------------------------------------
\* The class CanFdFi: its registers by name.
CanFdFi == [
    CORE_INFO |-> CORE_INFO_methods,
    CORE_VERSION |-> CORE_VERSION_methods,
    STATUS_FLAGS |-> STATUS_FLAGS_methods,
    GLOBAL_CONFIG |-> Register(3, Both, GLOBAL_CONFIG, GLOBAL_CONFIG_get, GLOBAL_CONFIG_set),
    NOMINAL_CONFIG |->
        Register(4, Both, NOMINAL_CONFIG, NOMINAL_CONFIG_get, NOMINAL_CONFIG_set),
    DATA_CONFIG |-> Register(5, Both, DATA_CONFIG, DATA_CONFIG_get, DATA_CONFIG_set),
    FI_CONFIG |-> Register(6, Both, FI_CONFIG, FI_CONFIG_get, FI_CONFIG_set),
    IRQ_RST_REG |-> IRQ_RST_REG_methods,
    ID_MEM0_MATCH |-> ID_MEM0_MATCH_methods,
    ID_MEM0_MASK |-> ID_MEM0_MASK_methods,
    ID_MEM0_FIF |-> ID_MEM0_FIF_methods,
    ID_MEM1_MATCH |-> ID_MEM1_MATCH_methods,
    ID_MEM1_MASK |-> ID_MEM1_MASK_methods,
    ID_MEM1_FIF |-> ID_MEM1_FIF_methods,
    ID_MEM2_MATCH |-> ID_MEM2_MATCH_methods,
    ID_MEM2_MASK |-> ID_MEM2_MASK_methods,
    ID_MEM2_FIF |-> ID_MEM2_FIF_methods,
    ID_MEM3_MATCH |-> ID_MEM3_MATCH_methods,
    ID_MEM3_MASK |-> ID_MEM3_MASK_methods,
    ID_MEM3_FIF |-> ID_MEM3_FIF_methods,
    ID_MEM4_MATCH |-> ID_MEM4_MATCH_methods,
    ID_MEM4_MASK |-> ID_MEM4_MASK_methods,
    ID_MEM4_FIF |-> ID_MEM4_FIF_methods,
    ID_MEM5_MATCH |-> ID_MEM5_MATCH_methods,
    ID_MEM5_MASK |-> ID_MEM5_MASK_methods,
    ID_MEM5_FIF |-> ID_MEM5_FIF_methods,
    ID_MEM6_MATCH |-> ID_MEM6_MATCH_methods,
    ID_MEM6_MASK |-> ID_MEM6_MASK_methods,
    ID_MEM6_FIF |-> ID_MEM6_FIF_methods,
    ID_MEM7_MATCH |-> ID_MEM7_MATCH_methods,
    ID_MEM7_MASK |-> ID_MEM7_MASK_methods,
    ID_MEM7_FIF |-> ID_MEM7_FIF_methods,
    MU_CFG_BASE |-> MU_CFG_BASE_methods,
    MU_CFG_ADDR |-> MU_CFG_ADDR_methods,
    MU_RAM_DATA |-> MU_RAM_DATA_methods]
=============================================================================
