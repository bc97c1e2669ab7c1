------------------------------ MODULE CanTypes ------------------------------
(***************************************************************************)
(* The types of sys_config_pkg.vhd that the parser, the memory unit and    *)
(* the override unit share, and the lengths that the CAN DLC stands for.   *)
(*                                                                         *)
(* The bit counts that the VHDL writes as literals are constants here: the *)
(* runs on the parser use the literals of the code, the runs on the        *)
(* compositions a scaled-down frame, the proofs every value.               *)
(***************************************************************************)
EXTENDS Integers, Sequences

CONSTANTS
    BaseIdBits,     \* bits of the base identifier            (code: 11)
    ExtIdBits,      \* bits of the identifier extension       (code: 18)
    ByteBits,       \* bits of one payload byte               (code: 8)
    CrcClassic,     \* CRC bits of a classic frame            (code: 15)
    CrcFdShort,     \* CRC bits of an FD frame of <= 16 bytes (code: 17)
    CrcFdLong,      \* CRC bits of a longer FD frame          (code: 21)
    IdModulus       \* 2 ^ kept bits of the id register       (code: 2 ^ 29)

ASSUME WidthsAssumption ==
    /\ BaseIdBits \in Nat \ {0} /\ ExtIdBits \in Nat \ {0}
    /\ ByteBits \in Nat \ {0} /\ IdModulus \in Nat \ {0}
    /\ CrcClassic \in Nat \ {0}
    /\ CrcFdShort \in Nat \ {0} /\ CrcFdLong \in Nat \ {0}

Bit == {0, 1}
Not(b) == 1 - b

\* fsm_state_types, in the order that VHDL's "<" and ">" use.
FsmOrder == << "ABIT", "CTRL", "DATA", "CRC_STF", "CRC", "EOF",
               "ERRF", "AWAIT_EOF", "RESET", "SLEEP" >>
FsmStates == { FsmOrder[i] : i \in DOMAIN FsmOrder }
FsmPos == [s \in FsmStates |-> CHOOSE i \in DOMAIN FsmOrder : FsmOrder[i] = s]
After(s, t) == FsmPos[s] > FsmPos[t]        \* VHDL: s > t

BsStates == {"MONITOR", "INSERT", "BS_ERROR", "CRC", "CRC_INSERT",
             "DISABLE", "SLEEP"}

\* fi_type_t; parse_fi_type reads every value that is not one-hot as FI_NULL.
FiTypes == {"FI_DATA", "FI_BSFX", "FI_BSDY", "FI_DLC", "FI_BIT", "FI_NULL"}

\* The lookup of parse_dlc. It does not look at the frame format: a classic
\* frame with a DLC above 8 gets the FD length too.
DlcBytes(dlc) ==
    IF dlc <= 8 THEN dlc ELSE << 12, 16, 20, 24, 32, 48, 64 >>[dlc - 8]
DataWidth(dlc) == DlcBytes(dlc) * ByteBits
CrcWidth(dlc, fd) ==
    IF fd = 0 THEN CrcClassic
    ELSE IF dlc <= 10 THEN CrcFdShort ELSE CrcFdLong
=============================================================================
