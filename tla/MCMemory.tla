------------------------------ MODULE MCMemory ------------------------------
(* Small slot tables for the memory unit. *)
EXTENDS MemoryBus

Slot(v, m, t, k) ==
    [value |-> v, mask |-> m, fi |-> [type |-> t, field |-> 1, meta |-> k]]

\* An exact slot and a wildcard.
MCSlots == { Slot(1, 0, "FI_BIT", 1), Slot(0, 1, "FI_DATA", 2) }
=============================================================================
