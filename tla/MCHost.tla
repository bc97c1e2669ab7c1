------------------------------- MODULE MCHost -------------------------------
(* A small slot table, and command lines for it. *)
EXTENDS HostBus

MCResetTiming == [f \in TimingFields |-> IF f \in {"brp_nomi", "brp_data"} THEN 8 ELSE 0]
MCCanOptions == { [brp_nomi |-> 4, ph1_nomi |-> 5] }
MCFiOptions == { [psp_nomi |-> 3] }
MCFiLines ==
    { [idx |-> 0, value |-> 3, mask |-> 2,
       fault |-> [kind |-> "bit", field |-> 1, meta |-> 514]],
      [idx |-> 1, value |-> 0, mask |-> 1,
       fault |-> [kind |-> "data_crc", field |-> 3, meta |-> 1]],
      [idx |-> 2, value |-> 1, mask |-> 0,
       fault |-> [kind |-> "dlc", field |-> 0, meta |-> 1]] }
MCVecLines == { [idx |-> 1, words |-> << 1, 2 >>] }

\* With a mask, and without one (99).
MCMaskLines ==
    { [idx |-> 0, value |-> 1, mask |-> m,
       fault |-> [kind |-> "bit", field |-> 1, meta |-> 2]] : m \in {0, 99} }
=============================================================================
