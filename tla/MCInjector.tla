----------------------------- MODULE MCInjector -----------------------------
(* Slot tables and frame formats for the core on a bus. *)
EXTENDS Injector

Slot(v, m, t, f, k) ==
    [value |-> v, mask |-> m, fi |-> [type |-> t, field |-> f, meta |-> k]]

\* One slot asks for identifier 1; the other one is for another identifier.
Single(t, f, k) == [e \in Entries |->
    IF e = 0 THEN Slot(1, 0, t, f, k) ELSE Slot(3, 0, "FI_BIT", 1, 0)]

\* The first control bit, one whose predecessor may be a stuff bit, a bit of the
\* payload, the CRC and the tail, stuff bits of either kind, which some of the
\* frames do not have, an override vector for another DLC than the frames have,
\* and no injection.
MCSingleBits ==
    { Single("FI_BIT", 1, 0), Single("FI_BIT", 1, 6), Single("FI_BIT", 3, 0),
      Single("FI_BIT", 5, 2), Single("FI_BIT", 6, 2), Single("FI_BSDY", 1, 0),
      Single("FI_BSDY", 5, 0), Single("FI_BSFX", 4, 1), Single("FI_DATA", 0, 2),
      Single("FI_NULL", 0, 0) }

\* Here the mask lets every base identifier match. A DLC can be overridden when
\* its first differing bit is recessive on the bus: the first of 8, the third of 2,
\* the last of 1. The vectors are for a DLC of 1 and 2.
MCOverrides == { [Single(k[1], 0, k[2]) EXCEPT ![0].mask = 1] : k \in
    { << "FI_DATA", 1 >>, << "FI_DATA", 2 >>, << "FI_DLC", 0 >>, << "FI_DLC", 4 >> } }
MCOverrideFormats == { [ide |-> 0, fdf |-> f[1], dlc |-> f[2]] : f \in
    { << 0, 1 >>, << 0, 8 >>, << 1, 2 >> } }

MCFormats ==
    { [ide |-> 0, fdf |-> 0, dlc |-> 1], [ide |-> 0, fdf |-> 1, dlc |-> 1] }
MCClassicFormat == { [ide |-> 0, fdf |-> 0, dlc |-> 1] }
MCData == { Single("FI_DATA", 0, 1) }
MCKinds == { [Single(k[1], k[2], k[3]) EXCEPT ![0].mask = 1] : k \in
    { << "FI_BIT", 1, 6 >>, << "FI_BSDY", 1, 0 >>, << "FI_BSFX", 4, 0 >>,
      << "FI_DLC", 0, 3 >>, << "FI_DATA", 0, 1 >> } }
=============================================================================
