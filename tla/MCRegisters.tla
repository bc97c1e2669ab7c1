----------------------------- MODULE MCRegisters ----------------------------
\* All registers of the core, two clients, two neighbouring registers in use.
EXTENDS RegisterAccess, RegisterMap, TLC

MCNames == DOMAIN CanFdFi

\* The largest value that the setter takes and one that does not fit; a field
\* without limit takes any, here the least and the largest.
MCArgs == [r \in MCNames |-> [f \in DOMAIN CanFdFi[r].fields |->
    LET width == CanFdFi[r].fields[f].width
    IN  IF f \in DOMAIN CanFdFi[r].limit THEN {CanFdFi[r].limit[f], {width}}
        ELSE {{}, AllOnes(width)}]]

\* All fields full, or each one with a limit too large.
MCWholeArgs == [r \in MCNames |->
    LET width == [f \in DOMAIN CanFdFi[r].fields |-> CanFdFi[r].fields[f].width]
    IN  {[f \in DOMAIN width |-> AllOnes(width[f])],
         [f \in DOMAIN width |-> IF f \in DOMAIN CanFdFi[r].limit
                                  THEN {width[f]} ELSE AllOnes(width[f])]}]

MCRawArgs == [r \in MCNames |-> {0 .. 31}]

MCPresented == [r \in MCNames |->
    IF r = "STATUS_FLAGS" THEN {{}, {0}, {1, 4}, 0 .. 4} ELSE {}]

\* Each register, with and without discipline, beside one that is kept.
MCScenes ==
    UNION {{[used |-> {r, s}, kept |-> {s}], [used |-> {r, s}, kept |-> {r, s}]} :
           r \in MCNames, s \in {"ID_MEM0_MASK"}}
Permuted == Permutations(Clients)
=============================================================================
