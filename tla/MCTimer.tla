------------------------------- MODULE MCTimer -------------------------------
EXTENDS TimerBus

Rate(ph1, ph2, sjw, brp, psp, fip) ==
    [ph1 |-> ph1, ph2 |-> ph2, sjw |-> sjw, brp |-> brp, psp |-> psp, fip |-> fip]

\* With a measured delay, and with a fixed secondary sample point.
MCTimings == {
    [nomi |-> Rate(8, 2, 2, 2, 3, 5), data |-> Rate(14, 3, 3, 1, 6, 8),
     ssp |-> 7, td_en |-> 1],
    [nomi |-> Rate(15, 4, 3, 1, 6, 8), data |-> Rate(14, 3, 2, 1, 6, 8),
     ssp |-> 11, td_en |-> 0] }
=============================================================================
