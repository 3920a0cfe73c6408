--------------------------- MODULE MCStakerCommands ---------------------------
(* Flags on both sides of every bound: negative, zero, one, the largest time    *)
(* lock, one more (zero in 16 bits), fees below, at and above what there is.    *)
EXTENDS StakerCommands

MCAmounts == {-1, 0, 2}
MCFees    == {-1, 0, 1, 2, 3}
MCTimes   == {-1, 0, 1, 2, 3, 4}
================================================================================
