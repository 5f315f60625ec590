--------------------------- MODULE MCPathLearning ---------------------------
(* Every limit in the lower half of the range of the search, to the middle  *)
(* and beyond, and those around its end; answers that come at once, in the  *)
(* last wait, just after it, and never. Targets of the app, of one that is  *)
(* reduced to just 500 ms, and the least one; round-trip times far below    *)
(* and far above what lazy mode is given up for, with averages in between.  *)
EXTENDS PathLearning

MCLimits == 0 .. 800 \cup 1500 .. 1540
MCDelays == {1, 3, 4, 5}
MCTargets == {100, 1100, 5000}
MCTrips == {60, 3000}

=============================================================================
