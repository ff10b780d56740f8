---------------------------- MODULE MCExecuteLocks ----------------------------
(* Instances of ExecuteLocks for TLC.                                       *)
EXTENDS ExecuteLocks, TLC

CONSTANTS boot, near, far

ChipChain == {boot, near, far}
ChainParent == (near :> boot) @@ (far :> near)
TwoChips == {boot, near}
TwoParent == near :> boot

ThreadSymmetry == Permutations(Threads)
===============================================================================
