---------------------------- MODULE MCSpallocProxy ----------------------------
(* Instances of SpallocProxy for TLC.                                       *)
EXTENDS SpallocProxy, TLC

ConnSymmetry == Permutations(Conns)
===============================================================================
