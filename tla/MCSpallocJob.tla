------------------------------ MODULE MCSpallocJob ------------------------------
(* Instances of SpallocJob for TLC.                                              *)
EXTENDS SpallocJob

CONSTANT NoLimit
OneOrForever == {1, NoLimit}
===============================================================================
