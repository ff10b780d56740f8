----------------------------- MODULE MCReadIOBuf -----------------------------
(* Instances of ReadIOBuf for TLC: a block takes a first read and two tails,   *)
(* one of them short, and a log is empty, part of a block, a block or more.    *)
EXTENDS ReadIOBuf

CONSTANTS c1, c2
===============================================================================
