----------------------------- MODULE MCBoardReady -----------------------------
(* Instances of BoardReady for TLC: the required version is (4, 0, 0), and a   *)
(* board may already run one that is too old, exact, or newer in either place. *)
EXTENDS BoardReady

CONSTANTS c1, c2

FourZeroZero == <<4, 0, 0>>
Boards == {<<3, 4, 1>>, <<4, 0, 0>>, <<4, 0, 1>>, <<4, 1, 0>>, <<5, 0, 0>>}
===============================================================================
