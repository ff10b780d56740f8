------------------------------ MODULE ImageSpread ------------------------------
(***************************************************************************)
(* What spreading an image over a machine promises: a chip gets the image   *)
(* from its parent, once the parent has it, and the caller is told that it   *)
(* is done only when the image has gone everywhere it can go and has been   *)
(* started there.  AppCopyRun implements this module.                        *)
(***************************************************************************)
CONSTANTS
  Chips,     \* the chips of the machine
  Boot,      \* the chip that has the image to begin with
  Parent     \* chip -> the chip it copies from

VARIABLES
  holders,   \* the chips that have the image
  started,   \* the chips that have started it
  outcome    \* "running", "done" or "raised"

vars == <<holders, started, outcome>>

Init == holders = {Boot} /\ started = {} /\ outcome = "running"

Copy(c) ==
  /\ Parent[c] \in holders
  /\ holders' = holders \union {c}
  /\ started' = started \union {c}
  /\ UNCHANGED outcome

Return ==
  /\ outcome = "running"
  /\ \A c \in Chips \ {Boot} : Parent[c] \in holders => c \in holders \intersect started
  /\ outcome' = "done"
  /\ UNCHANGED <<holders, started>>

Raise ==
  /\ outcome = "running"
  /\ outcome' = "raised"
  /\ UNCHANGED <<holders, started>>

Next == (\E c \in Chips \ {Boot} : Copy(c)) \/ Return \/ Raise

Spec == Init /\ [][Next]_vars
================================================================================
