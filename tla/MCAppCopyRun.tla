---------------------------- MODULE MCAppCopyRun ----------------------------
(* Instances of AppCopyRun for TLC: the boot board has three chips, of which   *)
(* two have children both on the board and off it.                             *)
EXTENDS AppCopyRun, TLC

CONSTANTS boot, near, top, east, north, far

SixChips == {boot, near, top, east, north, far}
SixParents == (near :> boot) @@ (top :> near) @@ (east :> boot) @@ (north :> near)
              @@ (far :> east)
SixBoards == [c \in {boot, near, top} |-> boot] @@ [c \in {east, far} |-> east]
             @@ (north :> north)
===============================================================================
