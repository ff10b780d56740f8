--------------------------- MODULE LoadingDiscipline ---------------------------
(***************************************************************************)
(* Who may load a binary at a time.  Every chip has one buffer from which    *)
(* SCAMP starts binaries: one call may use one chip's buffer, several calls  *)
(* may use different chips, and a flood needs the buffers of all chips.      *)
(* ExecuteLocks implements this module.                                      *)
(***************************************************************************)
CONSTANTS
  Threads,   \* the threads of the host
  Chips      \* the chips of the machine

VARIABLE
  loading    \* thread -> the chips whose buffers it is using

Init == loading = [t \in Threads |-> {}]

InUse == UNION {loading[t] : t \in Threads}

Begin(t, chips) ==
  /\ loading[t] = {}
  /\ chips \intersect InUse = {}
  /\ loading' = [loading EXCEPT ![t] = chips]

End(t) == loading' = [loading EXCEPT ![t] = {}]

Next ==
  \E t \in Threads :
    \/ \E c \in Chips : Begin(t, {c})
    \/ Begin(t, Chips)
    \/ End(t)

Spec == Init /\ [][Next]_loading
===============================================================================
