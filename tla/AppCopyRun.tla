------------------------------ MODULE AppCopyRun ------------------------------
(***************************************************************************)
(* ApplicationCopyRunProcess: after a binary has been written to the boot    *)
(* chip, every other chip is told, level by level down a tree, to copy it     *)
(* from the buffer of its parent and to start it.  The commands of one level  *)
(* go out together; the next level waits for all their replies.              *)
(*                                                                          *)
(* Each command goes through a request pipeline, of which only what          *)
(* RequestService promises is used: it is carried out any number of times     *)
(* once sent, late repetitions included, it is reported as successful only    *)
(* after a copy that succeeded, and it may be reported as failed whatever     *)
(* becomes of it.  The copying on a chip takes time and is external: SCAMP    *)
(* reads the parent's buffer over a link, compares the checksum and starts    *)
(* the binary.                                                              *)
(***************************************************************************)
EXTENDS Integers, FiniteSets

CONSTANTS
  Chips,     \* the chips of the machine
  Boot,      \* the boot chip
  Parent,    \* chip -> the chip at the other end of its parent link
  BoardOf    \* chip -> its board, named by the board's Ethernet chip

ASSUME TreeAssumption ==
  /\ IsFiniteSet(Chips)
  /\ Boot \in Chips
  /\ Parent \in [Chips \ {Boot} -> Chips]
  /\ \A c \in Chips \ {Boot} : Parent[c] # c
  /\ Chips \subseteq DOMAIN BoardOf

VARIABLES
  chips_done,   \* chips loaded or told to load
  next_chips,   \* the level: chips to be told to load together
  pc,           \* where run() is
  status,       \* chip -> what has become of its command
  copying,      \* board: chips that are copying now
  image,        \* board: chip -> how much of the binary is in its buffer
  started       \* board: chips that have started the binary

host == <<chips_done, next_chips, pc, status>>
board == <<copying, image, started>>
vars == <<host, board>>

Others == Chips \ {Boot}

Init ==
  /\ chips_done = {Boot}
  /\ next_chips = {}
  /\ pc = "choose"
  /\ status = [c \in Others |-> "unsent"]
  /\ copying = {}
  /\ image = [c \in Chips |-> IF c = Boot THEN "whole" ELSE "none"]
  /\ started = {}

-----------------------------------------------------------------------------
(* _get_next_chips: chips not done yet whose parent is done, at most one for  *)
(* each parent and at most one that copies off each board, and no fewer than  *)
(* that allows.  Which of several comes first depends on the order of the     *)
(* machine's chips, and is left open.                                        *)

Waiting == {c \in Others \ chips_done : Parent[c] \in chips_done}
OffBoard(c) == BoardOf[c] # BoardOf[Parent[c]]
ShareParent(c, d) == Parent[c] = Parent[d]
ShareBoard(c, d) == OffBoard(c) /\ OffBoard(d) /\ BoardOf[Parent[c]] = BoardOf[Parent[d]]

ClashOffBoard(c, d) == c # d /\ ShareBoard(c, d)
Clash(c, d) == c # d /\ (ShareParent(c, d) \/ ShareBoard(c, d))

IsLevel(S) ==
  /\ S \subseteq Waiting
  /\ \A c, d \in S : ~Clash(c, d)
  /\ \A c \in Waiting \ S : \E d \in S : Clash(c, d)

-----------------------------------------------------------------------------
(* run().                                                                    *)

NextLevel ==
  /\ pc = "choose"
  /\ \E S \in SUBSET Waiting :
       /\ IsLevel(S)
       /\ next_chips' = S
       /\ pc' = IF S = {} THEN "done" ELSE "sending"
  /\ UNCHANGED <<chips_done, status, board>>

SendUnnoted(c) ==
  /\ pc = "sending"
  /\ c \in next_chips /\ status[c] = "unsent"
  /\ status' = [status EXCEPT ![c] = "pending"]
  /\ UNCHANGED <<chips_done, next_chips, pc, board>>

\* The command for one chip is sent, and the chip noted as done at once.
SendCopyRun(c) ==
  /\ pc = "sending"
  /\ c \in next_chips /\ status[c] = "unsent"
  /\ status' = [status EXCEPT ![c] = "pending"]
  /\ chips_done' = chips_done \union {c}
  /\ UNCHANGED <<next_chips, pc, board>>

AllSentWithoutFinish ==
  /\ pc = "sending"
  /\ \A c \in next_chips : status[c] # "unsent"
  /\ pc' = "choose"
  /\ UNCHANGED <<chips_done, next_chips, status, board>>

AllSent ==
  /\ pc = "sending"
  /\ \A c \in next_chips : status[c] # "unsent"
  /\ pc' = "finishing"
  /\ UNCHANGED <<chips_done, next_chips, status, board>>

\* A reply is handled while sending, when the window is full, or in _finish().
\* A command succeeds only after a copy that was started, and may fail, by an
\* error or a timeout, even so.
ReceiveResponse(c) ==
  /\ pc \in {"sending", "finishing"}
  /\ status[c] = "pending"
  /\ \/ c \in started /\ status' = [status EXCEPT ![c] = "ok"]
     \/ status' = [status EXCEPT ![c] = "failed"]
  /\ UNCHANGED <<chips_done, next_chips, pc, board>>

Answered == \A c \in Others : status[c] # "pending"
AnyError == \E c \in Others : status[c] = "failed"

CheckNothing ==
  /\ pc = "finishing" /\ Answered
  /\ pc' = "choose"
  /\ UNCHANGED <<chips_done, next_chips, status, board>>

\* _finish() has handled every reply; check_for_error().
CheckForError ==
  /\ pc = "finishing" /\ Answered
  /\ pc' = IF AnyError THEN "raised" ELSE "choose"
  /\ UNCHANGED <<chips_done, next_chips, status, board>>

\* The socket raises in the course of sending or receiving.
RunRaises ==
  /\ pc \in {"sending", "finishing"}
  /\ pc' = "raised"
  /\ UNCHANGED <<chips_done, next_chips, status, board>>

-----------------------------------------------------------------------------
(* SCAMP on the chips.                                                       *)

\* A command that was sent is carried out, perhaps not for the first time.  The
\* bytes of a buffer that is copied again do not change.
CopyBegins(c) ==
  /\ status[c] # "unsent" /\ c \notin copying
  /\ copying' = copying \union {c}
  /\ image' = [image EXCEPT ![c] = IF @ = "whole" THEN "whole" ELSE "part"]
  /\ UNCHANGED <<host, started>>

\* The checksum of what was copied is right if the parent's buffer was whole.
CopyEnds(c) ==
  /\ c \in copying
  /\ copying' = copying \ {c}
  /\ \/ /\ image[Parent[c]] = "whole"
        /\ image' = [image EXCEPT ![c] = "whole"]
        /\ started' = started \union {c}
     \/ UNCHANGED <<image, started>>
  /\ UNCHANGED host

-----------------------------------------------------------------------------

Run ==
  \/ NextLevel \/ AllSent \/ CheckForError \/ RunRaises
  \/ \E c \in Others : SendCopyRun(c) \/ ReceiveResponse(c)
Board == \E c \in Others : CopyBegins(c) \/ CopyEnds(c)
Terminated == pc \in {"done", "raised"} /\ UNCHANGED vars

Next == Run \/ Board \/ Terminated

Spec == Init /\ [][Next]_vars

\* The thread runs on; a command that gets no reply times out.
FairSpec == Spec /\ WF_vars(Run)

-----------------------------------------------------------------------------
(* Properties.                                                               *)

TypeOK ==
  /\ chips_done \subseteq Chips /\ Boot \in chips_done
  /\ next_chips \subseteq Others
  /\ pc \in {"choose", "sending", "finishing", "done", "raised"}
  /\ status \in [Others -> {"unsent", "pending", "ok", "failed"}]
  /\ copying \subseteq Others
  /\ image \in [Chips -> {"none", "part", "whole"}]
  /\ started \subseteq Others

\* No chip copies from a buffer that is not complete, however late or often its
\* command is carried out.
ParentWhole == \A c \in copying : image[Parent[c]] = "whole"

\* No two commands that are waiting for a reply copy from the same chip, nor off
\* the same board: only one copy from each chip is done at a time.
OneCopyAtATime ==
  \A c, d \in Others :
    c # d /\ status[c] = "pending" /\ status[d] = "pending"
      => ~ShareParent(c, d) /\ ~ShareBoard(c, d)

\* A failure is noticed early on: below a chip that failed nothing is loaded.
FailureStopsBranch ==
  \A c \in Others : status[c] # "unsent" /\ Parent[c] # Boot => status[Parent[c]] = "ok"

\* When all commands were successful the binary has been copied and started
\* wherever the tree goes.
DoneIsEverywhere ==
  pc = "done" => \A c \in Others : Parent[c] \in chips_done =>
                    status[c] = "ok" /\ image[c] = "whole" /\ c \in started

\* The process ends.
RunEnds == <>(pc \in {"done", "raised"})

\* Why they hold: what has been sent is the levels so far, what is started has
\* the image, and before a level is chosen all levels above it have succeeded.
LevelsSent ==
  /\ \A c \in Others : status[c] # "unsent" <=> c \in chips_done
  /\ \A c \in Others : c \in chips_done => Parent[c] \in chips_done
LevelChosen ==
  pc \notin {"choose", "done"} =>
    /\ \A c, d \in next_chips : ~Clash(c, d)
    /\ \A c \in next_chips : Parent[c] = Boot \/ status[Parent[c]] = "ok"
    /\ \A c \in Others : status[c] \in {"pending", "failed"} => c \in next_chips
LevelDone ==
  /\ pc \in {"choose", "done"} => \A c \in Others : status[c] \in {"unsent", "ok"}
  /\ pc = "done" => Waiting = {}
StartedWhole ==
  /\ image[Boot] = "whole"
  /\ \A c \in started : image[c] = "whole"
  /\ \A c \in Others : status[c] = "ok" => c \in started
  /\ \A c \in Others : c \in copying \/ image[c] = "whole" => status[c] # "unsent"
Levels ==
  /\ TypeOK
  /\ LevelsSent
  /\ LevelChosen
  /\ LevelDone
  /\ StartedWhole
  /\ FailureStopsBranch

\* The process implements ImageSpread.
Spread == INSTANCE ImageSpread WITH
  holders <- {c \in Chips : image[c] = "whole"},
  outcome <- IF pc \in {"done", "raised"} THEN pc ELSE "running"
ImplementsSpread == Spread!Spec
===============================================================================
