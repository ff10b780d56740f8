----------------------------- MODULE ExecuteLocks -----------------------------
(***************************************************************************)
(* The locks that keep loads of binaries apart.  execute() of the extended  *)
(* transceiver loads one chip under that chip's lock; execute_flood() loads *)
(* every chip while it holds _chip_execute_lock_condition, for which it     *)
(* waits until no chip is being loaded.  Threads of the host call both.     *)
(*                                                                          *)
(* A `with` block that neither waits nor does I/O is one step, which needs  *)
(* the condition free; execute_flood keeps the condition through its I/O.   *)
(* The board keeps one image per chip in the buffer at _EXECUTABLE_ADDRESS; *)
(* copying goes down a tree of chips, whose order ApplicationCopyRun        *)
(* details.                                                                 *)
(***************************************************************************)
EXTENDS Integers, FiniteSets

CONSTANTS
  Threads,      \* threads that share one transceiver
  Chips,        \* the chips of the machine
  Boot,         \* the chip a flood is written to, (0, 0)
  Parent,       \* chip -> the chip it copies from in a flood
  Nobody,       \* no thread holds the lock
  MaxCalls      \* bound: calls made by each thread

ASSUME LocksAssumption ==
  /\ Nobody \notin Threads
  /\ IsFiniteSet(Threads)
  /\ Boot \in Chips
  /\ Parent \in [Chips \ {Boot} -> Chips]
  /\ MaxCalls \in Nat

VARIABLES
  condition,    \* owner of the lock of _chip_execute_lock_condition
  chip_locks,   \* chip -> owner of its lock in _chip_execute_locks
  n_locks,      \* _n_chip_execute_locks
  pc,           \* thread -> where it is
  chip,         \* thread -> the chip its execute() call is for
  calls,        \* thread -> calls made
  copied,       \* thread -> chips its flood has reached
  buffer,       \* board: chip -> the call whose image is in the buffer
  started       \* history: chip -> the last start: the call, and the image used

locks == <<condition, chip_locks, n_locks>>
board == <<buffer, started>>
vars == <<locks, pc, chip, calls, copied, board>>

\* The image of a call is named after the call.
Call(t) == <<t, calls[t]>>
NoImage == <<Nobody, 0>>
Images == {NoImage} \union (Threads \X (1 .. MaxCalls))
Starts == [by : Images, image : Images]

Locations == {"idle", "lookup", "acquire", "count", "write", "run", "release",
              "enter", "waiting", "notified", "flood", "runboot", "copy", "leave"}
Loading == {"write", "run"}                 \* inside the chip's with block
Flooding == {"flood", "runboot", "copy", "leave"}  \* inside the flood's
Counted == Loading \union {"release"}
HasChipLock == Counted \union {"count"}

ConditionFree == condition = Nobody
Goto(t, place) == pc' = [pc EXCEPT ![t] = place]
Start(c, t) == started' = [started EXCEPT ![c] = [by |-> Call(t), image |-> buffer'[c]]]

Init ==
  /\ condition = Nobody
  /\ chip_locks = [c \in Chips |-> Nobody]
  /\ n_locks = 0
  /\ pc = [t \in Threads |-> "idle"]
  /\ chip = [t \in Threads |-> Boot]
  /\ calls = [t \in Threads |-> 0]
  /\ copied = [t \in Threads |-> {}]
  /\ buffer = [c \in Chips |-> NoImage]
  /\ started = [c \in Chips |-> [by |-> NoImage, image |-> NoImage]]

-----------------------------------------------------------------------------
(* execute(): one chip.                                                     *)

CallExecute(t, c) ==
  /\ pc[t] = "idle" /\ calls[t] < MaxCalls
  /\ calls' = [calls EXCEPT ![t] = @ + 1]
  /\ chip' = [chip EXCEPT ![t] = c]
  /\ Goto(t, "lookup")
  /\ UNCHANGED <<locks, copied, board>>

\* The lock of the chip is looked up, and made if it is new, under the condition.
LookUpLock(t) ==
  /\ pc[t] = "lookup" /\ ConditionFree
  /\ Goto(t, "acquire")
  /\ UNCHANGED <<locks, chip, calls, copied, board>>

AcquireChipLock(t) ==
  /\ pc[t] = "acquire" /\ chip_locks[chip[t]] = Nobody
  /\ chip_locks' = [chip_locks EXCEPT ![chip[t]] = t]
  /\ Goto(t, "count")
  /\ UNCHANGED <<condition, n_locks, chip, calls, copied, board>>

CountEarly(t) ==
  /\ pc[t] = "count"
  /\ n_locks' = n_locks + 1
  /\ Goto(t, "write")
  /\ UNCHANGED <<condition, chip_locks, chip, calls, copied, board>>

CountChipLock(t) ==
  /\ pc[t] = "count" /\ ConditionFree
  /\ n_locks' = n_locks + 1
  /\ Goto(t, "write")
  /\ UNCHANGED <<condition, chip_locks, chip, calls, copied, board>>

WriteExecutable(t) ==
  /\ pc[t] = "write"
  /\ buffer' = [buffer EXCEPT ![chip[t]] = Call(t)]
  /\ Goto(t, "run")
  /\ UNCHANGED <<locks, chip, calls, copied, started>>

RunExecutable(t) ==
  /\ pc[t] = "run"
  /\ UNCHANGED buffer
  /\ Start(chip[t], t)
  /\ Goto(t, "release")
  /\ UNCHANGED <<locks, chip, calls, copied>>

\* The writing or the starting raises; the image may have been written or the
\* start may have happened all the same.
ExecuteRaises(t) ==
  /\ pc[t] \in Loading
  /\ Goto(t, "release")
  /\ \/ UNCHANGED board
     \/ /\ pc[t] = "write"
        /\ buffer' = [buffer EXCEPT ![chip[t]] = Call(t)]
        /\ UNCHANGED started
     \/ /\ pc[t] = "run"
        /\ UNCHANGED buffer
        /\ Start(chip[t], t)
  /\ UNCHANGED <<locks, chip, calls, copied>>

\* Everyone in wait_for() is woken, and will look again.
Woken(t, place) ==
  pc' = [u \in Threads |-> IF u = t THEN place
                           ELSE IF pc[u] = "waiting" THEN "notified" ELSE pc[u]]

ReleaseQuietly(t) ==
  /\ pc[t] = "release" /\ ConditionFree
  /\ chip_locks' = [chip_locks EXCEPT ![chip[t]] = Nobody]
  /\ n_locks' = n_locks - 1
  /\ Goto(t, "idle")
  /\ UNCHANGED <<condition, chip, calls, copied, board>>

ReleaseChipLock(t) ==
  /\ pc[t] = "release" /\ ConditionFree
  /\ chip_locks' = [chip_locks EXCEPT ![chip[t]] = Nobody]
  /\ n_locks' = n_locks - 1
  /\ Woken(t, "idle")
  /\ UNCHANGED <<condition, chip, calls, copied, board>>

-----------------------------------------------------------------------------
(* execute_flood(): every chip.                                             *)

CallExecuteFlood(t) ==
  /\ pc[t] = "idle" /\ calls[t] < MaxCalls
  /\ calls' = [calls EXCEPT ![t] = @ + 1]
  /\ copied' = [copied EXCEPT ![t] = {}]
  /\ Goto(t, "enter")
  /\ UNCHANGED <<locks, chip, board>>

NothingExecutingYet == n_locks < 2
NothingExecuting == n_locks < 1

\* __flood_execute_lock: with the condition held, wait until nothing executes.
EnterFlood(t) ==
  /\ pc[t] \in {"enter", "notified"} /\ ConditionFree
  /\ \/ /\ NothingExecuting
        /\ condition' = t
        /\ Goto(t, "flood")
     \/ /\ ~NothingExecuting
        /\ Goto(t, "waiting")
        /\ UNCHANGED condition
  /\ UNCHANGED <<chip_locks, n_locks, chip, calls, copied, board>>

WriteBoot(t) ==
  /\ pc[t] = "flood"
  /\ buffer' = [buffer EXCEPT ![Boot] = Call(t)]
  /\ copied' = [copied EXCEPT ![t] = {Boot}]
  /\ Goto(t, "runboot")
  /\ UNCHANGED <<locks, chip, calls, started>>

\* The binary is started on the boot chip if it has cores there.
RunBoot(t) ==
  /\ pc[t] = "runboot"
  /\ UNCHANGED buffer
  /\ Start(Boot, t) \/ UNCHANGED started
  /\ Goto(t, "copy")
  /\ UNCHANGED <<locks, chip, calls, copied>>

CopyFrom(c, t) == c \in Chips \ copied[t] /\ c # Boot /\ Parent[c] \in copied[t]

\* One chip copies the image from its parent and starts it.
CopyRun(t) ==
  /\ pc[t] = "copy"
  /\ \E c \in Chips :
       /\ CopyFrom(c, t)
       /\ buffer' = [buffer EXCEPT ![c] = buffer[Parent[c]]]
       /\ copied' = [copied EXCEPT ![t] = @ \union {c}]
       /\ Start(c, t)
  /\ UNCHANGED <<locks, pc, chip, calls>>

CopyEnds(t) ==
  /\ pc[t] = "copy" /\ \A c \in Chips : ~CopyFrom(c, t)
  /\ Goto(t, "leave")
  /\ UNCHANGED <<locks, chip, calls, copied, board>>

\* Writing, starting or copying raises; what was asked of the board may have
\* been done.
FloodRaises(t) ==
  /\ pc[t] \in {"flood", "runboot", "copy"}
  /\ Goto(t, "leave")
  /\ \/ UNCHANGED board
     \/ /\ pc[t] = "flood"
        /\ buffer' = [buffer EXCEPT ![Boot] = Call(t)]
        /\ UNCHANGED started
  /\ UNCHANGED <<locks, chip, calls, copied>>

LeaveFlood(t) ==
  /\ pc[t] = "leave"
  /\ condition' = Nobody
  /\ Goto(t, "idle")
  /\ UNCHANGED <<chip_locks, n_locks, chip, calls, copied, board>>

-----------------------------------------------------------------------------

\* What a thread does once it has made a call.
Work(t) ==
  \/ LookUpLock(t) \/ AcquireChipLock(t) \/ CountChipLock(t)
  \/ WriteExecutable(t) \/ RunExecutable(t) \/ ExecuteRaises(t) \/ ReleaseChipLock(t)
  \/ EnterFlood(t) \/ WriteBoot(t) \/ RunBoot(t) \/ CopyRun(t) \/ CopyEnds(t)
  \/ FloodRaises(t) \/ LeaveFlood(t)

Terminated == (\A t \in Threads : pc[t] = "idle") /\ UNCHANGED vars

Next ==
  \/ \E t \in Threads :
       Work(t) \/ CallExecuteFlood(t) \/ \E c \in Chips : CallExecute(t, c)
  \/ Terminated

Spec == Init /\ [][Next]_vars

\* Every thread is scheduled, and one waiting for a lock gets it when the lock
\* stays free; each thread makes finitely many calls.
FairSpec == Spec /\ \A t \in Threads : WF_vars(Work(t))

-----------------------------------------------------------------------------
(* Properties.                                                              *)

TypeOK ==
  /\ condition \in Threads \union {Nobody}
  /\ chip_locks \in [Chips -> Threads \union {Nobody}]
  /\ n_locks \in Int
  /\ pc \in [Threads -> Locations]
  /\ chip \in [Threads -> Chips]
  /\ calls \in [Threads -> 0 .. MaxCalls]
  /\ \A t \in Threads : pc[t] # "idle" => calls[t] > 0
  /\ copied \in [Threads -> SUBSET Chips]
  /\ buffer \in [Chips -> Images]
  /\ started \in [Chips -> Starts]

\* No chip starts an image other than the one loaded by the call that starts it,
\* whatever calls overlap and whichever of them fail half way.
StartsOwnImage == \A c \in Chips : started[c].by = started[c].image

\* A flood runs alone, and no chip is loaded by two calls at a time.
FloodExcludes ==
  \A t, u \in Threads :
    t # u => /\ pc[t] \in Flooding => pc[u] \notin Loading \union Flooding
             /\ pc[t] \in Loading /\ pc[u] \in Loading => chip[t] # chip[u]

\* No wake-up is lost: a flood waits only while some execute() call is still to
\* release its lock and notify.
NoLostWakeUp ==
  (\E t \in Threads : pc[t] = "waiting") => \E u \in Threads : pc[u] \in Counted

\* Every call returns: none is left waiting for a lock.
CallsReturn == \A t \in Threads : pc[t] # "idle" ~> pc[t] = "idle"

\* Why they hold: the locks have the owners the program positions say, and the
\* counter counts the calls inside the chip's with block.
LocksOwned ==
  /\ \A t \in Threads : condition = t <=> pc[t] \in Flooding
  /\ \A t \in Threads, c \in Chips :
       chip_locks[c] = t <=> pc[t] \in HasChipLock /\ chip[t] = c
CountedThreads == {t \in Threads : pc[t] \in Counted}
CounterExact == n_locks = Cardinality(CountedThreads)
FloodAlone == \A t \in Threads : pc[t] \in Flooding => CountedThreads = {}
\* The image of a call stays in the buffer until the call has started it.
ImageKept ==
  \A t \in Threads :
    /\ pc[t] = "run" => buffer[chip[t]] = Call(t)
    /\ pc[t] \in {"runboot", "copy"} =>
         Boot \in copied[t] /\ \A c \in copied[t] : buffer[c] = Call(t)
Locking == TypeOK /\ LocksOwned /\ CounterExact /\ FloodAlone /\ ImageKept
           /\ NoLostWakeUp

\* The locks implement LoadingDiscipline.
Discipline == INSTANCE LoadingDiscipline WITH
  loading <- [t \in Threads |-> IF pc[t] \in Loading THEN {chip[t]}
                                ELSE IF pc[t] \in Flooding THEN Chips ELSE {}]
ImplementsDiscipline == Discipline!Spec
===============================================================================
