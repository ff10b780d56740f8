-------------------------- MODULE ExecuteLocksProofs --------------------------
(***************************************************************************)
(* Theorems of ExecuteLocks, for any number of threads, chips and calls.    *)
(***************************************************************************)
EXTENDS ExecuteLocks, FiniteSetTheorems, TLAPS

LEMMA CountedFinite ==
  /\ IsFiniteSet(CountedThreads)
  /\ Cardinality(CountedThreads) \in Nat
  /\ Cardinality(CountedThreads) = 0 <=> CountedThreads = {}
<1>1. IsFiniteSet(CountedThreads)
  BY LocksAssumption, FS_Subset DEF CountedThreads
<1>2. QED
  BY <1>1, FS_CardinalityType, FS_EmptySet

LEMMA LockingInit == Init => Locking
<1> SUFFICES ASSUME Init PROVE Locking
  OBVIOUS
<1> USE DEF Init, Flooding, Counted, Loading, HasChipLock
<1>1. TypeOK
  BY LocksAssumption DEF TypeOK, Locations, Images, NoImage, Starts
<1>2. LocksOwned /\ FloodAlone /\ ImageKept /\ NoLostWakeUp
  BY LocksAssumption DEF LocksOwned, FloodAlone, ImageKept, NoLostWakeUp
<1>3. CountedThreads = {}
  BY DEF CountedThreads
<1>4. CounterExact
  BY <1>3, FS_EmptySet DEF CounterExact
<1>5. QED
  BY <1>1, <1>2, <1>4 DEF Locking

LEMMA CallIsImage ==
  ASSUME TypeOK, NEW t \in Threads, pc[t] # "idle"
  PROVE  Call(t) \in Images
<1>1. calls[t] \in 1 .. MaxCalls
  BY LocksAssumption DEF TypeOK
<1>2. QED
  BY <1>1 DEF Call, Images

\* The buffers and the starts keep their types when chips get the image of a
\* call in progress or of their parent, or start what is in their buffer.
LEMMA BoardTyped ==
  ASSUME TypeOK, NEW t \in Threads, pc[t] # "idle", calls' = calls,
         NEW c \in Chips,
         \/ buffer' = buffer
         \/ buffer' = [buffer EXCEPT ![c] = Call(t)]
         \/ \E d \in Chips : buffer' = [buffer EXCEPT ![c] = buffer[d]],
         started' = started \/ Start(c, t)
  PROVE  buffer' \in [Chips -> Images] /\ started' \in [Chips -> Starts]
<1>1. Call(t) \in Images
  BY CallIsImage
<1>2. buffer' \in [Chips -> Images]
  BY <1>1 DEF TypeOK
<1>3. [by |-> Call(t), image |-> buffer'[c]] \in Starts
  BY <1>1, <1>2 DEF Starts
<1>4. QED
  BY <1>2, <1>3 DEF TypeOK, Start

LEMMA TypeStep == Locking /\ [Next]_vars => TypeOK'
<1> SUFFICES ASSUME Locking, [Next]_vars PROVE TypeOK'
  OBVIOUS
<1>0. TypeOK
  BY DEF Locking
<1> USE LocksAssumption DEF TypeOK, locks, board, Locations, Goto, Woken
<1>1. ASSUME NEW t \in Threads, CallExecuteFlood(t) \/ \E c \in Chips : CallExecute(t, c)
      PROVE  TypeOK'
  <2>1. calls' = [calls EXCEPT ![t] = calls[t] + 1] /\ calls[t] + 1 \in 1 .. MaxCalls
    BY <1>0, <1>1 DEF CallExecute, CallExecuteFlood
  <2>2. \A u \in Threads : calls'[u] \in 0 .. MaxCalls /\ calls'[u] >= calls[u]
                           /\ calls'[t] > 0
    BY <1>0, <2>1
  <2>3. calls' \in [Threads -> 0 .. MaxCalls]
    BY <1>0, <2>1
  <2>4. pc' \in [Threads -> Locations] /\ \A u \in Threads \ {t} : pc'[u] = pc[u]
    BY <1>0, <1>1 DEF CallExecute, CallExecuteFlood
  <2>5. \A u \in Threads : pc'[u] # "idle" => calls'[u] > 0
    BY <1>0, <2>2, <2>4
  <2>6. chip' \in [Threads -> Chips] /\ copied' \in [Threads -> SUBSET Chips]
        /\ UNCHANGED <<locks, board>>
    BY <1>0, <1>1 DEF CallExecute, CallExecuteFlood
  <2>7. QED
    BY <1>0, <2>3, <2>4, <2>5, <2>6
<1>2. ASSUME NEW t \in Threads, LookUpLock(t) \/ AcquireChipLock(t)
      PROVE  TypeOK'
  BY <1>0, <1>2 DEF LookUpLock, AcquireChipLock
<1>3. ASSUME NEW t \in Threads, CountChipLock(t) \/ ReleaseChipLock(t)
      PROVE  TypeOK'
  BY <1>0, <1>3 DEF CountChipLock, ReleaseChipLock
<1>4. ASSUME NEW t \in Threads, EnterFlood(t) \/ CopyEnds(t) \/ LeaveFlood(t)
      PROVE  TypeOK'
  BY <1>0, <1>4 DEF EnterFlood, CopyEnds, LeaveFlood
<1>5. ASSUME NEW t \in Threads,
             \/ WriteExecutable(t) \/ RunExecutable(t) \/ ExecuteRaises(t)
             \/ WriteBoot(t) \/ RunBoot(t) \/ CopyRun(t) \/ FloodRaises(t)
      PROVE  TypeOK'
  <2>1. /\ UNCHANGED <<locks, calls, chip>>
        /\ pc' \in [Threads -> Locations] /\ \A u \in Threads \ {t} : pc'[u] = pc[u]
        /\ pc[t] # "idle" /\ copied' \in [Threads -> SUBSET Chips]
    BY <1>0, <1>5 DEF WriteExecutable, RunExecutable, ExecuteRaises, Loading, WriteBoot,
       RunBoot, CopyRun, FloodRaises
  <2>2. chip[t] \in Chips
    BY <1>0
  <2>3. CASE WriteExecutable(t) \/ RunExecutable(t) \/ ExecuteRaises(t)
    <3>1. \/ buffer' = buffer
          \/ buffer' = [buffer EXCEPT ![chip[t]] = Call(t)]
      BY <2>3 DEF WriteExecutable, RunExecutable, ExecuteRaises
    <3>2. started' = started \/ Start(chip[t], t)
      BY <2>3 DEF WriteExecutable, RunExecutable, ExecuteRaises
    <3>3. buffer' \in [Chips -> Images] /\ started' \in [Chips -> Starts]
      BY <1>0, <2>1, <2>2, <3>1, <3>2, BoardTyped
    <3>4. QED
      BY <1>0, <2>1, <3>3
  <2>4. CASE WriteBoot(t) \/ RunBoot(t) \/ FloodRaises(t)
    <3>1. \/ buffer' = buffer
          \/ buffer' = [buffer EXCEPT ![Boot] = Call(t)]
      BY <2>4 DEF WriteBoot, RunBoot, FloodRaises
    <3>2. started' = started \/ Start(Boot, t)
      BY <2>4 DEF WriteBoot, RunBoot, FloodRaises
    <3>3. buffer' \in [Chips -> Images] /\ started' \in [Chips -> Starts]
      BY <1>0, <2>1, <3>1, <3>2, BoardTyped
    <3>4. QED
      BY <1>0, <2>1, <3>3
  <2>5. CASE CopyRun(t)
    <3>1. PICK c \in Chips : /\ CopyFrom(c, t)
                             /\ buffer' = [buffer EXCEPT ![c] = buffer[Parent[c]]]
                             /\ Start(c, t)
      BY <2>5 DEF CopyRun
    <3>2. Parent[c] \in Chips
      BY <3>1 DEF CopyFrom
    <3>3. buffer' \in [Chips -> Images] /\ started' \in [Chips -> Starts]
      BY <1>0, <2>1, <3>1, <3>2, BoardTyped
    <3>4. QED
      BY <1>0, <2>1, <3>3
  <2>6. QED
    BY <1>5, <2>3, <2>4, <2>5
<1>6. CASE UNCHANGED vars
  BY <1>0, <1>6 DEF vars
<1>7. QED
  BY <1>1, <1>2, <1>3, <1>4, <1>5, <1>6 DEF Next, Work, Terminated

LEMMA OwnersStep == Locking /\ [Next]_vars => LocksOwned'
<1> SUFFICES ASSUME Locking, [Next]_vars PROVE LocksOwned'
  OBVIOUS
<1>0. TypeOK /\ LocksOwned
  BY DEF Locking
<1> USE LocksAssumption
    DEF TypeOK, LocksOwned, locks, board, Goto, Woken, Flooding, Loading, Counted, HasChipLock
<1>1. ASSUME NEW t \in Threads, CallExecuteFlood(t) \/ \E c \in Chips : CallExecute(t, c)
      PROVE  LocksOwned'
  BY <1>0, <1>1 DEF CallExecute, CallExecuteFlood
<1>2. ASSUME NEW t \in Threads, LookUpLock(t) \/ AcquireChipLock(t) \/ CountChipLock(t)
      PROVE  LocksOwned'
  BY <1>0, <1>2 DEF LookUpLock, AcquireChipLock, CountChipLock
<1>3. ASSUME NEW t \in Threads, ReleaseChipLock(t)
      PROVE  LocksOwned'
  BY <1>0, <1>3 DEF ReleaseChipLock
<1>4. ASSUME NEW t \in Threads, WriteExecutable(t) \/ RunExecutable(t) \/ ExecuteRaises(t)
      PROVE  LocksOwned'
  BY <1>0, <1>4 DEF WriteExecutable, RunExecutable, ExecuteRaises
<1>5. ASSUME NEW t \in Threads, EnterFlood(t) \/ CopyEnds(t) \/ LeaveFlood(t)
      PROVE  LocksOwned'
  BY <1>0, <1>5 DEF EnterFlood, CopyEnds, LeaveFlood, ConditionFree
<1>6. ASSUME NEW t \in Threads, WriteBoot(t) \/ RunBoot(t) \/ CopyRun(t) \/ FloodRaises(t)
      PROVE  LocksOwned'
  BY <1>0, <1>6 DEF WriteBoot, RunBoot, CopyRun, FloodRaises
<1>7. CASE UNCHANGED vars
  BY <1>0, <1>7 DEF vars
<1>8. QED
  BY <1>1, <1>2, <1>3, <1>4, <1>5, <1>6, <1>7 DEF Next, Work, Terminated

\* The counter goes up and down with the calls inside a chip's with block.
LEMMA CounterStep == Locking /\ [Next]_vars => CounterExact'
<1> SUFFICES ASSUME Locking, [Next]_vars PROVE CounterExact'
  OBVIOUS
<1>0. TypeOK /\ CounterExact
  BY DEF Locking
<1> USE DEF TypeOK, CounterExact, locks, board, Goto, Woken, Loading, Counted
<1>1. ASSUME CountedThreads' = CountedThreads, n_locks' = n_locks
      PROVE  CounterExact'
  BY <1>0, <1>1
<1>2. ASSUME NEW t \in Threads, CountChipLock(t)
      PROVE  CounterExact'
  <2>1. t \notin CountedThreads /\ CountedThreads' = CountedThreads \union {t}
    BY <1>0, <1>2 DEF CountChipLock, CountedThreads
  <2>2. Cardinality(CountedThreads') = Cardinality(CountedThreads) + 1
    BY <2>1, CountedFinite, FS_AddElement
  <2>3. QED
    BY <1>0, <1>2, <2>2 DEF CountChipLock
<1>3. ASSUME NEW t \in Threads, ReleaseChipLock(t)
      PROVE  CounterExact'
  <2>1. t \in CountedThreads /\ CountedThreads' = CountedThreads \ {t}
    BY <1>0, <1>3 DEF ReleaseChipLock, CountedThreads
  <2>2. Cardinality(CountedThreads') = Cardinality(CountedThreads) - 1
    BY <2>1, CountedFinite, FS_RemoveElement
  <2>3. QED
    BY <1>0, <1>3, <2>2 DEF ReleaseChipLock
<1>4. ASSUME NEW t \in Threads,
             \/ CallExecuteFlood(t) \/ \E c \in Chips : CallExecute(t, c)
             \/ LookUpLock(t) \/ AcquireChipLock(t)
             \/ WriteExecutable(t) \/ RunExecutable(t) \/ ExecuteRaises(t)
      PROVE  CountedThreads' = CountedThreads /\ n_locks' = n_locks
  BY <1>0, <1>4
  DEF CountedThreads, CallExecute, CallExecuteFlood, LookUpLock, AcquireChipLock,
      WriteExecutable, RunExecutable, ExecuteRaises
<1>5. ASSUME NEW t \in Threads,
             \/ EnterFlood(t) \/ CopyEnds(t) \/ LeaveFlood(t)
             \/ WriteBoot(t) \/ RunBoot(t) \/ CopyRun(t) \/ FloodRaises(t)
      PROVE  CountedThreads' = CountedThreads /\ n_locks' = n_locks
  BY <1>0, <1>5
  DEF CountedThreads, EnterFlood, CopyEnds, LeaveFlood, WriteBoot, RunBoot, CopyRun,
      FloodRaises
<1>6. CASE UNCHANGED vars
  BY <1>1, <1>6 DEF vars, CountedThreads
<1>7. QED
  BY <1>1, <1>2, <1>3, <1>4, <1>5, <1>6 DEF Next, Work, Terminated

\* While a flood holds the condition nothing is counted, and nothing starts to be.
LEMMA AloneStep == Locking /\ [Next]_vars => FloodAlone' /\ NoLostWakeUp'
<1> SUFFICES ASSUME Locking, [Next]_vars PROVE FloodAlone' /\ NoLostWakeUp'
  OBVIOUS
<1>0. TypeOK /\ LocksOwned /\ FloodAlone /\ NoLostWakeUp
      /\ (n_locks < 1 <=> CountedThreads = {})
  BY CountedFinite DEF Locking, CounterExact
<1> USE LocksAssumption
    DEF TypeOK, LocksOwned, FloodAlone, NoLostWakeUp, locks, board, Goto, Woken, Flooding,
        Loading, Counted, HasChipLock, CountedThreads
<1>1. ASSUME NEW t \in Threads,
             \/ CallExecuteFlood(t) \/ \E c \in Chips : CallExecute(t, c)
             \/ LookUpLock(t) \/ AcquireChipLock(t)
             \/ WriteExecutable(t) \/ RunExecutable(t) \/ ExecuteRaises(t)
      PROVE  FloodAlone' /\ NoLostWakeUp'
  BY <1>0, <1>1
  DEF CallExecute, CallExecuteFlood, LookUpLock, AcquireChipLock,
      WriteExecutable, RunExecutable, ExecuteRaises
<1>2. ASSUME NEW t \in Threads, CountChipLock(t) \/ ReleaseChipLock(t)
      PROVE  FloodAlone' /\ NoLostWakeUp'
  BY <1>0, <1>2 DEF CountChipLock, ReleaseChipLock, ConditionFree
<1>3. ASSUME NEW t \in Threads, EnterFlood(t)
      PROVE  FloodAlone' /\ NoLostWakeUp'
  BY <1>0, <1>3 DEF EnterFlood, NothingExecuting
<1>4. ASSUME NEW t \in Threads,
             \/ CopyEnds(t) \/ LeaveFlood(t)
             \/ WriteBoot(t) \/ RunBoot(t) \/ CopyRun(t) \/ FloodRaises(t)
      PROVE  FloodAlone' /\ NoLostWakeUp'
  BY <1>0, <1>4
  DEF CopyEnds, LeaveFlood, WriteBoot, RunBoot, CopyRun, FloodRaises
<1>5. CASE UNCHANGED vars
  BY <1>0, <1>5 DEF vars
<1>6. QED
  BY <1>1, <1>2, <1>3, <1>4, <1>5 DEF Next, Work, Terminated

\* Nobody overwrites an image between its loading and its start.
LEMMA ImageStep ==
  Locking /\ StartsOwnImage /\ [Next]_vars => ImageKept' /\ StartsOwnImage'
<1> SUFFICES ASSUME Locking, StartsOwnImage, [Next]_vars PROVE ImageKept' /\ StartsOwnImage'
  OBVIOUS
<1>0. TypeOK /\ LocksOwned /\ FloodAlone /\ ImageKept
  BY DEF Locking
<1> USE LocksAssumption
    DEF TypeOK, LocksOwned, FloodAlone, ImageKept, StartsOwnImage, locks, board, Goto, Woken,
        Flooding, Loading, Counted, HasChipLock, CountedThreads, Call, Start
<1>1. ASSUME NEW t \in Threads,
             \/ CallExecuteFlood(t) \/ \E c \in Chips : CallExecute(t, c)
             \/ LookUpLock(t) \/ AcquireChipLock(t)
             \/ CountChipLock(t) \/ ReleaseChipLock(t)
      PROVE  ImageKept' /\ StartsOwnImage'
  BY <1>0, <1>1
  DEF CallExecute, CallExecuteFlood, LookUpLock, AcquireChipLock, CountChipLock,
      ReleaseChipLock
<1>2. ASSUME NEW t \in Threads, EnterFlood(t) \/ CopyEnds(t) \/ LeaveFlood(t)
      PROVE  ImageKept' /\ StartsOwnImage'
  BY <1>0, <1>2 DEF EnterFlood, CopyEnds, LeaveFlood
<1>3. ASSUME NEW t \in Threads, WriteExecutable(t) \/ ExecuteRaises(t) \/ RunExecutable(t)
      PROVE  ImageKept' /\ StartsOwnImage'
  <2> DEFINE c == chip[t]
  <2>1. /\ c \in Chips /\ UNCHANGED <<calls, chip, copied>>
        /\ pc[t] \in Loading /\ \A u \in Threads \ {t} : pc'[u] = pc[u]
        /\ pc'[t] \in {"run", "release"} /\ (pc'[t] = "run" => WriteExecutable(t))
    BY <1>0, <1>3 DEF WriteExecutable, RunExecutable, ExecuteRaises
  <2>2. \A u \in Threads \ {t} : /\ pc[u] \notin Flooding
                                 /\ pc[u] = "run" => chip[u] # c
    BY <1>0, <2>1
  <2>3. buffer' = buffer \/ (buffer' = [buffer EXCEPT ![c] = Call(t)])
    BY <1>3 DEF WriteExecutable, RunExecutable, ExecuteRaises
  <2>4. ImageKept'
    BY <1>0, <2>1, <2>2, <2>3 DEF WriteExecutable
  <2>5. started' = started \/ (pc[t] = "run" /\ buffer' = buffer /\ Start(c, t))
    BY <1>3 DEF WriteExecutable, RunExecutable, ExecuteRaises
  <2>6. StartsOwnImage'
    BY <1>0, <2>1, <2>5, SMTT(30)
  <2>7. QED
    BY <2>4, <2>6
<1>4. ASSUME NEW t \in Threads, WriteBoot(t) \/ RunBoot(t) \/ FloodRaises(t)
      PROVE  ImageKept' /\ StartsOwnImage'
  <2>1. /\ UNCHANGED <<calls, chip>> /\ pc[t] \in Flooding
        /\ \A u \in Threads \ {t} : pc'[u] = pc[u] /\ copied'[u] = copied[u]
    BY <1>0, <1>4 DEF WriteBoot, RunBoot, FloodRaises
  <2>2. \A u \in Threads \ {t} : pc[u] \notin Flooding \union {"run"}
    BY <1>0, <2>1
  <2>3. /\ buffer' = buffer \/ buffer' = [buffer EXCEPT ![Boot] = Call(t)]
        /\ pc'[t] \in {"runboot", "copy", "leave"}
    BY <1>0, <1>4 DEF WriteBoot, RunBoot, FloodRaises
  <2>4. ASSUME pc'[t] \in {"runboot", "copy"}
        PROVE  Boot \in copied'[t] /\ \A c \in copied'[t] : buffer'[c] = Call(t)
    <3>1. CASE WriteBoot(t)
      BY <1>0, <3>1 DEF WriteBoot
    <3>2. CASE RunBoot(t)
      BY <1>0, <3>2 DEF RunBoot
    <3>3. CASE FloodRaises(t)
      BY <1>0, <2>4, <3>3 DEF FloodRaises
    <3>4. QED
      BY <1>4, <3>1, <3>2, <3>3
  <2>5. ImageKept'
    BY <1>0, <2>1, <2>2, <2>3, <2>4
  <2>6. started' = started \/ (buffer' = buffer /\ pc[t] = "runboot" /\ Start(Boot, t))
    BY <1>4 DEF WriteBoot, RunBoot, FloodRaises
  <2>7. StartsOwnImage'
    BY <1>0, <2>1, <2>6
  <2>8. QED
    BY <2>5, <2>7
<1>5. ASSUME NEW t \in Threads, CopyRun(t)
      PROVE  ImageKept' /\ StartsOwnImage'
  <2>1. PICK c \in Chips :
          /\ c \notin copied[t] /\ Parent[c] \in copied[t]
          /\ buffer' = [buffer EXCEPT ![c] = buffer[Parent[c]]]
          /\ copied' = [copied EXCEPT ![t] = copied[t] \union {c}]
          /\ started' = [started EXCEPT ![c] = [by |-> Call(t), image |-> buffer'[c]]]
    BY <1>5 DEF CopyRun, CopyFrom
  <2>2. pc[t] = "copy" /\ UNCHANGED <<pc, calls, chip>>
    BY <1>5 DEF CopyRun
  <2>3. \A u \in Threads \ {t} : pc[u] \notin Flooding \union {"run"}
    BY <1>0, <2>2
  <2>4. buffer'[c] = Call(t) /\ \A d \in Chips \ {c} : buffer'[d] = buffer[d]
    BY <1>0, <2>1, <2>2
  <2>5. ImageKept'
    BY <1>0, <2>1, <2>2, <2>3, <2>4, SMTT(30)
  <2>6. StartsOwnImage'
    BY <1>0, <2>1, <2>2, <2>4, SMTT(30)
  <2>7. QED
    BY <2>5, <2>6
<1>6. CASE UNCHANGED vars
  BY <1>0, <1>6 DEF vars
<1>7. QED
  BY <1>1, <1>2, <1>3, <1>4, <1>5, <1>6 DEF Next, Work, Terminated

LEMMA LockingStep ==
  Locking /\ StartsOwnImage /\ [Next]_vars => Locking' /\ StartsOwnImage'
  BY TypeStep, OwnersStep, CounterStep, AloneStep, ImageStep DEF Locking

LEMMA ImagesInit == Init => StartsOwnImage
  BY DEF Init, StartsOwnImage

\* The locks have the owners the program says they have, and the counter that
\* keeps floods out is the number of chips being loaded.
THEOREM LocksCorrect == Spec => []Locking
  BY LockingInit, ImagesInit, LockingStep, PTL DEF Spec

\* No call starts the image of another call.
THEOREM ImagesSound == Spec => []StartsOwnImage
  BY LockingInit, ImagesInit, LockingStep, PTL DEF Spec

LEMMA Exclusion == Locking => FloodExcludes
<1> SUFFICES ASSUME Locking, NEW t \in Threads, NEW u \in Threads, t # u
             PROVE  /\ pc[t] \in Flooding => pc[u] \notin Loading \union Flooding
                    /\ pc[t] \in Loading /\ pc[u] \in Loading => chip[t] # chip[u]
  BY DEF FloodExcludes
<1>1. pc[t] \in Flooding => pc[u] \notin Loading
  BY DEF Locking, FloodAlone, CountedThreads, Counted
<1>2. pc[t] \in Flooding => pc[u] \notin Flooding
  BY DEF Locking, LocksOwned
<1>3. pc[t] \in Loading /\ pc[u] \in Loading => chip[t] # chip[u]
  BY DEF Locking, TypeOK, LocksOwned, HasChipLock, Counted
<1>4. QED
  BY <1>1, <1>2, <1>3

\* A flood runs alone and a chip is loaded by one call at a time.
THEOREM ExclusionSound == Spec => []FloodExcludes
  BY LocksCorrect, Exclusion, PTL

\* No thread is left waiting with nobody to wake it.
THEOREM WakeUpSound == Spec => []NoLostWakeUp
  BY LocksCorrect, PTL DEF Locking

-----------------------------------------------------------------------------
(* The locks implement LoadingDiscipline.                                   *)

Used(t) == IF pc[t] \in Loading THEN {chip[t]}
           ELSE IF pc[t] \in Flooding THEN Chips ELSE {}

LEMMA DisciplineStep ==
  Locking /\ [Next]_vars => [Discipline!Next]_([t \in Threads |-> Used(t)])
<1> SUFFICES ASSUME Locking, [Next]_vars
             PROVE  [Discipline!Next]_([t \in Threads |-> Used(t)])
  OBVIOUS
<1>0. TypeOK /\ LocksOwned /\ FloodAlone /\ (n_locks < 1 <=> CountedThreads = {})
  BY CountedFinite DEF Locking, CounterExact
<1> DEFINE loading == [t \in Threads |-> Used(t)]
<1>1. ASSUME NEW t \in Threads, NEW chips, chips \in {{c} : c \in Chips} \union {Chips},
             Used(t) = {}, \A u \in Threads : chips \intersect Used(u) = {},
             \A u \in Threads \ {t} : Used(u)' = Used(u), Used(t)' = chips
      PROVE  Discipline!Next
  <2>1. Discipline!InUse = UNION {Used(u) : u \in Threads}
    BY DEF Discipline!InUse, Used
  <2>2. chips \intersect Discipline!InUse = {}
    BY <1>1, <2>1
  <2>3. loading' = [loading EXCEPT ![t] = chips]
    BY <1>1
  <2>4. Discipline!Begin(t, chips)
    BY <1>1, <2>2, <2>3 DEF Discipline!Begin, Used
  <2>5. QED
    BY <1>1, <2>4 DEF Discipline!Next
<1>2. ASSUME NEW t \in Threads, \A u \in Threads \ {t} : Used(u)' = Used(u), Used(t)' = {}
      PROVE  Discipline!Next
  <2>1. loading' = [loading EXCEPT ![t] = {}]
    BY <1>2
  <2>2. Discipline!End(t)
    BY <2>1 DEF Discipline!End, Used
  <2>3. QED
    BY <2>2 DEF Discipline!Next
<1>3. ASSUME \A u \in Threads : Used(u)' = Used(u)
      PROVE  UNCHANGED loading
  BY <1>3
<1> HIDE DEF loading
<1> USE DEF Goto, Woken, Loading, Flooding
<1>4. ASSUME NEW t \in Threads, CountChipLock(t)
      PROVE  Discipline!Next
  <2>1. /\ Used(t) = {} /\ Used(t)' = {chip[t]} /\ chip[t] \in Chips
        /\ \A u \in Threads \ {t} : Used(u)' = Used(u)
    BY <1>0, <1>4 DEF CountChipLock, Used, TypeOK
  <2>2. ASSUME NEW u \in Threads PROVE {chip[t]} \intersect Used(u) = {}
    <3>1. pc[u] \notin Flooding
      BY <1>0, <1>4, LocksAssumption DEF CountChipLock, ConditionFree, LocksOwned
    <3>2. pc[u] \in Loading => chip[u] # chip[t]
      BY <1>0, <1>4 DEF CountChipLock, LocksOwned, HasChipLock, Counted, TypeOK
    <3>3. QED
      BY <3>1, <3>2 DEF Used
  <2>3. QED
    BY <1>1, <2>1, <2>2
<1>5. ASSUME NEW t \in Threads, EnterFlood(t), NothingExecuting
      PROVE  Discipline!Next
  <2>1. /\ Used(t) = {} /\ Used(t)' = Chips
        /\ \A u \in Threads \ {t} : Used(u)' = Used(u)
    BY <1>0, <1>5 DEF EnterFlood, Used, TypeOK
  <2>2. ASSUME NEW u \in Threads PROVE Used(u) = {}
    <3>1. pc[u] \notin Flooding
      BY <1>0, <1>5, LocksAssumption DEF EnterFlood, ConditionFree, LocksOwned
    <3>2. pc[u] \notin Loading
      BY <1>0, <1>5 DEF NothingExecuting, CountedThreads, Counted
    <3>3. QED
      BY <3>1, <3>2 DEF Used
  <2>3. QED
    BY <1>1, <2>1, <2>2
<1>6. ASSUME NEW t \in Threads, RunExecutable(t) \/ ExecuteRaises(t) \/ LeaveFlood(t)
      PROVE  Discipline!Next
  <2>1. CASE RunExecutable(t)
    BY <1>0, <1>2, <2>1 DEF RunExecutable, Used, TypeOK
  <2>2. CASE ExecuteRaises(t)
    BY <1>0, <1>2, <2>2 DEF ExecuteRaises, Used, TypeOK
  <2>3. CASE LeaveFlood(t)
    BY <1>0, <1>2, <2>3 DEF LeaveFlood, Used, TypeOK
  <2>4. QED
    BY <1>6, <2>1, <2>2, <2>3
<1>7. ASSUME NEW t \in Threads,
             \/ CallExecuteFlood(t) \/ (\E c \in Chips : CallExecute(t, c))
             \/ LookUpLock(t) \/ AcquireChipLock(t) \/ WriteExecutable(t)
      PROVE  UNCHANGED loading
  BY <1>0, <1>3, <1>7 DEF CallExecuteFlood, CallExecute, LookUpLock, AcquireChipLock,
     WriteExecutable, Used, TypeOK
<1>8. ASSUME NEW t \in Threads,
             \/ ReleaseChipLock(t) \/ (EnterFlood(t) /\ ~NothingExecuting)
             \/ WriteBoot(t) \/ RunBoot(t) \/ CopyRun(t) \/ CopyEnds(t) \/ FloodRaises(t)
      PROVE  UNCHANGED loading
  BY <1>0, <1>3, <1>8 DEF ReleaseChipLock, EnterFlood, WriteBoot, RunBoot, CopyRun,
     CopyEnds, FloodRaises, Used, TypeOK
<1>9. CASE UNCHANGED vars
  BY <1>3, <1>9 DEF vars, Used
<1>10. QED
  BY <1>4, <1>5, <1>6, <1>7, <1>8, <1>9 DEF Next, Work, Terminated, loading

\* Whatever calls are made and whichever of them fail, the chips' buffers are
\* shared out as LoadingDiscipline says.
THEOREM DisciplineKept == Spec => ImplementsDiscipline
<1>1. Init => Discipline!Init
  BY DEF Init, Discipline!Init, Loading, Flooding
<1>2. Locking /\ [Next]_vars => [Discipline!Next]_([t \in Threads |-> Used(t)])
  BY DisciplineStep
<1>3. Spec => []Locking
  BY LocksCorrect
<1>4. QED
  BY <1>1, <1>2, <1>3, PTL DEF Spec, ImplementsDiscipline, Discipline!Spec, Used
===============================================================================
