--------------------------- MODULE BoardReadyProofs ---------------------------
(* Theorems of BoardReady, for every number of tries, every set of connections *)
(* and every set of versions.                                                  *)
EXTENDS BoardReady, TLAPS

\* the search has found nothing yet
Searching == {"bmp", "cycle", "ensure", "ask", "pause", "boot"}

\* The strengthening: what version_info holds is what the board runs, because no
\* power or boot command can follow once something is found; and a machine that
\* is known to be off is not asked and not booted.
Found ==
    /\ scamp # "none" => power = "on"
    /\ version_info # NoVersion =>
         power = "on" /\ scamp = "up" /\ firmware = version_info
    /\ pc \in Searching => version_info = NoVersion
    /\ pc \in {"settle", "ready"} =>
         version_info # NoVersion /\ IsCompatible(version_info)
Off ==
    /\ machine_off =>
         pc \in {"ensure", "found", "raised"} /\ version_info = NoVersion
    /\ pc = "boot" => tries > 0

IInv == TypeOK /\ Found /\ Off

-----------------------------------------------------------------------------
\* Types are kept by every step of the constructor and of the board.
LEMMA TypeStep == IInv /\ [Next]_vars => TypeOK'
<1> USE TriesAssumption, VersionAssumption
<1> SUFFICES ASSUME IInv, [Next]_vars PROVE TypeOK'
  OBVIOUS
<1>1. CASE CheckBMP
  BY <1>1 DEF IInv, TypeOK, CheckBMP, Raise, board
<1>2. CASE PowerCycle
  BY <1>2 DEF IInv, TypeOK, PowerCycle, Power, Switch, Raise
<1>3. CASE EnsureReady
  BY <1>3 DEF IInv, TypeOK, EnsureReady, board
<1>4. CASE AskVersion
  BY <1>4 DEF IInv, TypeOK, AskVersion, Replies, Answers, board
<1>5. CASE Pause
  BY <1>5 DEF IInv, TypeOK, Pause, board
<1>6. CASE BootBoard
  BY <1>6 DEF IInv, TypeOK, Off, BootBoard, Booted, Raise, Versions
<1>7. CASE AskAgain
  BY <1>7 DEF IInv, TypeOK, AskAgain, board
<1>8. CASE PowerOn
  BY <1>8 DEF IInv, TypeOK, PowerOn, Power, Switch, Raise
<1>9. CASE Verify
  BY <1>9 DEF IInv, TypeOK, Verify, board
<1>10. CASE Settle
  BY <1>10 DEF IInv, TypeOK, Settle, Raise, board
<1>11. CASE LearnCoordinates
  BY <1>11 DEF IInv, TypeOK, LearnCoordinates, program
<1>12. CASE UNCHANGED vars
  BY <1>12 DEF IInv, TypeOK, vars, program, board
<1> QED
  BY <1>1, <1>2, <1>3, <1>4, <1>5, <1>6, <1>7, <1>8, <1>9, <1>10, <1>11, <1>12
     DEF Next, Constructor

\* What was found stays true of the board until the constructor returns.
LEMMA FoundStep == IInv /\ [Next]_vars => Found'
<1> USE VersionAssumption DEF Searching
<1> SUFFICES ASSUME IInv, [Next]_vars PROVE Found'
  OBVIOUS
<1>1. CASE CheckBMP
  BY <1>1 DEF IInv, Found, CheckBMP, Raise, board, IsCompatible
<1>2. CASE PowerCycle
  BY <1>2 DEF IInv, TypeOK, Found, PowerCycle, Power, Switch, Raise, IsCompatible
<1>3. CASE EnsureReady
  BY <1>3 DEF IInv, Found, EnsureReady, board, IsCompatible
<1>4. CASE AskVersion
  BY <1>4 DEF IInv, TypeOK, Found, AskVersion, Replies, Answers, board
<1>5. CASE Pause
  BY <1>5 DEF IInv, Found, Pause, board
<1>6. CASE BootBoard
  BY <1>6 DEF IInv, Found, BootBoard, Booted, Raise
<1>7. CASE AskAgain
  BY <1>7 DEF IInv, TypeOK, Found, AskAgain, Replies, Answers, board
<1>8. CASE PowerOn
  BY <1>8 DEF IInv, TypeOK, Found, PowerOn, NextIsPowerOn, Power, Switch, Raise
<1>9. CASE Verify
  BY <1>9 DEF IInv, Found, Verify, board, IsCompatible
<1>10. CASE Settle
  BY <1>10 DEF IInv, Found, Settle, Raise, board, IsCompatible
<1>11. CASE LearnCoordinates
  BY <1>11 DEF IInv, Found, LearnCoordinates, program, IsCompatible
<1>12. CASE UNCHANGED vars
  BY <1>12 DEF IInv, Found, vars, program, board, IsCompatible
<1> QED
  BY <1>1, <1>2, <1>3, <1>4, <1>5, <1>6, <1>7, <1>8, <1>9, <1>10, <1>11, <1>12
     DEF Next, Constructor

\* A machine known to be off is never in a search.
LEMMA OffStep == IInv /\ [Next]_vars => Off'
<1> SUFFICES ASSUME IInv, [Next]_vars PROVE Off'
  OBVIOUS
<1>1. CASE CheckBMP
  BY <1>1 DEF IInv, Off, CheckBMP, Raise
<1>6. CASE PowerCycle
  BY <1>6 DEF IInv, TypeOK, Found, Searching, Off, PowerCycle, Power, Raise
<1>7. CASE EnsureReady
  BY <1>7 DEF IInv, TypeOK, Found, Searching, Off, EnsureReady
<1>2. CASE AskVersion
  BY <1>2, TriesAssumption DEF IInv, TypeOK, Off, AskVersion
<1>3. CASE Pause \/ BootBoard \/ AskAgain
  BY <1>3 DEF IInv, TypeOK, Off, Pause, BootBoard, AskAgain, Raise
<1>8. CASE Verify
  BY <1>8 DEF IInv, Off, Verify
<1>9. CASE Settle
  BY <1>9 DEF IInv, Off, Settle, Raise
<1>4. CASE PowerOn
  BY <1>4 DEF IInv, TypeOK, Off, PowerOn, NextIsPowerOn, Power, Raise
<1>5. CASE LearnCoordinates \/ UNCHANGED vars
  BY <1>5 DEF IInv, Off, LearnCoordinates, vars, program
<1> QED
  BY <1>1, <1>2, <1>3, <1>4, <1>5, <1>6, <1>7, <1>8, <1>9 DEF Next, Constructor

\* The invariant of the constructor: types, the meaning of version_info, and what
\* a machine that is known to be off rules out.
THEOREM Invariance == Spec => []IInv
<1>1. Init => IInv
  <2> SUFFICES ASSUME Init PROVE IInv
    OBVIOUS
  <2>1. TypeOK
    BY DEF Init, TypeOK, Versions
  <2>2. Found
    BY DEF Init, Found
  <2>3. Off
    BY DEF Init, Off
  <2> QED
    BY <2>1, <2>2, <2>3 DEF IInv
<1>2. IInv /\ [Next]_vars => IInv'
  BY TypeStep, FoundStep, OffStep DEF IInv
<1> QED
  BY <1>1, <1>2, PTL DEF Spec

\* A transceiver is handed out only with a board that runs a SCAMP that is recent
\* enough (ReadyIsUp).
THEOREM ReadySound == Spec => []ReadyIsUp
<1>1. IInv => ReadyIsUp
  BY DEF IInv, Found, ReadyIsUp, IsCompatible, AtLeastRequired
<1> QED
  BY <1>1, Invariance, PTL

\* A machine that was powered off is not sent boot messages (NoBootWhileOff).
THEOREM BootsOnlyWhenOn == Spec => NoBootWhileOff
<1>1. IInv /\ [Next]_vars => [SendsBoot => ~machine_off]_vars
  BY DEF IInv, Off, SendsBoot
<1> QED
  BY <1>1, Invariance, PTL DEF Spec, NoBootWhileOff
===============================================================================
