--------------------------- MODULE AppCopyRunProofs ---------------------------
(***************************************************************************)
(* Proofs about AppCopyRun, for every machine whose chips have a parent and *)
(* a board, whatever becomes of the commands.                               *)
(***************************************************************************)
EXTENDS AppCopyRun, TLAPS

LEMMA LevelsInit == Init => Levels
  BY TreeAssumption
  DEF Init, Levels, TypeOK, LevelsSent, LevelChosen, LevelDone, StartedWhole,
      FailureStopsBranch, Others

\* A level that is empty although it takes all that is allowed means that no
\* chip is waiting.
LEMMA EmptyLevel == IsLevel({}) => Waiting = {}
  BY DEF IsLevel

LEMMA LevelsNextLevel == Levels /\ NextLevel => Levels'
<1> SUFFICES ASSUME Levels, NextLevel PROVE Levels'
  OBVIOUS
<1>0. TypeOK /\ LevelsSent /\ LevelDone /\ StartedWhole /\ FailureStopsBranch
  BY DEF Levels
<1>1. PICK S \in SUBSET Waiting :
        IsLevel(S) /\ next_chips' = S /\ pc' = IF S = {} THEN "done" ELSE "sending"
  BY DEF NextLevel
<1>2. pc = "choose" /\ UNCHANGED <<chips_done, status, copying, image, started>>
  BY DEF NextLevel, board
<1>3. \A c \in S : c \in Others /\ Parent[c] \in chips_done
  BY <1>1 DEF Waiting
<1>4. TypeOK'
  BY <1>0, <1>1, <1>2, <1>3 DEF TypeOK
<1>5. LevelsSent' /\ StartedWhole' /\ FailureStopsBranch'
  BY <1>0, <1>2 DEF LevelsSent, StartedWhole, FailureStopsBranch
<1>6. LevelDone'
  BY <1>0, <1>1, <1>2, EmptyLevel DEF LevelDone, Waiting
<1>7. \A c \in S : Parent[c] = Boot \/ status[Parent[c]] = "ok"
  <2>1. TAKE c \in S
  <2>2. CASE Parent[c] = Boot
    BY <2>2
  <2>3. CASE Parent[c] # Boot
    <3>1. Parent[c] \in Others
      BY <1>3, <2>3, TreeAssumption DEF Others
    <3>2. status[Parent[c]] # "unsent"
      BY <1>0, <1>3, <3>1 DEF LevelsSent
    <3>3. QED
      BY <1>0, <1>2, <3>1, <3>2 DEF LevelDone
  <2>4. QED
    BY <2>2, <2>3
<1>8. \A c, d \in S : ~Clash(c, d)
  BY <1>1 DEF IsLevel
<1>9. LevelChosen'
  BY <1>0, <1>1, <1>2, <1>7, <1>8 DEF LevelChosen, LevelDone, Clash, ShareParent, ShareBoard, OffBoard
<1>10. QED
  BY <1>4, <1>5, <1>6, <1>9 DEF Levels

LEMMA LevelsSendCopyRun ==
  ASSUME Levels, NEW c \in Others, SendCopyRun(c) PROVE Levels'
<1>0. TypeOK /\ LevelsSent /\ LevelChosen /\ StartedWhole /\ FailureStopsBranch
  BY DEF Levels
<1>1. /\ pc = "sending" /\ pc' = "sending"
      /\ c \in next_chips /\ status[c] = "unsent"
      /\ status' = [status EXCEPT ![c] = "pending"]
      /\ chips_done' = chips_done \union {c}
      /\ UNCHANGED <<next_chips, copying, image, started>>
  BY DEF SendCopyRun, board
<1>2. Parent[c] = Boot \/ status[Parent[c]] = "ok"
  BY <1>0, <1>1 DEF LevelChosen
<1>3. Parent[c] \in Chips
  BY TreeAssumption DEF Others
<1>4. Parent[c] \in chips_done
  BY <1>0, <1>2, <1>3 DEF LevelsSent, TypeOK, Others
<1>5. TypeOK'
  BY <1>0, <1>1 DEF TypeOK, Others
<1>6. LevelsSent'
  BY <1>0, <1>1, <1>4 DEF LevelsSent, TypeOK
<1>7. FailureStopsBranch'
  BY <1>0, <1>1, <1>2, <1>3 DEF FailureStopsBranch, TypeOK, Others
<1>8. StartedWhole'
  BY <1>0, <1>1 DEF StartedWhole, TypeOK
<1>9. LevelChosen'
  <2>1. \A d \in next_chips : Parent[d] = Boot \/ status'[Parent[d]] = "ok"
    BY <1>0, <1>1 DEF LevelChosen, TypeOK, Others
  <2>2. \A d \in Others : status'[d] \in {"pending", "failed"} => d \in next_chips
    BY <1>0, <1>1 DEF LevelChosen, TypeOK
  <2>3. \A d, e \in next_chips : ~Clash(d, e)
    BY <1>0, <1>1 DEF LevelChosen
  <2>4. QED
    BY <1>1, <2>1, <2>2, <2>3
    DEF LevelChosen, Clash, ShareParent, ShareBoard, OffBoard
<1>10. QED
  BY <1>1, <1>5, <1>6, <1>7, <1>8, <1>9 DEF Levels, LevelDone

LEMMA LevelsReceiveResponse ==
  ASSUME Levels, NEW c \in Others, ReceiveResponse(c) PROVE Levels'
<1>0. TypeOK /\ LevelsSent /\ LevelChosen /\ StartedWhole /\ FailureStopsBranch
  BY DEF Levels
<1>1. PICK how \in {"ok", "failed"} :
        status' = [status EXCEPT ![c] = how] /\ (how = "ok" => c \in started)
  BY DEF ReceiveResponse
<1>2. /\ pc \in {"sending", "finishing"} /\ pc' = pc
      /\ status[c] = "pending"
      /\ UNCHANGED <<chips_done, next_chips, copying, image, started>>
  BY DEF ReceiveResponse, board
<1>3. TypeOK'
  BY <1>0, <1>1, <1>2 DEF TypeOK
<1>4. LevelsSent'
  BY <1>0, <1>1, <1>2 DEF LevelsSent, TypeOK
<1>5. FailureStopsBranch'
  BY <1>0, <1>1, <1>2, TreeAssumption DEF FailureStopsBranch, TypeOK, Others
<1>6. StartedWhole'
  BY <1>0, <1>1, <1>2 DEF StartedWhole, TypeOK
<1>7. LevelChosen'
  <2>1. \A d \in next_chips : Parent[d] = Boot \/ status'[Parent[d]] = "ok"
    BY <1>0, <1>1, <1>2, TreeAssumption DEF LevelChosen, TypeOK, Others
  <2>2. \A d \in Others : status'[d] \in {"pending", "failed"} => d \in next_chips
    BY <1>0, <1>1, <1>2 DEF LevelChosen, TypeOK
  <2>3. \A d, e \in next_chips : ~Clash(d, e)
    BY <1>0, <1>2 DEF LevelChosen
  <2>4. QED
    BY <1>2, <2>1, <2>2, <2>3
    DEF LevelChosen, Clash, ShareParent, ShareBoard, OffBoard
<1>8. QED
  BY <1>2, <1>3, <1>4, <1>5, <1>6, <1>7 DEF Levels, LevelDone

LEMMA LevelsControl ==
  Levels /\ (AllSent \/ CheckForError \/ RunRaises \/ UNCHANGED vars) => Levels'
<1> SUFFICES ASSUME Levels, AllSent \/ CheckForError \/ RunRaises \/ UNCHANGED vars
             PROVE Levels'
  OBVIOUS
<1>0. TypeOK /\ LevelsSent /\ LevelChosen /\ LevelDone /\ StartedWhole /\ FailureStopsBranch
  BY DEF Levels
<1>1. UNCHANGED <<chips_done, next_chips, status, copying, image, started>>
  BY DEF AllSent, CheckForError, RunRaises, vars, host, board
<1>2. TypeOK'
  BY <1>0, <1>1 DEF TypeOK, AllSent, CheckForError, RunRaises, vars, host
<1>3. LevelsSent' /\ StartedWhole' /\ FailureStopsBranch'
  BY <1>0, <1>1 DEF LevelsSent, StartedWhole, FailureStopsBranch
<1>4. LevelChosen'
  <2>1. pc' \notin {"choose", "done"} => pc \notin {"choose", "done"}
    BY DEF AllSent, CheckForError, RunRaises, vars, host
  <2>2. QED
    BY <1>0, <1>1, <2>1 DEF LevelChosen, Clash, ShareParent, ShareBoard, OffBoard
<1>5. LevelDone'
  <2>1. CASE CheckForError
    BY <1>0, <1>1, <2>1 DEF LevelDone, CheckForError, Answered, AnyError, TypeOK
  <2>2. CASE AllSent \/ RunRaises
    BY <2>2 DEF LevelDone, AllSent, RunRaises
  <2>3. CASE UNCHANGED vars
    BY <1>0, <2>3 DEF LevelDone, Waiting, vars, host
  <2>4. QED
    BY <2>1, <2>2, <2>3
<1>6. QED
  BY <1>2, <1>3, <1>4, <1>5 DEF Levels

LEMMA LevelsBoard ==
  ASSUME Levels, NEW c \in Others, CopyBegins(c) \/ CopyEnds(c) PROVE Levels'
<1>0. TypeOK /\ LevelsSent /\ LevelChosen /\ LevelDone /\ StartedWhole /\ FailureStopsBranch
  BY DEF Levels
<1>1. UNCHANGED <<chips_done, next_chips, pc, status>>
  BY DEF CopyBegins, CopyEnds, host
<1>2. LevelsSent' /\ LevelChosen' /\ LevelDone' /\ FailureStopsBranch'
  BY <1>0, <1>1
  DEF LevelsSent, LevelChosen, LevelDone, FailureStopsBranch, Waiting, Clash, ShareParent,
      ShareBoard, OffBoard
<1>3. TypeOK'
  BY <1>0, <1>1 DEF TypeOK, CopyBegins, CopyEnds, Others
<1>4. StartedWhole'
  BY <1>0, <1>1 DEF StartedWhole, TypeOK, CopyBegins, CopyEnds, Others
<1>5. QED
  BY <1>2, <1>3, <1>4 DEF Levels

LEMMA LevelsStep == Levels /\ [Next]_vars => Levels'
  BY LevelsNextLevel, LevelsSendCopyRun, LevelsReceiveResponse, LevelsControl, LevelsBoard
  DEF Next, Run, Board, Terminated

\* The levels are sent, answered and chosen in step.
THEOREM LevelsKept == Spec => []Levels
  BY LevelsInit, LevelsStep, PTL DEF Spec

\* Every copy is made from a complete buffer, whatever is repeated or delayed.
THEOREM ParentSound == Spec => []ParentWhole
<1>1. Levels => ParentWhole
  BY TreeAssumption
  DEF Levels, ParentWhole, FailureStopsBranch, StartedWhole, TypeOK, Others
<1>2. QED
  BY LevelsKept, <1>1, PTL

\* Commands that wait at the same time never share a parent, nor the way off a
\* board.
THEOREM CopiesApart == Spec => []OneCopyAtATime
<1>1. Levels => OneCopyAtATime
  BY DEF Levels, OneCopyAtATime, LevelChosen, LevelDone, Clash
<1>2. QED
  BY LevelsKept, <1>1, PTL

\* Nothing is loaded below a chip that failed.
THEOREM FailureSound == Spec => []FailureStopsBranch
  BY LevelsKept, PTL DEF Levels

\* A run that returns has loaded and started the binary on every chip that the
\* tree reaches.
THEOREM DoneSound == Spec => []DoneIsEverywhere
<1>1. Levels => DoneIsEverywhere
  BY DEF Levels, DoneIsEverywhere, LevelDone, LevelsSent, StartedWhole, Waiting, Others
<1>2. QED
  BY LevelsKept, <1>1, PTL

-----------------------------------------------------------------------------

Holders == {c \in Chips : image[c] = "whole"}
Outcome == IF pc \in {"done", "raised"} THEN pc ELSE "running"

LEMMA SpreadStep == Levels /\ [Next]_vars => [Spread!Next]_(Spread!vars)
<1> SUFFICES ASSUME Levels, [Next]_vars PROVE [Spread!Next]_(Spread!vars)
  OBVIOUS
<1>0. TypeOK /\ LevelsSent /\ LevelChosen /\ LevelDone /\ StartedWhole
  BY DEF Levels
<1> USE DEF Holders, Outcome
<1>1. CASE NextLevel
  <2>1. UNCHANGED <<chips_done, status, image, started>> /\ pc = "choose"
    BY <1>1 DEF NextLevel, board
  <2>2. CASE pc' = "sending"
    BY <2>1, <2>2 DEF Spread!vars
  <2>3. CASE pc' = "done"
    <3>1. Waiting = {}
      BY <1>1, <2>3, EmptyLevel DEF NextLevel
    <3>2. \A c \in Others : Parent[c] \in chips_done =>
            status[c] = "ok" /\ image[c] = "whole" /\ c \in started
      BY <1>0, <2>1, <3>1 DEF LevelDone, LevelsSent, StartedWhole, Waiting
    <3>3. \A c \in Holders : c \in chips_done
      BY <1>0 DEF StartedWhole, LevelsSent, TypeOK, Others
    <3>4. \A c \in Chips \ {Boot} : Parent[c] \in Holders => c \in Holders \intersect started
      BY <3>2, <3>3 DEF Others
    <3>5. Spread!Return
      BY <2>1, <2>3, <3>4 DEF Spread!Return
    <3>6. QED
      BY <3>5 DEF Spread!Next
  <2>4. QED
    BY <1>1, <2>2, <2>3 DEF NextLevel
<1>2. CASE AllSent \/ CheckForError \/ RunRaises
  <2>1. UNCHANGED <<image, started>> /\ pc \in {"sending", "finishing"}
    BY <1>2 DEF AllSent, CheckForError, RunRaises, board
  <2>2. CASE pc' = "raised"
    BY <2>1, <2>2 DEF Spread!Raise, Spread!Next
  <2>3. CASE pc' # "raised"
    BY <1>2, <2>1, <2>3 DEF AllSent, CheckForError, RunRaises, Spread!vars
  <2>4. QED
    BY <2>2, <2>3
<1>3. ASSUME NEW c \in Others, SendCopyRun(c) \/ ReceiveResponse(c) \/ CopyBegins(c)
      PROVE  UNCHANGED Spread!vars
  <2>1. UNCHANGED <<pc, started>>
    BY <1>3 DEF SendCopyRun, ReceiveResponse, CopyBegins, board, host
  <2>2. \A d \in Chips : image'[d] = "whole" <=> image[d] = "whole"
    BY <1>0, <1>3 DEF SendCopyRun, ReceiveResponse, CopyBegins, board, TypeOK
  <2>3. QED
    BY <2>1, <2>2 DEF Spread!vars
<1>4. ASSUME NEW c \in Others, CopyEnds(c)
      PROVE  [Spread!Next]_(Spread!vars)
  <2>1. pc' = pc
    BY <1>4 DEF CopyEnds, host
  <2>2. CASE UNCHANGED <<image, started>>
    BY <2>1, <2>2 DEF Spread!vars
  <2>3. CASE ~UNCHANGED <<image, started>>
    <3>1. /\ image[Parent[c]] = "whole"
          /\ image' = [image EXCEPT ![c] = "whole"]
          /\ started' = started \union {c}
      BY <1>4, <2>3 DEF CopyEnds
    <3>2. Parent[c] \in Holders /\ c \in Chips
      BY <3>1, TreeAssumption DEF Others
    <3>3. Holders' = Holders \union {c}
      BY <1>0, <3>1, <3>2 DEF TypeOK
    <3>4. Spread!Copy(c)
      BY <2>1, <3>1, <3>2, <3>3 DEF Spread!Copy
    <3>5. QED
      BY <3>4 DEF Spread!Next, Others
  <2>4. QED
    BY <2>2, <2>3
<1>5. CASE UNCHANGED vars
  BY <1>5 DEF vars, host, board, Spread!vars
<1>6. QED
  BY <1>1, <1>2, <1>3, <1>4, <1>5 DEF Next, Run, Board, Terminated

\* The process spreads the image as ImageSpread promises.
THEOREM SpreadImplemented == Spec => ImplementsSpread
<1>1. Init => Spread!Init
  BY TreeAssumption DEF Init, Spread!Init
<1>2. QED
  BY <1>1, LevelsKept, SpreadStep, PTL DEF Spec, ImplementsSpread, Spread!Spec
===============================================================================
