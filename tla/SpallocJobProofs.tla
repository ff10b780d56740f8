---------------------------- MODULE SpallocJobProofs ----------------------------
(* Whoever stays in the block of a keepalive task keeps the job: theorems about  *)
(* SpallocJob, for every interval, period, delay and number of tasks and faults. *)
EXTENDS SpallocJob, TLAPS

(* The types.                                                                    *)
OwnerAts == {"start", "client", "job", "wait", "polling", "deleting", "leaving",
             "gone", "ended", "killed"}
WaitRecords == [kind : {"none", "ready", "change"}, old : States \cup {"none"},
                retries : Nat, limit : Nat \cup {Forever}]
TaskRecords == [at : {"none", "send", "sent", "get", "dead"}, left : Nat,
                quit : BOOLEAN, closed : BOOLEAN,
                block : {"none", "inside", "joining", "left"},
                heard : BOOLEAN, failed : BOOLEAN]
Typed ==
  /\ job \in States \cup {"none"}
  /\ idle \in Nat
  /\ token \in BOOLEAN
  /\ owner \in [at : OwnerAts, wait : WaitRecords]
  /\ tasks \in [Tasks -> TaskRecords]

(* The invariant.  The time since the server last heard of the job, and the time *)
(* that the task may still take until its next step, stay below a bound that     *)
(* grows with each step from one answer to the next.                             *)
\* No task is launched before there is a job, and no block is open at the end.
Early == owner.at \in {"start", "client"} => \A i \in Tasks : tasks[i].block = "none"
Over == owner.at \in {"leaving", "gone", "ended"} => Outside
\* A task is told to quit at the end of its block only, and ends before only if it fails.
Held(i) == tasks[i].block = "inside" =>
             /\ tasks[i].at # "none" /\ ~tasks[i].quit
             /\ tasks[i].at = "dead" => tasks[i].failed
\* A request takes no longer than it may.
Within(i) == tasks[i].at \in {"send", "sent"} => tasks[i].left <= Slow
InTime(i) == Alive /\ Kept(i) =>
               /\ tasks[i].at = "sent" => idle + tasks[i].left <= Slow
               /\ tasks[i].at = "get" => idle + tasks[i].left <= Slow + Period
               /\ tasks[i].at = "send" => idle + tasks[i].left <= 2 * Slow + Period
Timely ==
  /\ Typed /\ Early /\ Over
  /\ \A i \in Tasks : Held(i)
  /\ \A i \in Tasks : Within(i)
  /\ \A i \in Tasks : InTime(i)

LEMMA InitTimely == Init => Timely
  BY SMTT(30), Numbers DEF Init, Timely, Typed, Early, Over, Held, Within, InTime, Kept, OwnerAts, WaitRecords,
     TaskRecords, NoWait, NoTask, States, Outside, Tasks

LEMMA TimelyKeepsAlive == Timely => KeptAlive
<1>. SUFFICES ASSUME Timely, Alive, NEW i \in Tasks, Kept(i)
              PROVE  idle < Interval
  BY DEF KeptAlive
<1>1. /\ tasks[i] \in TaskRecords /\ idle \in Nat /\ Held(i) /\ InTime(i)
  BY DEF Timely, Typed
<1>2. tasks[i].at \in {"send", "sent", "get"} /\ tasks[i].left \in Nat
  BY <1>1 DEF TaskRecords, Held, Kept
<1>3. idle <= 2 * Slow + Period
  BY <1>1, <1>2, Numbers DEF InTime
<1>. QED  BY <1>1, <1>3, Numbers, PeriodFits

(* The types are kept.                                                           *)
LEMMA TypedStep == Typed /\ [Next]_vars => Typed'
<1>. SUFFICES ASSUME Typed, [Next]_vars PROVE Typed'
  OBVIOUS
<1>. USE Numbers, LimitsAre DEF Typed, server, client
<1>0. /\ \A a \in OwnerAts : [at |-> a, wait |-> NoWait] \in [at : OwnerAts, wait : WaitRecords]
      /\ NoTask \in TaskRecords
  BY DEF OwnerAts, WaitRecords, NoWait, TaskRecords, NoTask
<1>w. ASSUME NEW w \in WaitRecords, NEW s \in States \cup {"none"},
             WhileNotReady(w, s) \/ Returns \/ Waits(w) \/ Changed(w, s)
      PROVE  owner' \in [at : OwnerAts, wait : WaitRecords]
  <2>. DEFINE n == IF w.limit = Forever THEN 0 ELSE w.retries + 1
              w2 == [w EXCEPT !.old = s, !.retries = n]
  <2>1. w.retries \in Nat
    BY DEF WaitRecords
  <2>2. n \in Nat
    BY <2>1
  <2>3. w2 \in WaitRecords
    <3>. HIDE DEF n
    <3>. QED  BY <2>2 DEF WaitRecords
  <2>4. ASSUME NEW v \in WaitRecords PROVE [at |-> "wait", wait |-> v] \in [at : OwnerAts, wait : WaitRecords]
    BY DEF OwnerAts
  <2>5. [at |-> "wait", wait |-> w2] \in [at : OwnerAts, wait : WaitRecords]
    BY <2>3, <2>4
  <2>6. [at |-> "wait", wait |-> w] \in [at : OwnerAts, wait : WaitRecords]
    BY <2>4
  <2>7. [at |-> "job", wait |-> NoWait] \in [at : OwnerAts, wait : WaitRecords]
    BY <1>0 DEF OwnerAts
  <2>8. CASE Returns
    BY <2>7, <2>8 DEF Returns, GoesTo
  <2>9. CASE Waits(w)
    BY <2>6, <2>9 DEF Waits
  <2>10. CASE WhileNotReady(w, s)
    <3>1. Waits(w2) \/ Returns
      BY <2>10 DEF WhileNotReady
    <3>. HIDE DEF w2
    <3>. QED  BY <3>1, <2>5, <2>8 DEF Waits
  <2>11. CASE Changed(w, s)
    BY <2>8, <2>10, <2>11 DEF Changed
  <2>. QED  BY <1>w, <2>8, <2>9, <2>10, <2>11
<1>1. CASE Renew
  BY <1>1, <1>0 DEF Renew, GoesTo, OwnerAts
<1>2. CASE Create
  BY <1>2, <1>0 DEF Create, GoesTo, OwnerAts, States
<1>3. CASE CloseClient
  BY <1>3 DEF CloseClient
<1>4. CASE GetState
  <2>1. ASSUME NEW limit \in Limits
        PROVE  [NoWait EXCEPT !.kind = "ready", !.limit = limit] \in WaitRecords
    BY <2>1 DEF NoWait, WaitRecords
  <2>. QED  BY <1>4, <1>w, <1>0, <2>1 DEF GetState, Returns, GoesTo, OwnerAts
<1>5. CASE WaitForStateChange
  <2>1. ASSUME NEW s \in States
        PROVE  [NoWait EXCEPT !.kind = "change", !.old = s] \in WaitRecords
    BY <2>1 DEF NoWait, WaitRecords
  <2>2. ASSUME NEW w \in WaitRecords, Waits(w)
        PROVE  owner' \in [at : OwnerAts, wait : WaitRecords]
    BY <1>w, <2>2 DEF States
  <2>. HIDE DEF Typed
  <2>3. owner' \in [at : OwnerAts, wait : WaitRecords]
    BY <1>5, <2>1, <2>2 DEF WaitForStateChange
  <2>. QED  BY <1>5, <2>3 DEF WaitForStateChange, Typed
<1>6. CASE Poll
  <2>1. owner.wait \in WaitRecords /\ owner.wait.old \in States \cup {"none"}
    BY DEF WaitRecords
  <2>2. [owner EXCEPT !.at = "polling"] \in [at : OwnerAts, wait : WaitRecords]
    BY DEF OwnerAts
  <2>. QED  BY <1>6, <1>w, <1>0, <2>1, <2>2 DEF Poll, Returns, GoesTo, OwnerAts
<1>7. CASE Answer
  <2>1. owner.wait \in WaitRecords
    OBVIOUS
  <2>. QED  BY <1>7, <1>w, <1>0, <2>1 DEF Answer, Returns, GoesTo, Waits, OwnerAts
<1>8. CASE Keepalive
  BY <1>8 DEF Keepalive
<1>9. CASE Launch
  <2>1. [NoTask EXCEPT !.at = "send", !.left = Slow, !.block = "inside"] \in TaskRecords
    BY DEF NoTask, TaskRecords
  <2>. QED  BY <1>9, <2>1 DEF Launch
<1>10. ASSUME NEW i \in Tasks, LeaveBlock(i) PROVE Typed'
  <2>1. \A t \in TaskRecords : [t EXCEPT !.block = "left"] \in TaskRecords
    BY DEF TaskRecords
  <2>2. \A t \in TaskRecords : [t EXCEPT !.quit = TRUE, !.block = "joining"] \in TaskRecords
    BY DEF TaskRecords
  <2>3. tasks[i] \in TaskRecords
    OBVIOUS
  <2>4. tasks' \in [Tasks -> TaskRecords]
    BY <1>10, <2>1, <2>2, <2>3 DEF LeaveBlock
  <2>. QED  BY <1>10, <2>4 DEF LeaveBlock
<1>11. ASSUME NEW i \in Tasks, JoinOrKill(i) PROVE Typed'
  <2>1. [tasks[i] EXCEPT !.block = "left", !.at = "dead", !.left = 0] \in TaskRecords
    BY DEF TaskRecords
  <2>2. tasks' \in [Tasks -> TaskRecords]
    BY <1>11, <2>1 DEF JoinOrKill
  <2>. QED  BY <1>11, <2>2 DEF JoinOrKill
<1>12. ASSUME NEW i \in Tasks, Put(i) PROVE Typed'
  <2>1. idle' \in Nat
    BY <1>12 DEF Put
  <2>2. tasks' \in [Tasks -> TaskRecords]
    BY <1>12 DEF Put, TaskRecords
  <2>. QED  BY <1>12, <2>1, <2>2 DEF Put
<1>13. ASSUME NEW i \in Tasks, PutReturns(i) \/ GetQuit(i) \/ GetEmpty(i) PROVE Typed'
  BY <1>13 DEF PutReturns, GetQuit, GetEmpty, TaskRecords
<1>14. CASE Destroy \/ Leave
  <2>1. tasks' \in [Tasks -> TaskRecords]
    <3>1. \A i \in Tasks : [tasks[i] EXCEPT !.closed = TRUE] \in TaskRecords
      <4>1. \A t \in TaskRecords : [t EXCEPT !.closed = TRUE] \in TaskRecords
        BY DEF TaskRecords
      <4>. QED BY <4>1
    <3>2. tasks' = tasks \/ tasks' = [tasks EXCEPT ![handle].closed = TRUE]
      BY <1>14 DEF Destroy, Leave, CloseHandle
    <3>3. ASSUME tasks' = [tasks EXCEPT ![handle].closed = TRUE], NEW i \in Tasks
          PROVE  tasks'[i] \in TaskRecords
      BY <3>1, <3>3
    <3>. QED  BY <3>2, <3>3
  <2>. QED  BY <1>14, <1>0, <2>1 DEF Destroy, Leave, GoesTo, OwnerAts
<1>15. CASE Delete
  BY <1>15, <1>0 DEF Delete, GoesTo, OwnerAts, States
<1>16. CASE Exit
  <2>1. tasks' \in [Tasks -> TaskRecords]
    <3>1. \A i \in Tasks : [tasks[i] EXCEPT !.at = "dead", !.left = 0] \in TaskRecords
      <4>1. \A t \in TaskRecords : [t EXCEPT !.at = "dead", !.left = 0] \in TaskRecords
        <5>. HIDE DEF Typed
        <5>. QED  BY DEF TaskRecords
      <4>. QED  BY <4>1
    <3>2. tasks' = [i \in Tasks |-> IF tasks[i].at = "none" THEN NoTask
                                     ELSE [tasks[i] EXCEPT !.at = "dead", !.left = 0]]
      BY <1>16 DEF Exit
    <3>. HIDE DEF Typed
    <3>. QED  BY <1>0, <3>1, <3>2
  <2>. QED  BY <1>16, <1>0, <2>1 DEF Exit, GoesTo, OwnerAts
<1>17. CASE Crash
  BY <1>17, <1>0 DEF Crash, GoesTo, OwnerAts
<1>18. CASE Progress \/ Revoke \/ LetGo \/ ExpireSession
  BY <1>18 DEF Progress, Revoke, LetGo, ExpireSession, States
<1>19. CASE Tick
  <2>1. ASSUME NEW i \in Tasks, Timed(i)
        PROVE  [tasks[i] EXCEPT !.left = @ - 1] \in TaskRecords
    BY <1>19, <2>1 DEF Tick, TaskRecords
  <2>2. tasks' \in [Tasks -> TaskRecords]
    BY <1>19, <2>1 DEF Tick
  <2>. QED  BY <1>19, <2>2 DEF Tick
<1>20. CASE UNCHANGED vars
  BY <1>20 DEF vars
<1>. QED
  BY <1>1, <1>2, <1>3, <1>4, <1>5, <1>6, <1>7, <1>8, <1>9, <1>10, <1>11, <1>12, <1>13,
     <1>14, <1>15, <1>16, <1>17, <1>18, <1>19, <1>20
  DEF Next, Owner, Server, Task

(* The order of things is kept: tasks belong to blocks, and blocks to the time   *)
(* between the creation of the job and its end.                                  *)
LEMMA OrderStep == Timely /\ [Next]_vars => Early' /\ Over' /\ \A i \in Tasks : Held(i)'
<1>. SUFFICES ASSUME Timely, [Next]_vars
              PROVE  Early' /\ Over' /\ \A i \in Tasks : Held(i)'
  OBVIOUS
<1>. USE DEF server, client
<1>0. /\ Early /\ Over /\ \A i \in Tasks : Held(i)
      /\ tasks \in [Tasks -> TaskRecords]
      /\ owner \in [at : OwnerAts, wait : WaitRecords]
  BY DEF Timely, Typed
<1>t. ASSUME UNCHANGED tasks,
             owner'.at \in {"start", "client"} => owner.at \in {"start", "client"},
             owner'.at \in {"leaving", "gone", "ended"} =>
               owner.at \in {"start", "client", "leaving", "gone", "ended"}
      PROVE  Early' /\ Over' /\ \A i \in Tasks : Held(i)'
  BY <1>0, <1>t DEF Early, Over, Held, Outside
<1>w. ASSUME NEW w, NEW s, WhileNotReady(w, s) \/ Returns \/ Waits(w) \/ Changed(w, s)
      PROVE  owner'.at \in {"job", "wait"}
  BY <1>w DEF WhileNotReady, Returns, Waits, Changed, GoesTo
<1>1. CASE Renew \/ Create
  BY <1>1, <1>t DEF Renew, Create, GoesTo, At
<1>2. CASE CloseClient \/ Keepalive \/ Progress \/ Revoke \/ LetGo \/ ExpireSession \/ UNCHANGED vars
  BY <1>2, <1>t DEF CloseClient, Keepalive, Progress, Revoke, LetGo, ExpireSession, vars
<1>3. CASE GetState \/ WaitForStateChange
  <2>1. owner'.at \in {"job", "wait"} /\ UNCHANGED tasks
    BY <1>3, <1>w DEF GetState, WaitForStateChange
  <2>. QED  BY <2>1, <1>t
<1>4. CASE Poll \/ Answer
  <2>1. [owner EXCEPT !.at = "polling"].at = "polling"
    BY <1>0
  <2>2. owner'.at \in {"job", "wait", "polling"} /\ UNCHANGED tasks
    BY <1>4, <1>w, <2>1 DEF Poll, Answer
  <2>. QED  BY <2>2, <1>t
<1>5. CASE Launch
  <2>1. PICK i \in Tasks :
          tasks' = [tasks EXCEPT ![i] = [NoTask EXCEPT !.at = "send", !.left = Slow, !.block = "inside"]]
    BY <1>5 DEF Launch
  <2>2. owner' = owner /\ owner.at = "job"
    BY <1>5 DEF Launch, At
  <2>3. /\ \A j \in Tasks \ {i} : tasks'[j] = tasks[j]
        /\ tasks'[i].at = "send" /\ ~tasks'[i].quit
    BY <2>1, <1>0 DEF NoTask
  <2>. QED  BY <1>0, <2>2, <2>3 DEF Early, Over, Held
<1>6. ASSUME NEW i \in Tasks, LeaveBlock(i) PROVE Early' /\ Over' /\ \A j \in Tasks : Held(j)'
  <2>1. owner' = owner /\ owner.at = "job"
    BY <1>6 DEF LeaveBlock, At
  <2>2. /\ \A j \in Tasks \ {i} : tasks'[j] = tasks[j]
        /\ tasks'[i].block \in {"left", "joining"}
    <3>1. /\ [tasks[i] EXCEPT !.block = "left"].block = "left"
          /\ [tasks[i] EXCEPT !.quit = TRUE, !.block = "joining"].block = "joining"
      BY <1>0 DEF TaskRecords
    <3>. QED  BY <1>0, <1>6, <3>1 DEF LeaveBlock
  <2>. QED  BY <1>0, <2>1, <2>2 DEF Early, Over, Held
<1>7. ASSUME NEW i \in Tasks, JoinOrKill(i) PROVE Early' /\ Over' /\ \A j \in Tasks : Held(j)'
  <2>1. /\ owner' = owner /\ tasks[i].block = "joining"
        /\ \A j \in Tasks \ {i} : tasks'[j] = tasks[j]
        /\ tasks'[i].block = "left"
    <3>1. [tasks[i] EXCEPT !.block = "left", !.at = "dead", !.left = 0].block = "left"
      BY <1>0 DEF TaskRecords
    <3>. QED  BY <1>0, <1>7, <3>1 DEF JoinOrKill
  <2>. QED  BY <1>0, <2>1 DEF Early, Over, Held, Outside
<1>8. ASSUME NEW i \in Tasks, Task(i) PROVE Early' /\ Over' /\ \A j \in Tasks : Held(j)'
  <2>1. /\ owner' = owner
        /\ \A j \in Tasks \ {i} : tasks'[j] = tasks[j]
    BY <1>0, <1>8 DEF Task, Put, PutReturns, GetQuit, GetEmpty
  <2>2. /\ tasks'[i].block = tasks[i].block /\ tasks'[i].quit = tasks[i].quit
        /\ tasks'[i].at \in {"send", "sent", "get", "dead"}
        /\ tasks'[i].at = "dead" => tasks[i].quit \/ tasks'[i].failed
    BY <1>0, <1>8 DEF Task, Put, PutReturns, GetQuit, GetEmpty, TaskRecords
  <2>. QED  BY <1>0, <2>1, <2>2 DEF Early, Over, Held, Outside
<1>9. CASE Destroy \/ Leave
  <2>1. \A j \in Tasks : tasks'[j] = tasks[j] \/ tasks'[j] = [tasks[j] EXCEPT !.closed = TRUE]
    BY <1>0, <1>9 DEF Destroy, Leave, CloseHandle
  <2>2. \A j \in Tasks : /\ tasks'[j].block = tasks[j].block /\ tasks'[j].quit = tasks[j].quit
                         /\ tasks'[j].at = tasks[j].at /\ tasks'[j].failed = tasks[j].failed
    <3>. SUFFICES ASSUME NEW j \in Tasks
                  PROVE  /\ tasks'[j].block = tasks[j].block /\ tasks'[j].quit = tasks[j].quit
                         /\ tasks'[j].at = tasks[j].at /\ tasks'[j].failed = tasks[j].failed
      OBVIOUS
    <3>1. LET t == [tasks[j] EXCEPT !.closed = TRUE]
          IN  /\ t.block = tasks[j].block /\ t.quit = tasks[j].quit
              /\ t.at = tasks[j].at /\ t.failed = tasks[j].failed
      BY <1>0 DEF TaskRecords
    <3>. QED  BY <2>1, <3>1
  <2>3. owner'.at = "deleting" \/ (owner'.at = "leaving" /\ Outside)
    BY <1>9 DEF Destroy, Leave, GoesTo
  <2>. QED  BY <1>0, <2>2, <2>3 DEF Early, Over, Held, Outside
<1>10. CASE Delete \/ Crash
  BY <1>10, <1>t DEF Delete, Crash, GoesTo, At
<1>11. CASE Exit
  <2>1. Outside /\ owner'.at = "ended"
    BY <1>0, <1>11 DEF Exit, Over, At, GoesTo
  <2>2. \A j \in Tasks : tasks'[j].block \in {tasks[j].block, "none"}
    <3>1. \A j \in Tasks : [tasks[j] EXCEPT !.at = "dead", !.left = 0].block = tasks[j].block
      BY <1>0 DEF TaskRecords
    <3>. QED  BY <1>11, <3>1 DEF Exit, NoTask
  <2>. QED  BY <2>1, <2>2 DEF Early, Over, Held, Outside
<1>12. CASE Tick
  <2>1. \A j \in Tasks : /\ tasks'[j].block = tasks[j].block /\ tasks'[j].quit = tasks[j].quit
                         /\ tasks'[j].at = tasks[j].at /\ tasks'[j].failed = tasks[j].failed
    <3>1. \A j \in Tasks : LET t == [tasks[j] EXCEPT !.left = @ - 1]
                           IN  /\ t.block = tasks[j].block /\ t.quit = tasks[j].quit
                               /\ t.at = tasks[j].at /\ t.failed = tasks[j].failed
      BY <1>0 DEF TaskRecords
    <3>. QED  BY <1>12, <3>1 DEF Tick
  <2>2. owner' = owner
    BY <1>12 DEF Tick
  <2>. QED  BY <1>0, <2>1, <2>2 DEF Early, Over, Held, Outside
<1>. QED
  BY <1>1, <1>2, <1>3, <1>4, <1>5, <1>6, <1>7, <1>8, <1>9, <1>10, <1>11, <1>12
  DEF Next, Owner, Server

(* The bound on a request is kept.                                               *)
LEMMA RequestStep == Timely /\ [Next]_vars => \A i \in Tasks : Within(i)'
<1>. SUFFICES ASSUME Timely, [Next]_vars, NEW j \in Tasks PROVE Within(j)'
  OBVIOUS
<1>. USE DEF server, client
<1>0. /\ Within(j) /\ tasks \in [Tasks -> TaskRecords] /\ tasks[j] \in TaskRecords
  BY DEF Timely, Typed
<1>t. ASSUME tasks'[j] = tasks[j] PROVE Within(j)'
  BY <1>0, <1>t DEF Within
<1>1. CASE \/ Renew \/ Create \/ CloseClient \/ GetState \/ WaitForStateChange \/ Poll \/ Answer
           \/ Keepalive \/ Delete \/ Crash \/ Progress \/ Revoke \/ LetGo \/ ExpireSession
           \/ UNCHANGED vars
  BY <1>1, <1>t DEF Renew, Create, CloseClient, GetState, WaitForStateChange, Poll, Answer,
     Keepalive, Delete, Crash, Progress, Revoke, LetGo, ExpireSession, vars
<1>2. CASE Launch
  <2>1. PICK i \in Tasks :
          tasks' = [tasks EXCEPT ![i] = [NoTask EXCEPT !.at = "send", !.left = Slow, !.block = "inside"]]
    BY <1>2 DEF Launch
  <2>2. i = j => tasks'[j].left = Slow
    BY <2>1, <1>0 DEF NoTask
  <2>3. i # j => tasks'[j] = tasks[j]
    BY <2>1, <1>0
  <2>. QED  BY <1>t, <2>2, <2>3, Numbers DEF Within
<1>3. ASSUME NEW i \in Tasks, LeaveBlock(i) \/ JoinOrKill(i) PROVE Within(j)'
  <2>1. i # j => tasks'[j] = tasks[j]
    BY <1>0, <1>3 DEF LeaveBlock, JoinOrKill
  <2>2. i = j => tasks'[j].at = "dead" \/ (tasks'[j].at = tasks[j].at /\ tasks'[j].left = tasks[j].left)
    <3>1. LET left == [tasks[j] EXCEPT !.block = "left"]
              told == [tasks[j] EXCEPT !.quit = TRUE, !.block = "joining"]
              gone == [tasks[j] EXCEPT !.block = "left", !.at = "dead", !.left = 0]
          IN  /\ left.at = tasks[j].at /\ left.left = tasks[j].left
              /\ told.at = tasks[j].at /\ told.left = tasks[j].left
              /\ gone.at = "dead"
      BY <1>0 DEF TaskRecords
    <3>. QED  BY <1>0, <1>3, <3>1 DEF LeaveBlock, JoinOrKill
  <2>. QED  BY <1>0, <1>t, <2>1, <2>2 DEF Within
<1>4. ASSUME NEW i \in Tasks, Task(i) PROVE Within(j)'
  <2>1. i # j => tasks'[j] = tasks[j]
    BY <1>0, <1>4 DEF Task, Put, PutReturns, GetQuit, GetEmpty
  <2>2. CASE i = j /\ Put(i)
    <3>1. \A b \in BOOLEAN : [tasks[j] EXCEPT !.at = "sent", !.heard = b].left = tasks[j].left
      BY <1>0 DEF TaskRecords
    <3>2. /\ tasks[j].at = "send" /\ tasks'[j].at \in {"sent", "dead"}
          /\ tasks'[j].at = "sent" => tasks'[j].left = tasks[j].left
      BY <1>0, <2>2, <3>1 DEF Put, TaskRecords
    <3>. QED  BY <1>0, <3>2 DEF Within
  <2>3. CASE i = j /\ (PutReturns(i) \/ GetQuit(i))
    BY <1>0, <2>3 DEF PutReturns, GetQuit, TaskRecords, Within
  <2>4. CASE i = j /\ GetEmpty(i)
    <3>1. tasks'[j].left = Slow
      BY <1>0, <2>4 DEF GetEmpty, TaskRecords
    <3>. QED  BY <3>1, Numbers DEF Within
  <2>. QED  BY <1>4, <1>t, <2>1, <2>2, <2>3, <2>4 DEF Task
<1>5. CASE Destroy \/ Leave
  <2>1. tasks'[j] = tasks[j] \/ tasks'[j] = [tasks[j] EXCEPT !.closed = TRUE]
    BY <1>0, <1>5 DEF Destroy, Leave, CloseHandle
  <2>2. tasks'[j].at = tasks[j].at /\ tasks'[j].left = tasks[j].left
    BY <1>0, <2>1 DEF TaskRecords
  <2>. QED  BY <1>0, <2>2 DEF Within
<1>6. CASE Exit
  <2>1. [tasks[j] EXCEPT !.at = "dead", !.left = 0].at = "dead"
    BY <1>0 DEF TaskRecords
  <2>2. tasks'[j].at \in {"none", "dead"}
    BY <1>6, <2>1 DEF Exit, NoTask
  <2>. QED  BY <2>2 DEF Within
<1>7. CASE Tick
  <2>1. LET t == [tasks[j] EXCEPT !.left = @ - 1]
        IN  t.at = tasks[j].at /\ t.left = tasks[j].left - 1
    BY <1>0 DEF TaskRecords
  <2>2. tasks'[j].at = tasks[j].at /\ tasks'[j].left \in {tasks[j].left, tasks[j].left - 1}
    BY <1>7, <2>1 DEF Tick
  <2>3. tasks[j].left \in Nat
    BY <1>0 DEF TaskRecords
  <2>. QED  BY <1>0, <2>2, <2>3, Numbers DEF Within
<1>. QED
  BY <1>1, <1>2, <1>3, <1>4, <1>5, <1>6, <1>7 DEF Next, Owner, Server

(* The time is kept.                                                             *)
LEMMA TimeStep == Timely /\ [Next]_vars => \A i \in Tasks : InTime(i)'
<1>. SUFFICES ASSUME Timely, [Next]_vars, NEW j \in Tasks, Alive', Kept(j)'
              PROVE  /\ tasks'[j].at = "sent" => idle' + tasks'[j].left <= Slow
                     /\ tasks'[j].at = "get" => idle' + tasks'[j].left <= Slow + Period
                     /\ tasks'[j].at = "send" => idle' + tasks'[j].left <= 2 * Slow + Period
  BY DEF InTime
<1>. DEFINE Bounded == /\ tasks'[j].at = "sent" => idle' + tasks'[j].left <= Slow
                       /\ tasks'[j].at = "get" => idle' + tasks'[j].left <= Slow + Period
                       /\ tasks'[j].at = "send" => idle' + tasks'[j].left <= 2 * Slow + Period
<1>. USE DEF server, client
<1>0. /\ Early /\ Within(j) /\ InTime(j) /\ idle \in Nat
      /\ tasks \in [Tasks -> TaskRecords] /\ tasks[j] \in TaskRecords
      /\ owner \in [at : OwnerAts, wait : WaitRecords]
  BY DEF Timely, Typed
<1>k. /\ tasks'[j].block = "inside" /\ tasks'[j].heard /\ ~tasks'[j].failed
      /\ ~tasks'[j].closed /\ (session' = "valid" \/ token')
  BY DEF Kept
\* A step that does nothing to the task and lets no time pass.
<1>t. ASSUME tasks'[j] = tasks[j], idle' \in {idle, 0},
             session' = "valid" => session = "valid", UNCHANGED token, Alive
      PROVE  Bounded
  <2>1. Kept(j)
    BY <1>k, <1>t DEF Kept
  <2>2. tasks[j].left \in Nat
    BY <1>0 DEF TaskRecords
  <2>. QED  BY <1>0, <1>t, <2>1, <2>2, Numbers DEF InTime
<1>1. CASE Renew \/ Create
  <2>1. owner.at \in {"start", "client"} /\ UNCHANGED tasks
    BY <1>1 DEF Renew, Create, At
  <2>. QED  BY <1>0, <1>k, <2>1 DEF Early
<1>2. CASE CloseClient \/ GetState \/ WaitForStateChange \/ Poll \/ Answer \/ Delete \/ Crash
  BY <1>2, <1>t DEF CloseClient, GetState, WaitForStateChange, Poll, Answer, Delete, Crash, Alive
<1>3. CASE Keepalive
  BY <1>3, <1>t DEF Keepalive, Alive
<1>4. CASE Progress \/ Revoke \/ LetGo \/ ExpireSession \/ UNCHANGED vars
  BY <1>4, <1>t DEF Progress, Revoke, LetGo, ExpireSession, vars, Alive
<1>5. CASE Launch
  <2>1. PICK i \in Tasks :
          tasks' = [tasks EXCEPT ![i] = [NoTask EXCEPT !.at = "send", !.left = Slow, !.block = "inside"]]
    BY <1>5 DEF Launch
  <2>2. ~tasks'[i].heard /\ (i # j => tasks'[j] = tasks[j])
    BY <2>1, <1>0 DEF NoTask
  <2>. QED  BY <1>5, <1>t, <1>k, <2>2 DEF Launch, Alive
<1>6. ASSUME NEW i \in Tasks, LeaveBlock(i) \/ JoinOrKill(i) PROVE Bounded
  <2>1. i # j => tasks'[j] = tasks[j]
    BY <1>0, <1>6 DEF LeaveBlock, JoinOrKill
  <2>2. tasks'[i].block # "inside"
    <3>1. /\ [tasks[i] EXCEPT !.block = "left"].block = "left"
          /\ [tasks[i] EXCEPT !.quit = TRUE, !.block = "joining"].block = "joining"
          /\ [tasks[i] EXCEPT !.block = "left", !.at = "dead", !.left = 0].block = "left"
      BY <1>0 DEF TaskRecords
    <3>. QED  BY <1>0, <1>6, <3>1 DEF LeaveBlock, JoinOrKill
  <2>. QED  BY <1>6, <1>t, <1>k, <2>1, <2>2 DEF LeaveBlock, JoinOrKill, Alive
<1>7. ASSUME NEW i \in Tasks, Put(i) PROVE Bounded
  <2>1. UNCHANGED <<job, session, token>> /\ Alive /\ idle' \in {idle, 0}
    BY <1>7 DEF Put, Alive
  <2>2. CASE i # j
    <3>1. tasks'[j] = tasks[j]
      BY <1>0, <1>7, <2>2 DEF Put
    <3>. QED  BY <1>t, <2>1, <3>1
  <2>3. CASE i = j
    <3>1. tasks'[j].at \in {"sent", "dead"} /\ (tasks'[j].at = "sent" => tasks'[j].left = tasks[j].left /\ idle' = 0)
      <4>1. session = "valid" \/ token
        BY <1>k, <2>1
      <4>2. \A b \in BOOLEAN : [tasks[j] EXCEPT !.at = "sent", !.heard = b].left = tasks[j].left
        BY <1>0 DEF TaskRecords
      <4>. QED  BY <1>0, <1>7, <2>1, <2>3, <4>1, <4>2 DEF Put, TaskRecords
    <3>2. tasks[j].left \in Nat /\ tasks[j].at = "send"
      BY <1>0, <1>7, <2>3 DEF TaskRecords, Put
    <3>. QED  BY <1>0, <3>1, <3>2, Numbers DEF Within
  <2>. QED  BY <2>2, <2>3
<1>8. ASSUME NEW i \in Tasks, PutReturns(i) \/ GetQuit(i) \/ GetEmpty(i) PROVE Bounded
  <2>1. UNCHANGED <<job, idle, session, token>> /\ Alive
    BY <1>8 DEF PutReturns, GetQuit, GetEmpty, Alive
  <2>2. CASE i # j
    <3>1. tasks'[j] = tasks[j]
      BY <1>0, <1>8, <2>2 DEF PutReturns, GetQuit, GetEmpty
    <3>. QED  BY <1>t, <2>1, <3>1
  <2>3. CASE i = j
    <3>1. Kept(j)
      BY <1>0, <1>8, <1>k, <2>1, <2>3 DEF Kept, PutReturns, GetQuit, GetEmpty, TaskRecords
    <3>2. tasks[j].left \in Nat
      BY <1>0 DEF TaskRecords
    <3>3. CASE PutReturns(i)
      BY <1>0, <2>1, <2>3, <3>1, <3>2, <3>3, Numbers DEF PutReturns, InTime, TaskRecords
    <3>4. CASE GetQuit(i)
      BY <1>0, <2>3, <3>4 DEF GetQuit, TaskRecords
    <3>5. CASE GetEmpty(i)
      BY <1>0, <2>1, <2>3, <3>1, <3>2, <3>5, Numbers DEF GetEmpty, InTime, TaskRecords
    <3>. QED  BY <1>8, <3>3, <3>4, <3>5
  <2>. QED  BY <2>2, <2>3
<1>9. CASE Destroy \/ Leave
  <2>1. tasks'[j] = tasks[j] \/ tasks'[j] = [tasks[j] EXCEPT !.closed = TRUE]
    BY <1>0, <1>9 DEF Destroy, Leave, CloseHandle
  <2>2. tasks'[j] = tasks[j]
    BY <1>0, <1>k, <2>1 DEF TaskRecords
  <2>. QED  BY <1>9, <1>t, <2>2 DEF Destroy, Leave, Alive
<1>10. CASE Exit
  <2>1. [tasks[j] EXCEPT !.at = "dead", !.left = 0].at = "dead"
    BY <1>0 DEF TaskRecords
  <2>2. tasks'[j].at \in {"none", "dead"}
    BY <1>10, <2>1 DEF Exit, NoTask
  <2>. QED  BY <2>2
<1>11. CASE Tick
  <2>1. /\ UNCHANGED <<job, session, token>> /\ idle' = idle + 1 /\ Alive
        /\ tasks'[j] = IF Timed(j) THEN [tasks[j] EXCEPT !.left = @ - 1] ELSE tasks[j]
    BY <1>11 DEF Tick, Alive
  <2>2. CASE ~Timed(j)
    BY <2>1, <2>2 DEF Timed
  <2>3. CASE Timed(j)
    <3>1. /\ tasks'[j].at = tasks[j].at /\ tasks'[j].left = tasks[j].left - 1
          /\ tasks[j].left \in Nat
      BY <1>0, <2>1, <2>3 DEF TaskRecords
    <3>2. Kept(j)
      BY <1>0, <1>k, <2>1, <2>3 DEF Kept, TaskRecords
    <3>. QED  BY <1>0, <2>1, <3>1, <3>2, Numbers DEF InTime
  <2>. QED  BY <2>2, <2>3
<1>. QED
  BY <1>1, <1>2, <1>3, <1>4, <1>5, <1>6, <1>7, <1>8, <1>9, <1>10, <1>11
  DEF Next, Owner, Server, Task

(* In the block of a keepalive task that got through, and whose requests do not  *)
(* fail, the server never lets the job go for want of a keepalive: the period of *)
(* launch_keepalive_task and two delays together are shorter than the interval.  *)
THEOREM JobKeptAlive == Spec => []KeptAlive
<1>1. Timely /\ [Next]_vars => Timely'
  BY TypedStep, OrderStep, RequestStep, TimeStep DEF Timely
<1>. QED  BY <1>1, InitTimely, TimelyKeepsAlive, PTL DEF Spec

===============================================================================
