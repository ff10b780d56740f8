------------------------------- MODULE SpallocJob -------------------------------
(* The life of a spalloc job: SpallocClient logs in and creates it, its owner    *)
(* waits for it, a process of its own keeps it alive, and destroy() or the end   *)
(* of `with job` gives the boards back.  The server lets a job go that nobody    *)
(* has kept alive for an interval, and forgets a session when it likes to.       *)
EXTENDS Naturals, FiniteSets

CONSTANTS
  Interval,        \* keepalive-interval of the job, in ticks
  Period,          \* period of launch_keepalive_task
  Slow,            \* how long one request of the task may take
  MaxTasks,        \* how often the owner launches a task
  Limits,          \* the n_retries that wait_until_ready is called with
  Forever,         \* n_retries = None
  DestroyInside,   \* the owner may destroy the job inside the block of a task
  MaxFaults        \* how many requests fail on the way

ASSUME Numbers == Interval \in Nat /\ Period \in Nat /\ Slow \in Nat /\ MaxTasks \in Nat /\ MaxFaults \in Nat
ASSUME PeriodFits == Period + 2 * Slow < Interval
ASSUME LimitsAre == Limits \subseteq Nat \cup {Forever}

States == {"QUEUED", "POWER", "READY", "DESTROYED"}
Tasks == 1..MaxTasks
VARIABLES
  token,     \* the session has a bearer token
  job,       \* the server's state of the job, or "none"
  idle,      \* ticks since the server last heard that it is wanted
  session,   \* "none", or the server takes the session to be "valid" or "expired"
  purged,    \* the client has been closed
  owner,     \* the owner: at, and the call it waits in
  handle,    \* __keepalive_handle: the task whose queue it is, or 0
  tasks,     \* the task processes, their queues and the blocks they are launched for
  faults

server == <<job, idle, session>>
client == <<token, purged>>
vars == <<server, client, owner, handle, tasks, faults>>

NoWait == [kind |-> "none", old |-> "none", retries |-> 0, limit |-> 0]
NoTask == [at |-> "none", left |-> 0, quit |-> FALSE, closed |-> FALSE, block |-> "none",
           heard |-> FALSE, failed |-> FALSE]

Init ==
  /\ token \in BOOLEAN
  /\ job = "none" /\ idle = 0 /\ session = "none"
  /\ purged = FALSE
  /\ owner = [at |-> "start", wait |-> NoWait]
  /\ handle = 0
  /\ tasks = [i \in Tasks |-> NoTask]
  /\ faults = 0

Alive == job \notin {"none", "DESTROYED"}
At(a) == owner.at = a
GoesTo(a) == owner' = [at |-> a, wait |-> NoWait]

(* Session.  A GET carries the cookie of the session, the other requests also    *)
(* the token.  A refused request raises before _may_renew sees its 401.          *)
MayGet == ~purged /\ session = "valid"
MayChange == MayGet \/ token
Fault == faults < MaxFaults /\ faults' = faults + 1
\* A request: it is carried out and answered, it is carried out and its answer is
\* lost, it does not get there, or it is refused; all but the first raise.
Answered(may) == may /\ UNCHANGED faults
CarriedOut(may) == may /\ (UNCHANGED faults \/ Fault)
Raises(may) == (~may /\ UNCHANGED faults) \/ Fault

Renew ==
  /\ At("start")
  /\ \/ session' = "valid" /\ GoesTo("client") /\ UNCHANGED faults
     \/ Fault /\ GoesTo("gone") /\ UNCHANGED session
  /\ UNCHANGED <<job, idle, client, handle, tasks>>

\* _create: the job may be there although its answer, with its address, is lost.
Create ==
  /\ At("client")
  /\ \/ /\ CarriedOut(MayChange) /\ job' = "QUEUED" /\ idle' = 0
        /\ GoesTo(IF faults' = faults THEN "job" ELSE "gone")
     \/ Raises(MayChange) /\ GoesTo("gone") /\ UNCHANGED <<job, idle>>
  /\ UNCHANGED <<session, client, handle, tasks>>

\* close() of the client takes the credentials from every job it has made.
CloseClient ==
  /\ At("job") /\ ~purged /\ purged' = TRUE
  /\ UNCHANGED <<token, server, owner, handle, tasks, faults>>

(* Waiting.                                                                      *)
Returns == GoesTo("job")    \* with a state, with nothing, or by an exception
Waits(w) == owner' = [at |-> "wait", wait |-> w]

\* One turn of the loop of wait_until_ready with the state it knows.
WhileNotReady(w, s) ==
  IF s # "READY" /\ (w.limit = Forever \/ w.retries < w.limit)
  THEN Waits([w EXCEPT !.old = s, !.retries = IF w.limit = Forever THEN 0 ELSE @ + 1])
  ELSE Returns
\* wait_for_state_change has returned s: wait_until_ready raises if it is destroyed.
ChangedUnlooked(w, s) ==
  IF w.kind = "change" THEN Returns ELSE WhileNotReady(w, s)
Changed(w, s) ==
  IF w.kind = "change" \/ s = "DESTROYED" THEN Returns ELSE WhileNotReady(w, s)

GetState ==
  /\ At("job")
  /\ \E limit \in Limits :
       \/ Answered(MayGet) /\ WhileNotReady([NoWait EXCEPT !.kind = "ready", !.limit = limit], job)
       \/ Raises(MayGet) /\ Returns
  /\ UNCHANGED <<server, client, handle, tasks>>

WaitForStateChange ==
  /\ At("job")
  /\ \E s \in States : Waits([NoWait EXCEPT !.kind = "change", !.old = s])
  /\ UNCHANGED <<server, client, handle, tasks, faults>>

Poll ==
  /\ At("wait")
  /\ LET w == owner.wait
     IN  IF w.old = "DESTROYED" THEN Changed(w, w.old) /\ UNCHANGED faults
         ELSE \/ Answered(MayGet) /\ owner' = [owner EXCEPT !.at = "polling"]
              \/ Raises(MayGet) /\ Returns
  /\ UNCHANGED <<server, client, handle, tasks>>

\* The server holds the request until the state changes, or for long enough: what
\* it answers may be the state that was known, and then it is asked again.
Answer ==
  /\ At("polling")
  /\ LET w == owner.wait
     IN  \/ /\ UNCHANGED faults
            /\ IF job # w.old \/ job = "DESTROYED" THEN Changed(w, job) ELSE Waits(w)
         \/ Fault /\ Returns
  /\ UNCHANGED <<server, client, handle, tasks>>

Keepalive ==
  /\ At("job")
  /\ \/ CarriedOut(MayChange) /\ idle' = (IF Alive THEN 0 ELSE idle)
     \/ Raises(MayChange) /\ UNCHANGED idle
  /\ UNCHANGED <<job, session, client, owner, handle, tasks>>

(* The keepalive task, and the block it is launched for.                         *)
\* A second task is refused as long as there is a handle.
Launch ==
  /\ At("job") /\ handle = 0
  /\ \E i \in Tasks :
       /\ \A j \in Tasks : tasks[j].at = "none" <=> j >= i
       /\ tasks' = [tasks EXCEPT ![i] = [NoTask EXCEPT !.at = "send", !.left = Slow, !.block = "inside"]]
       /\ handle' = i
  /\ UNCHANGED <<server, client, owner, faults>>

Innermost(i) == \A j \in Tasks : tasks[j].block # "none" => (j > i => tasks[j].block = "left")
\* __closer: the end of the block, which may raise.  A closed queue takes nothing.
LeaveBlockUnlessRaised(i) ==
  /\ At("job") /\ tasks[i].block = "inside" /\ Innermost(i)
  /\ \E raised \in BOOLEAN :
       tasks' = [tasks EXCEPT ![i] = IF @.closed \/ raised THEN [@ EXCEPT !.block = "left"]
                                     ELSE [@ EXCEPT !.quit = TRUE, !.block = "joining"]]
  /\ UNCHANGED <<server, client, owner, handle, faults>>
LeaveBlock(i) ==
  /\ At("job") /\ tasks[i].block = "inside" /\ Innermost(i)
  /\ \E raised \in BOOLEAN :
       tasks' = [tasks EXCEPT ![i] = IF @.closed THEN [@ EXCEPT !.block = "left"]
                                     ELSE [@ EXCEPT !.quit = TRUE, !.block = "joining"]]
  /\ UNCHANGED <<server, client, owner, handle, faults>>
\* A task that does not end within a second is killed.
JoinOrKill(i) ==
  /\ tasks[i].block = "joining"
  /\ tasks' = [tasks EXCEPT ![i].block = "left", ![i].at = "dead", ![i].left = 0]
  /\ UNCHANGED <<server, client, owner, handle, faults>>

\* _spalloc_keepalive, with the credentials there were at its launch.  A refusal is
\* not looked at; a request that fails ends the process.
Put(i) ==
  /\ tasks[i].at = "send"
  /\ LET may == session = "valid" \/ token
     IN  \/ /\ UNCHANGED faults
            /\ idle' = (IF may /\ Alive THEN 0 ELSE idle)
            /\ tasks' = [tasks EXCEPT ![i].at = "sent", ![i].heard = @ \/ may]
         \/ /\ Fault
            /\ idle' \in {idle} \cup (IF may /\ Alive THEN {0} ELSE {})
            /\ tasks' = [tasks EXCEPT ![i].at = "dead", ![i].left = 0, ![i].failed = TRUE]
  /\ UNCHANGED <<job, session, client, owner, handle>>
PutReturns(i) ==
  /\ tasks[i].at = "sent"
  /\ tasks' = [tasks EXCEPT ![i].at = "get", ![i].left = Period]
  /\ UNCHANGED <<server, client, owner, handle, faults>>
GetQuit(i) ==
  /\ tasks[i].at = "get" /\ tasks[i].quit
  /\ tasks' = [tasks EXCEPT ![i].at = "dead", ![i].left = 0]
  /\ UNCHANGED <<server, client, owner, handle, faults>>
GetEmptyEnds(i) ==
  /\ tasks[i].at = "get" /\ tasks[i].left = 0
  /\ tasks' = [tasks EXCEPT ![i].at = "dead", ![i].left = 0]
  /\ UNCHANGED <<server, client, owner, handle, faults>>
GetEmpty(i) ==
  /\ tasks[i].at = "get" /\ tasks[i].left = 0
  /\ tasks' = [tasks EXCEPT ![i].at = "send", ![i].left = Slow]
  /\ UNCHANGED <<server, client, owner, handle, faults>>

(* destroy() and the end of `with job`, which is quiet about its errors.         *)
\* The queue is closed for this process only: the task has its own end of it.
CloseHandle ==
  IF handle = 0 THEN UNCHANGED <<handle, tasks>>
  ELSE handle' = 0 /\ tasks' = [tasks EXCEPT ![handle].closed = TRUE]
Outside == \A i \in Tasks : tasks[i].block \in {"none", "left"}
Destroy ==
  /\ At("job") /\ (DestroyInside \/ Outside)
  /\ CloseHandle /\ GoesTo("deleting")
  /\ UNCHANGED <<server, client, faults>>
Leave ==
  /\ At("job") /\ Outside
  /\ CloseHandle /\ GoesTo("leaving")
  /\ UNCHANGED <<server, client, faults>>
Delete ==
  /\ owner.at \in {"deleting", "leaving"}
  /\ \/ CarriedOut(MayChange) /\ (IF Alive THEN job' = "DESTROYED" ELSE UNCHANGED job)
     \/ Raises(MayChange) /\ UNCHANGED job
  /\ GoesTo(IF At("leaving") THEN "gone" ELSE "job")
  /\ UNCHANGED <<idle, session, client, handle, tasks>>

\* The end of the owner's process: an orderly one takes the task, a daemon, along.
Exit ==
  /\ At("gone") /\ GoesTo("ended")
  /\ tasks' = [i \in Tasks |-> IF tasks[i].at = "none" THEN NoTask ELSE [tasks[i] EXCEPT !.at = "dead", !.left = 0]]
  /\ UNCHANGED <<server, client, handle, faults>>
Crash ==
  /\ At("job") /\ GoesTo("killed")
  /\ UNCHANGED <<server, client, handle, tasks, faults>>

(* The server and the time.                                                      *)
Progress ==
  /\ \/ job = "QUEUED" /\ job' = "POWER"
     \/ job = "POWER" /\ job' = "READY"
  /\ UNCHANGED <<idle, session, client, owner, handle, tasks, faults>>
Revoke ==
  /\ Alive /\ job' = "DESTROYED"
  /\ UNCHANGED <<idle, session, client, owner, handle, tasks, faults>>
LetGo ==
  /\ Alive /\ idle = Interval /\ job' = "DESTROYED"
  /\ UNCHANGED <<idle, session, client, owner, handle, tasks, faults>>
ExpireSession ==
  /\ session = "valid" /\ session' = "expired"
  /\ UNCHANGED <<job, idle, client, owner, handle, tasks, faults>>
Timed(i) == tasks[i].at \in {"send", "sent", "get"}
Tick ==
  /\ Alive \/ \E i \in Tasks : Timed(i)
  /\ Alive => idle < Interval
  /\ \A i \in Tasks : Timed(i) => tasks[i].left > 0
  /\ idle' = IF Alive THEN idle + 1 ELSE idle
  /\ tasks' = [i \in Tasks |-> IF Timed(i) THEN [tasks[i] EXCEPT !.left = @ - 1] ELSE tasks[i]]
  /\ UNCHANGED <<job, session, client, owner, handle, faults>>

Owner ==
  \/ Renew \/ Create \/ CloseClient \/ GetState \/ WaitForStateChange \/ Poll \/ Answer
  \/ Keepalive \/ Launch \/ Destroy \/ Leave \/ Delete \/ Exit \/ Crash
  \/ \E i \in Tasks : LeaveBlock(i) \/ JoinOrKill(i)
Task(i) == Put(i) \/ PutReturns(i) \/ GetQuit(i) \/ GetEmpty(i)
Server == Progress \/ Revoke \/ LetGo \/ ExpireSession \/ Tick
Next == Owner \/ Server \/ \E i \in Tasks : Task(i)

\* Time passes, a call that has been started goes on, a task runs, and the server
\* powers jobs and lets them go; nobody has to call anything.
Spec ==
  /\ Init /\ [][Next]_vars
  /\ WF_vars(Tick) /\ WF_vars(Progress) /\ WF_vars(LetGo)
  /\ WF_vars(Poll) /\ WF_vars(Answer) /\ WF_vars(Delete)
  /\ \A i \in Tasks : WF_vars(Task(i)) /\ WF_vars(JoinOrKill(i))

(* What the owner may rely on.                                                   *)
\* In the block of a task that got through once, and whose requests do not fail,
\* the server always hears from it in time to keep the job.
Kept(i) ==
  /\ tasks[i].block = "inside" /\ tasks[i].heard /\ ~tasks[i].failed
  /\ ~tasks[i].closed /\ (session = "valid" \/ token)
KeptAlive == Alive /\ (\E i \in Tasks : Kept(i)) => idle < Interval

\* wait_until_ready ends: the job gets ready or is destroyed, at whatever moment.
WaitEnds == owner.wait.kind = "ready" ~> owner.wait.kind # "ready"

\* When the owner is done with a job its boards are given back, whatever became of
\* the request to destroy it, of its session and of the answer that it was created;
\* also when it is killed, if no task is left behind.
Running(i) == tasks[i].at \notin {"none", "dead"}
Done == owner.at \in {"gone", "ended"} \/ (owner.at = "killed" /\ \A i \in Tasks : ~Running(i))
JobReleased == Done ~> ~Alive
\* The same of an owner that is killed while a task runs.
KilledReleases == owner.at = "killed" ~> ~Alive

\* spalloc_job.py:204: destroying the job terminates the task.
DestroyEndsTask ==
  \A i \in Tasks : tasks[i].closed ~> (tasks[i].at = "dead" \/ owner.at = "killed")
===============================================================================
