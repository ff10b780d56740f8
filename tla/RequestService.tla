---------------------------- MODULE RequestService ----------------------------
(***************************************************************************)
(* What a caller of an SCP request pipeline may rely on, whatever the      *)
(* network does: requests are issued in order, no more than Window of them *)
(* wait at a time, each gets one final outcome, success is reported only   *)
(* for a command the board has carried out, and the caller is told that    *)
(* everything is finished only when nothing waits any more.                *)
(* SCPPipeline implements this module.                                     *)
(***************************************************************************)
EXTENDS Integers, FiniteSets

CONSTANTS
  NRequests,   \* how many requests the caller has
  Window,      \* how many may wait at a time
  Unlimited    \* the value of Window that sets no limit

VARIABLES
  status,      \* what has become of each request
  executed,    \* the requests the board has carried out at least once
  finished     \* "no", "done", or "abandoned" when an exception ended the work

vars == <<status, executed, finished>>

Requests == 1 .. NRequests
Final == {"ok", "excused", "failed", "timedout"}
Waiting == {r \in Requests : status[r] = "pending"}

Init ==
  /\ status = [r \in Requests |-> "unsent"]
  /\ executed = {}
  /\ finished = "no"

Issue(r) ==
  /\ finished = "no"
  /\ status[r] = "unsent"
  /\ \A q \in 1 .. r - 1 : status[q] # "unsent"
  /\ Window # Unlimited => Cardinality(Waiting) < Window
  /\ status' = [status EXCEPT ![r] = "pending"]
  /\ finished' \in {"no", "abandoned"}
  /\ UNCHANGED executed

Execute(r) ==
  /\ status[r] # "unsent"
  /\ executed' = executed \union {r}
  /\ UNCHANGED <<status, finished>>

Succeed(r) ==
  /\ finished = "no" /\ status[r] = "pending"
  /\ r \in executed
  /\ status' = [status EXCEPT ![r] = "ok"]
  /\ UNCHANGED <<executed, finished>>

\* The callback got a reply that carries a code the caller asked to accept.
Excuse(r) ==
  /\ finished = "no" /\ status[r] = "pending"
  /\ status' = [status EXCEPT ![r] = "excused"]
  /\ UNCHANGED <<executed, finished>>

\* Several requests can fail at once: a silence ends every exhausted one.
Fail ==
  /\ finished = "no"
  /\ \E S \in (SUBSET Waiting) \ {{}} :
       \E how \in [S -> {"failed", "timedout"}] :
         status' = [r \in Requests |-> IF r \in S THEN how[r] ELSE status[r]]
  /\ UNCHANGED <<executed, finished>>

Finish ==
  /\ finished = "no"
  /\ \A r \in Requests : status[r] \in Final
  /\ finished' = "done"
  /\ UNCHANGED <<status, executed>>

Abandon ==
  /\ finished = "no"
  /\ finished' = "abandoned"
  /\ UNCHANGED <<status, executed>>

Next ==
  \/ \E r \in Requests : Issue(r) \/ Execute(r) \/ Succeed(r) \/ Excuse(r)
  \/ Fail
  \/ Finish
  \/ Abandon

Spec == Init /\ [][Next]_vars
===============================================================================
