---------------------------- MODULE HostOperations ----------------------------
(* An operation of the transceiver from its call to its return: the processes   *)
(* (processes/abstract_multi_connection_process.py) send the requests of a      *)
(* stage over the connection of each, go on when a pipeline is full only after  *)
(* an answer of that pipeline, then finish the pipelines one by one, and raise  *)
(* if any request failed.  Requests reach the machine in any order; replies are *)
(* lost, after which the request is carried out again, and the machine refuses  *)
(* requests. What a pipeline does inside is SCPPipeline.                        *)
EXTENDS Operations

CONSTANTS
    Ops,         \* the operations that may be called, a sequence
    Machine,     \* the state of the machine at the call
    HasMachine,  \* is the machine known to SpiNNManDataView?
    Window,      \* n_channels of a pipeline
    NRetries,
    MaxFaults,   \* bound: lost and refused requests
    Progress,    \* pairs of states a core of an application may go through
    MaxPolls     \* bound: times the loop of a wait runs before its timeout

VARIABLES
    machine,  \* the state of the machine
    op,       \* the operation
    phase,    \* "called", "sending", "finishing", "done" or "raised"
    stage,
    got,      \* what the stages before brought
    todo,     \* the requests of this stage that are not sent yet
    flights,  \* the requests sent in this stage, in order
    errors,   \* _exceptions: the requests that failed
    polls,
    faults

vars == <<machine, op, phase, stage, got, todo, flights, errors, polls, faults>>

Init ==
  /\ machine = Machine
  /\ \E i \in DOMAIN Ops : op = Ops[i]
  /\ phase = "called" /\ stage = 1
  /\ got = <<>> /\ todo = <<>> /\ flights = <<>> /\ errors = {}
  /\ polls = 0 /\ faults = 0

\* The kinds of the operations of a run name what it is about.
Waiting == op.kind = "wait"

-----------------------------------------------------------------------------
(* Connections                                                                  *)

\* MostDirectConnectionSelector; get_nearest_ethernet of no chip is (0, 0).
NextConnection(r) ==
  LET c == <<r.header.destination_chip_x, r.header.destination_chip_y>> IN
  IF c \in Ethernets THEN c
  ELSE IF ~HasMachine \/ Cardinality(Ethernets) = 1 \/ c \notin Chips THEN <<0, 0>>
  ELSE BoardOf[c]

\* FixedConnectionSelector for the BMP.
ConnectionOf(r) == IF ViaBMP(op) THEN <<255, 255>> ELSE NextConnection(r)
Open(i) == flights[i].state \notin {"settled", "failed"}
InFlight(conn) == {i \in DOMAIN flights : Open(i) /\ flights[i].conn = conn}
Full(conn) == Cardinality(InFlight(conn)) >= Window

\* Mutant of WaitingOn: only the pipeline of the last request is finished.
WaitingOnLast(conn) ==
  \/ /\ phase = "sending" /\ todo # <<>>
     /\ conn = ConnectionOf(Head(todo)) /\ Full(conn)
  \/ phase = "finishing" /\ conn = flights[Len(flights)].conn

\* The pipeline the process waits on: the full one that the next request goes to,
\* or the first in the order the pipelines were made that has requests open.
WaitingOn(conn) ==
  \/ /\ phase = "sending" /\ todo # <<>>
     /\ conn = ConnectionOf(Head(todo)) /\ Full(conn)
  \/ /\ phase = "finishing"
     /\ \E i \in DOMAIN flights : Open(i) /\ flights[i].conn = conn
     /\ \A i \in DOMAIN flights : Open(i) =>
          \E j \in DOMAIN flights : flights[j].conn = conn /\
            \A k \in DOMAIN flights : flights[k].conn = flights[i].conn => j <= k

-----------------------------------------------------------------------------
(* The caller's thread                                                          *)

Begin ==
  /\ phase = "called"
  /\ IF CanBegin(op) THEN phase' = "sending" /\ todo' = Requests(op, stage, got)
     ELSE phase' = "raised" /\ UNCHANGED todo
  /\ UNCHANGED <<machine, op, stage, got, flights, errors, polls, faults>>

\* _send_request; a word that does not fit raises out of the stage.
Send ==
  /\ phase = "sending" /\ todo # <<>>
  /\ LET r == Head(todo)
         conn == ConnectionOf(r)
     IN  /\ ~Full(conn)
         /\ IF CanEncode(r)
            THEN /\ flights' = Append(flights,
                       [conn |-> conn, state |-> "sent", tries |-> Tries(op, NRetries), rc |-> "",
                        data |-> <<>>, datagram |-> Bytestring(r, conn[1], conn[2])])
                 /\ todo' = Tail(todo) /\ UNCHANGED phase
            ELSE phase' = "raised" /\ UNCHANGED <<todo, flights>>
  /\ UNCHANGED <<machine, op, stage, got, errors, polls, faults>>

Sent ==
  /\ phase = "sending" /\ todo = <<>>
  /\ phase' = "finishing"
  /\ UNCHANGED <<machine, op, stage, got, todo, flights, errors, polls, faults>>

Settled(i) ==
  /\ flights' = [flights EXCEPT ![i].state = "settled"]
  /\ UNCHANGED <<machine, op, phase, stage, got, todo, errors, polls, faults>>
Failed(i) ==
  /\ flights' = [flights EXCEPT ![i].state = "failed", ![i].data = <<>>]
  /\ errors' = errors \cup {<<stage, i>>}
  /\ UNCHANGED <<machine, op, phase, stage, got, todo, polls, faults>>

\* A reply with a code of RETRY_CODES is not taken while the request can be resent;
\* only for a count is it no failure after that (_non_fail_retry_codes).
Retried(i) == flights[i].state = "answered" /\ flights[i].rc = "RC_P2P_NOREPLY" /\ flights[i].tries > 0

\* The callback of a request, or its error callback.
Receive(i) ==
  /\ flights[i].state = "answered" /\ WaitingOn(flights[i].conn)
  /\ ~Retried(i)
  /\ IF Acceptable(op, flights[i].datagram.command, flights[i].rc, flights[i].data)
     THEN Settled(i) ELSE Failed(i)

\* A reply that does not come: the request is sent again, or given up.
Resend(i) ==
  /\ (flights[i].state = "lost" /\ flights[i].tries > 0) \/ Retried(i)
  /\ WaitingOn(flights[i].conn)
  /\ flights' = [flights EXCEPT ![i].state = "sent", ![i].tries = @ - 1]
  /\ UNCHANGED <<machine, op, phase, stage, got, todo, errors, polls, faults>>
GiveUp(i) ==
  /\ flights[i].state = "lost" /\ WaitingOn(flights[i].conn) /\ flights[i].tries = 0
  /\ Failed(i)

\* Discovery suppresses the errors of the stage that asks the chips.
Suppressed == op.kind = "machine" /\ stage = 2

\* A request that failed leaves a gap.
Brought ==
  [k \in {stage} |-> [i \in {j \in DOMAIN flights : flights[j].state = "settled"} |->
                       flights[i].data]] @@ got
\* The code up to the next stage, if there is one; a poll forgets the last.
Continue ==
  \E now \in {Brought} : \E next \in After(op, stage, now, polls >= MaxPolls) :
    /\ phase' = CASE next = Success -> "done" [] next = Raise -> "raised" [] OTHER -> "sending"
    /\ stage' = IF next > 0 THEN next ELSE stage
    /\ got' = IF Waiting /\ next = 1 THEN <<>> ELSE now
    /\ todo' = IF next > 0 THEN Requests(op, next, got') ELSE <<>>
    /\ polls' = IF Waiting /\ next = 1 /\ polls < MaxPolls THEN polls + 1 ELSE polls

\* The end of _collect_responses, with check_for_error.
EndStage ==
  /\ phase = "finishing" /\ \A i \in DOMAIN flights : ~Open(i)
  /\ flights' = <<>>
  /\ IF errors # {} /\ ~Suppressed
     THEN phase' = "raised" /\ UNCHANGED <<stage, got, todo, polls>>
     ELSE Continue
  /\ UNCHANGED <<machine, op, errors, faults>>

-----------------------------------------------------------------------------
(* The machine and the network                                                  *)

Reply(i, replies) == \E reply \in replies :
  /\ machine' = reply.machine
  /\ flights' = [flights EXCEPT ![i].state = "answered", ![i].rc = reply.rc, ![i].data = reply.data]
Carry(i) ==
  /\ flights[i].state = "sent"
  /\ LET d == flights[i].datagram IN
     \E words \in {Words(d)} :
       Reply(i, {Execute(machine, IF ViaBMP(op) THEN "bmp" ELSE "scamp", d, words)})
  /\ UNCHANGED <<op, phase, stage, got, todo, errors, polls, faults>>
Refuse(i) ==
  /\ flights[i].state = "sent" /\ faults < MaxFaults
  /\ Reply(i, {Refused(machine)})
  /\ faults' = faults + 1
  /\ UNCHANGED <<op, phase, stage, got, todo, errors, polls>>
\* Chips of the board do not answer the count, which is then of the others, here of none.
NoReply(i) ==
  /\ flights[i].state = "sent" /\ faults < MaxFaults /\ flights[i].datagram.command = "COUNT"
  /\ Reply(i, {[Ok(machine, Bytes(0, 4)) EXCEPT !.rc = "RC_P2P_NOREPLY"]})
  /\ faults' = faults + 1
  /\ UNCHANGED <<op, phase, stage, got, todo, errors, polls>>
\* The request or its reply is lost: it was carried out or it was not.
Lose(i) ==
  /\ flights[i].state \in {"sent", "answered"} /\ faults < MaxFaults
  /\ flights' = [flights EXCEPT ![i].state = "lost"]
  /\ faults' = faults + 1
  /\ UNCHANGED <<machine, op, phase, stage, got, todo, errors, polls>>

\* While the host waits for cores they go on.
CoreStep(q) ==
  /\ phase \in {"sending", "finishing"}
  /\ LET s == StateOf(machine, q[1], q[2]) IN
     \E t \in Progress : s = t[1] /\ machine' = SetCores(machine, {q}, [u \in CPUState |-> t[2]], op.app)
  /\ UNCHANGED <<op, phase, stage, got, todo, flights, errors, polls, faults>>

Caller ==
  \/ Begin \/ Send \/ Sent \/ EndStage
  \/ \E i \in DOMAIN flights : Receive(i) \/ Resend(i) \/ GiveUp(i)
Network == \E i \in DOMAIN flights : Carry(i)
Next ==
  \/ Caller \/ Network
  \/ \E i \in DOMAIN flights : Refuse(i) \/ NoReply(i) \/ Lose(i)
  \/ Waiting /\ \E q \in Range(op.cores) : CoreStep(q)

Spec == Init /\ [][Next]_vars
\* The caller's thread runs, and the machine takes what reaches it.
FairSpec == Spec /\ WF_vars(Caller) /\ WF_vars(Network)

-----------------------------------------------------------------------------
(* Properties                                                                   *)

Returned == phase = "done"
XY(core) == <<core[1], core[2]>>
UsedTags(m, boards) ==
  {TagFrom(k[1], k[2], m.tags[k]) : k \in {j \in DOMAIN m.tags : j[1] \in boards /\ 15 \in m.tags[j].flags}}

\* What an operation that asks should find in machine m.
Truth(o, m) ==
  CASE o.kind = "read" -> Load(m, XY(o.core), o.base, o.size)
    [] o.kind = "read_link" -> Load(m, OverLink[XY(o.core), o.link], o.base, o.size)
    [] o.kind = "read_user" -> Word(Load(m, o.chip, UserAddress(o.p, o.user), 4), 0)
    [] o.kind = "cpu_infos" ->
         {CPUInfo(q, Load(m, q[1], Vcpu(q[2]), CPU_INFO_BYTES)) : q \in
            {r \in Range(o.cores) : (o.filter = "all") \/
               ((StateOf(m, r[1], r[2]) \in o.states) = (o.filter = "include"))}}
    [] o.kind = "count" ->
         Cardinality({q \in Chips \X Cores : StateOf(m, q[1], q[2]) = o.state
                                           /\ AppOf(m, q[1], q[2]) = o.app})
    [] o.kind = "heap" -> m.heap
    [] o.kind = "get_routes" ->
         SelectSeq([n \in 1..RouterSize |-> Load(m, o.chip, TableCopy + 4 * n - 4, 4)],
                   LAMBDA e : e[2] # 255 /\ (o.app = None \/ e[1] = o.app))
    [] o.kind = "read_fixed_route" -> m.fixed[o.chip]
    [] o.kind = "get_tags" -> UsedTags(m, Range(Boards(o)))
    [] o.kind = "diagnostics" -> m.diagnostics
    [] o.kind = "get_filter" -> m.filter
    [] o.kind = "version" -> [p |-> 0, x |-> o.chip[1], y |-> o.chip[2], name |-> "SC&MP"]
    [] o.kind = "bmp_version" -> [p |-> o.board, name |-> "BMP"]
    [] o.kind = "read_fpga" -> m.fpga[o.board, o.fpga, o.register]
    [] o.kind = "read_adc" -> m.adc[o.board]
    [] o.kind = "free_all" ->
         Cardinality({b \in Machine.blocks : b.app = o.app /\ b.chip = o.chip})
    [] o.kind = "malloc" ->
         (CHOOSE b \in m.blocks \ Machine.blocks : b.chip = o.chip /\ b.app = o.app).base

\* An operation that returns, returns what the machine holds: no byte of a read in
\* many messages is missing or out of place, no reply is read as another field, none
\* of many cores, entries, tags or boards is left out, although replies are lost and
\* come in any order over several connections (the processes and their responses).
\* Only a count may be too low, when a board has kept answering for a part of itself.
ResultIsTrue ==
  Returned /\ op.kind \in {"read", "read_link", "read_user", "cpu_infos", "count", "heap",
      "get_routes", "read_fixed_route", "get_tags", "diagnostics", "get_filter", "version",
      "bmp_version", "read_fpga", "read_adc", "free_all", "malloc"}
    => IF op.kind = "count" /\ faults > NRetries THEN Result(op, got) <= Truth(op, machine)
       ELSE Result(op, got) = Truth(op, machine)

Moved(m, cores, s, app) == SetCores(m, cores, [t \in CPUState |-> s], app)
InState(m, app, s) == {q \in CoresOf(m, app) : StateOf(m, q[1], q[2]) = s}

\* The machine after an operation that changes it, and only that.
Asked(o, m) ==
  CASE o.kind = "write" -> Written(m, {XY(o.core)}, o.base, SubSeq(o.data, o.offset + 1, o.offset + o.n))
    [] o.kind = "write_link" -> Written(m, {OverLink[XY(o.core), o.link]}, o.base,
                                        SubSeq(o.data, o.offset + 1, o.offset + o.n))
    [] o.kind = "write_reader" -> Written(m, {XY(o.core)}, o.base, FlattenSeq(o.pieces))
    [] o.kind = "flood" -> Written(m, Chips, o.base, o.data)
    [] o.kind = "write_user" -> Written(m, {o.chip}, UserAddress(o.p, o.user), Bytes(o.value, 4))
    [] o.kind = "set_watch_dog" ->
         Written(m, Chips, SYSTEM_VARIABLE_BASE_ADDRESS + Watchdog, <<o.value>>)
    [] o.kind = "set_filter" ->
         Written(m, {o.chip}, FilterAddress(o.position), Bytes(o.word, 4))
    [] o.kind = "run" ->
         Moved(m, UNION {{o.subsets[i].chip} \X o.subsets[i].cores : i \in DOMAIN o.subsets},
               IF o.wait THEN READY ELSE RUNNING, o.app)
    [] o.kind = "stop" -> IF o.off THEN m ELSE Moved(m, CoresOf(m, o.app), IDLE, 0)
    [] o.kind = "execute" -> Moved(m, InState(m, o.app, READY), RUNNING, o.app)
    [] o.kind = "clear_counters" -> Written(m, {o.chip}, ROUTER_COUNTERS, [i \in 1..4 |-> 255])
    [] o.kind = "signal" /\ o.signal = 3 -> Moved(m, InState(m, o.app, READY), RUNNING, o.app)
    [] o.kind = "signal" /\ o.signal = 4 -> Moved(m, InState(m, o.app, SYNC0), RUNNING, o.app)
    [] o.kind = "sync" -> [m EXCEPT !.sync = o.on]
    [] o.kind = "load_routes" ->
         Written(Written(m, {o.chip}, TableAddress,
                         FlattenSeq([i \in DOMAIN o.routes |-> <<i - 1>> \o o.routes[i]])
                           \o <<255, 255, 255, 255>>),
                 {o.chip}, TableCopy + 4 * Word(got[2][1], 0),
                 FlattenSeq([i \in DOMAIN o.routes |-> <<o.app>> \o o.routes[i]]))
    [] o.kind = "clear_routes" ->
         [Written(m, {o.chip}, TableCopy, [i \in 1 .. 4 * RouterSize |-> 255])
            EXCEPT !.owner = [k \in DOMAIN @ |-> IF k[1] = o.chip THEN 0 ELSE @[k]]]
    [] o.kind = "load_fixed_route" -> [m EXCEPT !.fixed[o.chip] = o.entry]
    [] o.kind = "malloc" -> [m EXCEPT !.blocks = machine.blocks]
    [] o.kind = "free" -> [m EXCEPT !.blocks = {b \in @ : ~(b.chip = o.chip /\ b.base = o.base)}]
    [] o.kind \in {"free_all", "free_by_app_id"} ->
         [m EXCEPT !.blocks = {b \in @ : ~(b.chip = o.chip /\ b.app = o.app)}]
    [] o.kind \in {"set_ip_tag", "set_reverse_ip_tag", "clear_ip_tag"} ->
         [m EXCEPT !.tags = [k \in DOMAIN @ |->
            IF k[1] \in Range(Boards(o)) /\ k[2] = o.tag THEN o.wanted ELSE @[k]]]
    [] o.kind = "power" -> [m EXCEPT !.power = IF o.on THEN @ \cup o.boards ELSE @ \ o.boards]
    [] o.kind = "write_fpga" -> [m EXCEPT !.fpga[o.board, o.fpga, o.register] = o.value]
    [] o.kind = "set_leds" ->
         [m EXCEPT !.leds[o.chip] = {l \in 0..3 : IF l \in DOMAIN o.states THEN o.states[l] = 1
                                                  ELSE l \in @}]
    [] o.kind = "set_led" ->
         [m EXCEPT !.bmp_leds = [b \in DOMAIN @ |->
            IF b \in o.boards THEN (IF o.action = 3 THEN @[b] \cup o.leds ELSE @[b] \ o.leds)
            ELSE @[b]]]
    [] OTHER -> m

\* An operation that returns has changed what it was asked to change and nothing
\* else, though requests are carried out twice and in any order: no chunk is lost or
\* laid over another, a flood and a table are written before they are used, no core,
\* tag, board or link but those asked for is touched (the processes and commands).
EffectIsExact ==
  Returned /\ ~Waiting =>
    LET wanted == Asked(op, Machine) IN
    /\ \A k \in DOMAIN machine.mem \cup DOMAIN wanted.mem :
         Load(machine, k[1], k[2], 1) = Load(wanted, k[1], k[2], 1)
    /\ \A f \in DOMAIN machine \ {"mem", "flood", "owner"} : machine[f] = wanted[f]

\* A request for memory with a tag allocates once, however often it is carried out
\* (FLAG_RETRY_TAG of sdram_alloc.py), and never takes a block that is in use.
AllocOnce ==
  op.kind = "malloc" /\ op.tag # 0 =>
    /\ Cardinality(machine.blocks) <= Cardinality(Machine.blocks) + 1
    /\ Machine.blocks \subseteq machine.blocks

\* Discovery returns exactly the chips of the table that answered and are not
\* ignored, with links that are there at both ends and cores that were idle, even
\* when some chips do not answer; an ignore whose board did not answer has no effect
\* (get_machine_details).
MachineIsSound ==
  Returned /\ op.kind = "machine" =>
    LET result == Result(op, got)
        chips == P2PChips(op, got[1])
        heard == {c \in Chips : \A j \in DOMAIN chips : chips[j] = c => <<2, 2 * j - 1>> \notin errors}
        infos == [c \in heard |-> Machine.info_read[c]]
        ignored == {LocalToGlobal(infos, op.down.chips[i]) : i \in DOMAIN op.down.chips}
    IN  /\ DOMAIN result = heard \ ignored
        /\ \A c \in DOMAIN result : \A l \in result[c].links :
             /\ OverLink[c, l] \in DOMAIN result
             /\ Inverse6(l) \in result[OverLink[c, l]].links
        /\ \A c \in DOMAIN result :
             result[c].cores = {p \in Cores : (p = 0 \/ Machine.info[c].states[p + 1] = IDLE)
                                               /\ <<c, p>> \notin op.unwanted}

\* Waiting for cores returns only when every core asked for is in one of the states
\* (transceiver.py, wait_for_cores_to_be_in_state: "success is when each application
\* is in one of these states").
WaitedCoresAreReady ==
  Returned /\ Waiting =>
    \A q \in Range(op.cores) : StateOf(machine, q[1], q[2]) \in Range(op.targets)

\* Every operation returns or raises: no pipeline is left waiting, no stage repeated
\* for ever, whatever is lost or refused (_collect_responses).
OperationEnds == <>(phase \in {"done", "raised"})
=============================================================================
