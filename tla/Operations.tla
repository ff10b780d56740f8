------------------------------ MODULE Operations ------------------------------
(* What the operations of the transceiver send and what they make of the        *)
(* answers.  An operation is a record: its kind and its parameters.  It sends   *)
(* its requests in stages, each within one _collect_responses; got[k][i] is     *)
(* what the i-th request of stage k brought.  Requests gives the requests of a  *)
(* stage, After says what follows it, Result what the operation returns.        *)
EXTENDS MachineDetails

CONSTANTS
    UDP_MESSAGE_MAX_SIZE,  \* bytes of data of one message
    TableAddress           \* where a router table is written before it is loaded

Monitor(c) == <<c[1], c[2], 0>>
SmallerOf(a, b) == IF a < b THEN a ELSE b
Sorted(S) == SetToSortSeq(S, LAMBDA a, b : a[1] < b[1] \/ (a[1] = b[1] /\ a[2] < b[2]))

(* Memory: a read or write is cut into messages, each with its offset.          *)
ChunkSize(n, i) == SmallerOf(UDP_MESSAGE_MAX_SIZE, n - (i - 1) * UDP_MESSAGE_MAX_SIZE)
Chunks(n) == (n + UDP_MESSAGE_MAX_SIZE - 1) \div UDP_MESSAGE_MAX_SIZE

\* The core's own memory, or that of the chip over a link.
ReadOver(q, link, a, n) ==
  IF link = None THEN ReadMemory(q, a, n) ELSE ReadLink(q, link, a, n)
WriteOver(q, link, a, data) ==
  IF link = None THEN WriteMemory(q, a, data) ELSE WriteLink(q, link, a, data)

\* Mutant of ReadInChunks: every message reads from the start.
ReadInChunksAtBase(q, link, base, n) ==
  [i \in 1..Chunks(n) |-> ReadOver(q, link, base, ChunkSize(n, i))]

ReadInChunks(q, link, base, n) ==
  [i \in 1..Chunks(n) |-> ReadOver(q, link, base + (i - 1) * UDP_MESSAGE_MAX_SIZE, ChunkSize(n, i))]

\* Mutant of WriteInChunks: every chunk goes to the start.
WriteInChunksAtBase(q, link, base, data, from, n) ==
  [i \in 1..Chunks(n) |->
     LET offset == from + (i - 1) * UDP_MESSAGE_MAX_SIZE IN
     WriteOver(q, link, base, SubSeq(data, offset + 1, offset + ChunkSize(n, i)))]

WriteInChunks(q, link, base, data, from, n) ==
  [i \in 1..Chunks(n) |->
     LET offset == (i - 1) * UDP_MESSAGE_MAX_SIZE IN
     WriteOver(q, link, base + offset, SubSeq(data, from + offset + 1, from + offset + ChunkSize(n, i)))]
\* A reader returns a piece for each call, no longer than a message.
WriteFromReader(q, base, pieces) ==
  [i \in DOMAIN pieces |->
     WriteMemory(q, base + Len(FlattenSeq(SubSeq(pieces, 1, i - 1))), pieces[i])]

UserAddress(p, user) == Vcpu(p) + CPU_USER_START_ADDRESS + CPU_USER_OFFSET * user

\* Words are counted against blocks of bytes: more than a block is announced short.
FloodBlocks(n) == (((n + 3) \div 4) + UDP_MESSAGE_MAX_SIZE - 1) \div UDP_MESSAGE_MAX_SIZE
FloodStage(o, k) ==
  CASE k = 1 -> <<FloodFillStart(o.nnid, FloodBlocks(Len(o.data)))>>
    [] k = 2 -> [i \in 1..Chunks(Len(o.data)) |->
                   LET offset == (i - 1) * UDP_MESSAGE_MAX_SIZE IN
                   FloodFillData(o.nnid, i - 1, o.base + offset,
                     SubSeq(o.data, offset + 1, offset + ChunkSize(Len(o.data), i)))]
    [] k = 3 -> <<FloodFillEnd(o.nnid, 0, {}, FALSE)>>

(* Cores                                                                        *)
CPUInfo(q, data) ==
  [x |-> q[1][1], y |-> q[1][2], p |-> q[2], state |-> data[1], application_id |-> data[2],
   user |-> [u \in 0..CPU_MAX_USER |-> Word(data, u + 1)]]
IsDesired(o, info) ==
  CASE o.filter = "all"     -> TRUE
    [] o.filter = "include" -> info.state \in o.states
    [] o.filter = "exclude" -> info.state \notin o.states
CPUInfoRequests(cores) ==
  [i \in DOMAIN cores |->
     ReadMemory(Monitor(cores[i][1]), Vcpu(cores[i][2]), CPU_INFO_BYTES)]
CPUInfos(o, cores, replies) ==
  {info \in {CPUInfo(cores[i], replies[i]) : i \in DOMAIN cores} : IsDesired(o, info)}

CountRequests(app, state) ==
  LET xys == Sorted(Ethernets) IN
  [i \in DOMAIN xys |-> CountState(xys[i][1], xys[i][2], app, state)]
Count(replies) == FoldLeft(LAMBDA n, r : n + Word(r, 0), 0, replies)

(* Tables, the heap and diagnostics                                             *)
\* The end of a table is an entry of ones; the index of an entry is its first field.
RoutingData(routes) ==
  FlattenSeq([i \in DOMAIN routes |-> <<i - 1>> \o routes[i]]) \o <<255, 255, 255, 255>>
EntriesPerRead == UDP_MESSAGE_MAX_SIZE \div 4
RouteRequests(c, base) ==
  [i \in 1..(RouterSize \div EntriesPerRead) |->
     ReadMemory(Monitor(c), base + (i - 1) * EntriesPerRead * 4, UDP_MESSAGE_MAX_SIZE)]
\* 255 stands for the routes from 0xFF000000 up: an entry that is not in use.
RoutesIn(replies, app) ==
  LET data == FlattenSeq(replies)
      entry(n) == SubSeq(data, 4 * n - 3, 4 * n)
  IN  SelectSeq([n \in 1..RouterSize |-> entry(n)],
                LAMBDA e : e[2] < 255 /\ app \in {None, e[1]})

HeapElement(address, data) ==
  LET used == data[7] = 255 /\ data[8] = 255 IN
  [block_address |-> address, size |-> Word(data, 0) - address - 8, is_free |-> ~used,
   tag |-> IF used THEN data[5] ELSE None, app_id |-> IF used THEN data[6] ELSE None]

RouterRegisters == 3
RouterDiagnostics(control, errors, registers) ==
  [mon |-> control[2] % 32, wait_1 |-> control[3], wait_2 |-> control[4],
   error_status |-> Word(errors, 0),
   registers |-> [i \in 0 .. RouterRegisters - 1 |-> Word(registers, i)]]

\* A field of a filter that names no value names them all.
FilterFields == <<[at |-> 16, n |-> 9], [at |-> 14, n |-> 2], [at |-> 12, n |-> 2],
                  [at |-> 10, n |-> 2], [at |-> 4, n |-> 4], [at |-> 0, n |-> 4]>>
SetFlags(values, field) ==
  Shl(IF values = {} THEN 0 .. field.n - 1 ELSE values, field.at)
FilterWord(f) ==
  (IF f.interrupt THEN {30} ELSE {}) \cup (IF f.incoming THEN {} ELSE {8})
    \cup UNION {SetFlags(f.fields[i], FilterFields[i]) : i \in DOMAIN FilterFields}
FilterFrom(word) ==
  [interrupt |-> 30 \in word, incoming |-> 8 \notin word,
   fields |-> [i \in DOMAIN FilterFields |-> Part(word, FilterFields[i].at, FilterFields[i].n)]]
FilterAddress(position) ==
  ROUTER_REGISTER_BASE_ADDRESS + ROUTER_FILTER_CONTROLS_OFFSET + 4 * position

(* Tags: to one board, to all of them one after the other, or to none if the    *)
(* address is that of no board.                                                 *)
Boards(o) ==
  IF o.board = Nowhere THEN Sorted(Ethernets) ELSE SelectSeq(<<o.board>>, LAMBDA b : b \in Ethernets)
TagFrom(c, tag, d) ==
  LET r == IPTagGetResponse(d) IN
  IF r.is_reverse
  THEN [board |-> c, tag |-> tag, port |-> r.rx_port, chip |-> r.chip,
        cpu |-> r.cpu, sdp_port |-> r.sdp_port]
  ELSE [board |-> c, tag |-> tag, port |-> r.port, ip |-> r.ip, strip |-> r.strip_sdp]

SetIPTag(o, c) == <<IPTagSet(c[1], c[2], Bytes(o.ip, 4), o.port, o.tag, o.strip, FALSE)>>
SetReverseIPTag(o, c) ==
  <<ReverseIPTagSet(c[1], c[2], o.chip[1], o.chip[2], o.p, o.port, o.tag, o.sdp_port)>>
ClearIPTag(o, c) == <<IPTagClear(c[1], c[2], o.tag)>>
GetTags(o, k, got) ==
  LET c == Boards(o)[(k + 1) \div 2] IN
  IF k % 2 = 1 THEN <<IPTagGetInfo(c[1], c[2])>>
  ELSE [i \in 1..IPTagGetInfoResponse(got[k - 1][1]) |-> IPTagGet(c[1], c[2], i - 1)]
TagsIn(o, got) ==
  UNION {{TagFrom(Boards(o)[b], t - 1, got[2 * b][t]) :
            t \in {u \in DOMAIN got[2 * b] : IPTagGetResponse(got[2 * b][u]).in_use}} :
         b \in DOMAIN Boards(o)}

(* Waiting for cores: the states are counted one after the other; too low a     *)
(* count is followed by counts of the errors, and by looks at the single cores. *)
ErrorStates == <<RTE, WATCHDOG>>
ErrorLook == 100
FullCheck == 101
FinalCheck == 102
WaitStage(o, k) ==
  LET n == Len(o.targets) IN
  CASE k <= n                -> CountRequests(o.app, o.targets[k])
    [] k \in {n + 1, n + 2} -> CountRequests(o.app, ErrorStates[k - n])
    [] OTHER                 -> CPUInfoRequests(o.cores)

\* Stages that may follow; 0 is success, -1 an exception. A full check comes every
\* counts_between_full_check tries, here after any of them.
Success == 0
Raise == -1
\* Mutant of AgainIf: at the timeout the single cores are not looked at.
AgainIfUnlooked(missing, late) == IF ~missing \/ late THEN Success ELSE 1
AgainIf(missing, late) == IF ~missing THEN Success ELSE IF late THEN FinalCheck ELSE 1
WaitAfter(o, k, got, late) ==
  LET n == Len(o.targets)
      wanted == Len(o.cores)
      ready == FoldLeft(LAMBDA r, s : r + Count(got[s]), 0, [s \in 1..n |-> s])
      seen(filter, states) ==
        CPUInfos([filter |-> filter, states |-> states], o.cores, got[k])
      targets == {o.targets[i] : i \in 1..n}
  IN  CASE k < n \/ k = n + 1 -> {k + 1}
        [] k = n              -> {IF ready >= wanted THEN Success ELSE n + 1}
        [] k = n + 2          -> IF Count(got[n + 1]) + Count(got[n + 2]) > 0 THEN {ErrorLook}
                                 ELSE {FullCheck, AgainIf(TRUE, late)}
        [] k = ErrorLook      -> {IF seen("include", {RTE, WATCHDOG}) # {} THEN Raise
                                  ELSE AgainIf(TRUE, late)}
        [] k = FullCheck      -> {AgainIf(Cardinality(seen("include", targets)) < wanted, late)}
        [] k = FinalCheck     -> {IF seen("exclude", targets) # {} THEN Raise ELSE Success}

(* Starting an application that is loaded: when too few of its cores are ready   *)
(* they are looked at, and any that is not ready raises.                        *)
START == 3
ExecuteStage(o, k) ==
  CASE k = 1 -> CountRequests(o.app, READY)
    [] k = 2 -> CPUInfoRequests(o.cores)
    [] k = 3 -> <<SendSignal(o.app, START, 0)>>
ExecuteAfter(o, k, got) ==
  CASE k = 1 -> IF Count(got[1]) < Len(o.cores) THEN 2 ELSE 3
    [] k = 2 -> IF CPUInfos([filter |-> "exclude", states |-> {READY}], o.cores, got[2]) = {}
                THEN 3 ELSE Raise
    [] k = 3 -> Success

(* Discovery                                                                    *)
\* A chip that did not answer leaves a gap in the replies.
P2PChips(o, columns) == Sorted(P2PTableRoutes(columns, o.width, o.height))
MachineStage(o, k, got) ==
  IF k = 1
  THEN [x \in 1..o.width |-> ReadMemory(Monitor(o.chip),
          ROUTER_REGISTER_P2P_ADDRESS + ColumnOffset(x - 1), ColumnBytes(o.height))]
  ELSE LET chips == P2PChips(o, got[1]) IN
       [i \in 1 .. 2 * Len(chips) |->
          LET c == chips[(i + 1) \div 2] IN
          IF i % 2 = 1 THEN GetChipInfo(c[1], c[2])
          ELSE ReadMemory(Monitor(c), SYSTEM_VARIABLE_BASE_ADDRESS + P2V_Map, MapSize)]
ChipInfos(replies) ==
  LET answered == {i \in DOMAIN replies : i % 2 = 1} IN
  [c \in {replies[i].source : i \in answered} |->
     ChipSummaryInfo(replies[CHOOSE i \in answered : replies[i].source = c])]
PMaps(chips, replies) ==
  [c \in {chips[i] : i \in {j \in DOMAIN chips : 2 * j \in DOMAIN replies}} |->
     replies[2 * (CHOOSE i \in DOMAIN chips : chips[i] = c)]]

-----------------------------------------------------------------------------
(* The operations and processes that are one request.                           *)
ReadUser(o) == ReadMemory(Monitor(o.chip), UserAddress(o.p, o.user), 4)
WriteUser(o) == WriteMemory(Monitor(o.chip), UserAddress(o.p, o.user), Bytes(o.value, 4))
ClearMulticastRoutes(o) == RouterClear(o.chip[1], o.chip[2])
LoadFixedRoute(o) == FixedRouteInit(o.chip[1], o.chip[2], o.entry, o.app)
ReadFixedRoute(o) == FixedRouteRead(o.chip[1], o.chip[2], o.app)
MallocSDRAM(o) == SDRAMAlloc(o.chip[1], o.chip[2], o.app, o.size, o.tag)
DeAllocSDRAM(o) == SDRAMDeAllocPointer(o.chip[1], o.chip[2], o.base)
DeAllocAllAppSDRAM(o) == SDRAMDeAllocApp(o.chip[1], o.chip[2], o.app)
\* The id is handed over as an address.
FreeSDRAMByAppId(o) == SDRAMDeAllocPointer(o.chip[1], o.chip[2], o.app)
SetDiagnosticFilter(o) ==
  WriteMemory(Monitor(o.chip), FilterAddress(o.position), Bytes(Num(FilterWord(o.diagnostic)), 4))
GetDiagnosticFilter(o) == ReadMemory(Monitor(o.chip), FilterAddress(o.position), 4)
ClearDiagnosticCounters(o) ==
  WriteMemory(Monitor(o.chip), ROUTER_COUNTERS, [i \in 1..4 |-> 255])
Power(o) == SetPower(o.on, o.boards, 0)
\* The power is not asked for twice.
Tries(o, NRetries) == IF o.kind = "power" THEN 0 ELSE NRetries

\* The operations that raise before anything is sent.
CanBegin(o) ==
  CASE o.kind \in {"read_user", "write_user"} -> o.user \in 0..CPU_MAX_USER
    [] o.kind = "malloc"                      -> CanAlloc(o.tag)
    [] o.kind = "signal"                      -> o.app \in 0..255
    [] o.kind = "set_filter"                  -> o.position <= NO_ROUTER_DIAGNOSTIC_FILTERS
    [] o.kind = "set_ip_tag"                  -> Boards(o) # <<>>
    [] o.kind = "set_reverse_ip_tag"          ->
         o.port \notin {SCP_SCAMP_PORT, UDP_BOOT_CONNECTION_DEFAULT_PORT} /\ Boards(o) # <<>>
    [] OTHER                                  -> TRUE

SingleRequest(o) ==
  CASE o.kind = "read_user"        -> ReadUser(o)
    [] o.kind = "write_user"       -> WriteUser(o)
    [] o.kind = "clear_routes"     -> ClearMulticastRoutes(o)
    [] o.kind = "load_fixed_route" -> LoadFixedRoute(o)
    [] o.kind = "read_fixed_route" -> ReadFixedRoute(o)
    [] o.kind = "malloc"           -> MallocSDRAM(o)
    [] o.kind = "free"             -> DeAllocSDRAM(o)
    [] o.kind = "free_all"         -> DeAllocAllAppSDRAM(o)
    [] o.kind = "free_by_app_id"   -> FreeSDRAMByAppId(o)
    [] o.kind = "signal"           -> SendSignal(o.app, o.signal, o.type)
    [] o.kind = "sync"             -> DoSync(o.on)
    [] o.kind = "set_filter"       -> SetDiagnosticFilter(o)
    [] o.kind = "get_filter"       -> GetDiagnosticFilter(o)
    [] o.kind = "clear_counters"   -> ClearDiagnosticCounters(o)
    [] o.kind = "version"          -> GetVersion(o.chip[1], o.chip[2], 0)
    [] o.kind = "set_leds"         -> SetLED(o.chip[1], o.chip[2], 0, o.states)
    [] o.kind = "power"            -> Power(o)
    [] o.kind = "bmp_version"      -> BMPGetVersion(o.board)
    [] o.kind = "read_fpga"        -> ReadFPGARegister(o.fpga, o.register, o.board)
    [] o.kind = "write_fpga"       -> WriteFPGARegister(o.fpga, o.register, o.value, o.board)
    [] o.kind = "set_led"          -> BMPSetLed(o.leds, o.action, o.boards)
    [] o.kind = "read_adc"         -> ReadADC(o.board)

ViaBMP(o) == o.kind \in {"power", "bmp_version", "read_fpga", "write_fpga", "set_led", "read_adc"}

(* The operations that are several.                                             *)
Read(o) == ReadInChunks(o.core, None, o.base, o.size)
ReadNeighbour(o) == ReadInChunks(o.core, o.link, o.base, o.size)
Write(o) == WriteInChunks(o.core, None, o.base, o.data, o.offset, o.n)
WriteNeighbour(o) == WriteInChunks(o.core, o.link, o.base, o.data, o.offset, o.n)
WriteReader(o) == WriteFromReader(o.core, o.base, o.pieces)
Run(o) ==
  [i \in DOMAIN o.subsets |-> ApplicationRun(o.app, o.subsets[i].chip[1],
     o.subsets[i].chip[2], o.subsets[i].cores, o.wait)]
\* Nothing is sent to a machine that is switched off.
StopApplication(o) == IF o.off THEN <<>> ELSE <<AppStop(o.app)>>
GetHeap(o, k, got) ==
  <<ReadMemory(Monitor(o.chip),
      CASE k = 1 -> SYSTEM_VARIABLE_BASE_ADDRESS + HeapPointer
        [] k = 2 -> Word(got[1][1], 0)
        [] k = 3 -> Word(got[2][1], 1)
        [] OTHER -> Word(got[k - 1][1], 0), IF k = 1 THEN 4 ELSE 8)>>
\* Of the elements read, the last is the end of the heap.
HeapIn(got) ==
  [i \in 1 .. Cardinality(DOMAIN got) - 3 |->
     HeapElement(Word(got[i + 1][1], IF i = 1 THEN 1 ELSE 0), got[i + 2][1])]
GetMulticastRoutes(o, k, got) ==
  IF k = 1 THEN <<ReadMemory(Monitor(o.chip), SYSTEM_VARIABLE_BASE_ADDRESS + TableCopyPointer, 4)>>
  ELSE RouteRequests(o.chip, Word(got[1][1], 0))
LoadRoutes(o, k, got) ==
  CASE k = 1 -> WriteInChunks(Monitor(o.chip), None, TableAddress, RoutingData(o.routes), 0, 4 * Len(o.routes) + 4)
    [] k = 2 -> <<RouterAlloc(o.chip[1], o.chip[2], o.app, Len(o.routes))>>
    [] k = 3 -> <<RouterInit(o.chip[1], o.chip[2], Len(o.routes), TableAddress,
                             Word(got[2][1], 0), o.app)>>
CanLoad(o, got) ==
  LET base == Word(got[2][1], 0) IN base # 0 /\ CanInit(Len(o.routes), TableAddress, base)
GetRouterDiagnostics(o) ==
  LET register(offset, n) == ReadMemory(Monitor(o.chip), ROUTER_REGISTER_BASE_ADDRESS + offset, n)
  IN  <<register(0, 4), register(20, 4), register(40, 4 * RouterRegisters)>>
SetWatchDog(o, k) ==
  <<WriteMemory(Monitor(Sorted(Chips)[k]), SYSTEM_VARIABLE_BASE_ADDRESS + Watchdog, <<o.value>>)>>

-----------------------------------------------------------------------------
\* The requests of stage k of an operation.
Requests(o, k, got) ==
  CASE o.kind = "read"               -> Read(o)
    [] o.kind = "read_link"          -> ReadNeighbour(o)
    [] o.kind = "write"              -> Write(o)
    [] o.kind = "write_link"         -> WriteNeighbour(o)
    [] o.kind = "write_reader"       -> WriteReader(o)
    [] o.kind = "flood"              -> FloodStage(o, k)
    [] o.kind = "cpu_infos"          -> CPUInfoRequests(o.cores)
    [] o.kind = "count"              -> CountRequests(o.app, o.state)
    [] o.kind = "run"                -> Run(o)
    [] o.kind = "stop"               -> StopApplication(o)
    [] o.kind = "heap"               -> GetHeap(o, k, got)
    [] o.kind = "get_routes"         -> GetMulticastRoutes(o, k, got)
    [] o.kind = "load_routes"        -> LoadRoutes(o, k, got)
    [] o.kind = "set_ip_tag"         -> SetIPTag(o, Boards(o)[k])
    [] o.kind = "set_reverse_ip_tag" -> SetReverseIPTag(o, Boards(o)[k])
    [] o.kind = "clear_ip_tag"       -> ClearIPTag(o, Boards(o)[k])
    [] o.kind = "get_tags"           -> GetTags(o, k, got)
    [] o.kind = "diagnostics"        -> GetRouterDiagnostics(o)
    [] o.kind = "set_watch_dog"      -> SetWatchDog(o, k)
    [] o.kind = "wait"               -> WaitStage(o, k)
    [] o.kind = "execute"            -> ExecuteStage(o, k)
    [] o.kind = "machine"            -> MachineStage(o, k, got)
    [] OTHER                         -> <<SingleRequest(o)>>

\* The stages of the operations that have a fixed number of them.
Stages(o) ==
  CASE o.kind \in {"flood", "load_routes"} -> 3
    [] o.kind \in {"get_routes", "machine"} -> 2
    [] o.kind \in {"set_ip_tag", "set_reverse_ip_tag", "clear_ip_tag"} -> Len(Boards(o))
    [] o.kind = "get_tags" -> 2 * Len(Boards(o))
    [] o.kind = "set_watch_dog" -> Cardinality(Chips)
    [] OTHER -> 1

After(o, k, got, late) ==
  CASE o.kind = "wait" -> WaitAfter(o, k, got, late)
    [] o.kind = "execute" -> {ExecuteAfter(o, k, got)}
    [] o.kind = "heap" ->
         {IF k = 1 \/ Word(got[k][1], IF k = 2 THEN 1 ELSE 0) # 0 THEN k + 1 ELSE Success}
    [] o.kind = "load_routes" /\ k = 2 -> {IF CanLoad(o, got) THEN 3 ELSE Raise}
    [] o.kind = "machine" /\ k = 2 ->
         LET chips == P2PChips(o, got[1]) IN
         {IF CanMakeMachine(ChipInfos(got[2]), PMaps(chips, got[2]), o.down) THEN Success ELSE Raise}
    [] OTHER -> {IF k = Stages(o) THEN Success ELSE k + 1}

\* Whether the reply to a command is taken: an error, no memory or nothing freed raises.
Acceptable(o, command, rc, data) ==
  /\ IF command = "COUNT" THEN CountStateResponse(rc) ELSE CheckOKResponse(rc)
  /\ o.kind = "malloc" => AllocResponse(data)
  /\ o.kind = "free_all" => DeAllocResponse(data)

\* What the operation returns.
Result(o, got) ==
  CASE o.kind \in {"read", "read_link"}             -> FlattenSeq(got[1])
    [] o.kind \in {"read_user", "malloc", "free_all"} -> Word(got[1][1], 0)
    [] o.kind = "read_fpga"        -> FPGARegisterResponse(got[1][1])
    [] o.kind = "cpu_infos"        -> CPUInfos(o, o.cores, got[1])
    [] o.kind = "count"            -> Count(got[1])
    [] o.kind = "heap"             -> HeapIn(got)
    [] o.kind = "get_routes"       -> RoutesIn(got[2], o.app)
    [] o.kind = "read_fixed_route" -> FixedRouteResponse(got[1][1])
    [] o.kind = "get_tags"         -> TagsIn(o, got)
    [] o.kind = "get_filter"       -> FilterFrom(Bits(Word(got[1][1], 0)))
    [] o.kind = "diagnostics"      -> RouterDiagnostics(got[1][1], got[1][2], got[1][3])
    [] o.kind \in {"version", "bmp_version", "read_adc"} -> got[1][1]
    [] o.kind = "machine" ->
         MachineFrom(ChipInfos(got[2]), PMaps(P2PChips(o, got[1]), got[2]), o.down)
    [] OTHER -> <<>>
=============================================================================
