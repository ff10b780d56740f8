------------------------------ MODULE SCPMessages ------------------------------
(* The SCP commands: how a request packs its parameters into three words, and  *)
(* what a reply means to the host.  Parameters are numbers; a set of cores or  *)
(* boards is a set, which is also its mask (1 << p for each p).                 *)
EXTENDS SDPMessages

AbstractSCPRequest(x, y, cpu, command, a1, a2, a3, data) ==
  [header |-> SDPHeader(REPLY_EXPECTED, 0, cpu, x, y),
   command |-> command, arg |-> <<a1, a2, a3>>, data |-> data]

\* get_scp_data and bytestring: the datagram, or nothing if a word is too wide.
CanEncode(r) == \A i \in 1..3 : Fits(r.arg[i])
Bytestring(r, x, y) ==
  [sdp |-> HeaderBytes(UpdateForSend(r.header, x, y)),
   command |-> r.command, arg |-> r.arg, data |-> r.data]

Command(x, y, command, a1, a2, a3) ==
  AbstractSCPRequest(x, y, 0, command, a1, a2, a3, <<>>)
ToAll(command, a1, a2, a3) == Command(255, 255, command, a1, a2, a3)

(* Applications and their cores                                                 *)
ALL_CORE_MASK == 0..15
WAIT_FLAG == {18}

ApplicationRun(app, x, y, processors, wait) ==
  Command(x, y, "AR", processors \cup Shl(Bits(app), 24) \cup (IF wait THEN WAIT_FLAG ELSE {}),
          {}, {})

SignalData(app, signal) == Shl(0..7, 8) \cup Bits(app) \cup Shl(Bits(signal), 16)

SendSignal(app, signal, type) == ToAll("SIG", Bits(type), SignalData(app, signal), ALL_CORE_MASK)

AppStop(app) ==
  ToAll("NNP", Shl(0..5, 16), Shl(Bits(5), 28) \cup SignalData(app, 2), {31} \cup Shl(0..5, 8))

CountState(x, y, app, state) == Command(x, y, "COUNT", Bits(app), Bits(state), {})

DoSync(on) == ToAll("SYNC", IF on THEN {0} ELSE {}, {}, {})

(* Memory                                                                       *)
\* address_length_dtype: 2 for words, 1 for half words, 0 for bytes.
LengthType(address, size) ==
  IF address % 4 = 0 /\ size % 4 = 0 THEN 2
  ELSE IF address % 2 = 0 /\ size % 2 = 0 THEN 1 ELSE 0

ReadMemory(c, address, size) ==
  AbstractSCPRequest(c[1], c[2], c[3], "READ", Bits(address), Bits(size),
                     Bits(LengthType(address, size)), <<>>)
WriteMemory(c, address, data) ==
  AbstractSCPRequest(c[1], c[2], c[3], "WRITE", Bits(address), Bits(Len(data)),
                     Bits(LengthType(address, Len(data))), data)
ReadLink(c, link, address, size) ==
  AbstractSCPRequest(c[1], c[2], c[3], "LINK_READ", Bits(address), Bits(size), Bits(link), <<>>)
WriteLink(c, link, address, data) ==
  AbstractSCPRequest(c[1], c[2], c[3], "LINK_WRITE", Bits(address), Bits(Len(data)),
                     Bits(link), data)

ALLOC_SDRAM == 0
FREE_SDRAM_BY_POINTER == 1
FREE_SDRAM_BY_APP_ID == 2
ALLOC_ROUTING == 3
FLAG_RETRY_TAG == 4
\* Mutant of SDRAMAlloc: the flag that asks for the block of an earlier try is not set.
SDRAMAllocUnflagged(x, y, app, size, tag) ==
  Command(x, y, "ALLOC", Shl(Bits(app), 8) \cup Bits(ALLOC_SDRAM), Bits(size), Bits(tag))
SDRAMAlloc(x, y, app, size, tag) ==
  Command(x, y, "ALLOC",
          Shl(Bits(FLAG_RETRY_TAG), 16) \cup Shl(Bits(app), 8) \cup Bits(ALLOC_SDRAM),
          Bits(size), Bits(tag))
CanAlloc(tag) == tag \in 0..255
SDRAMDeAllocPointer(x, y, base) ==
  Command(x, y, "ALLOC", Bits(FREE_SDRAM_BY_POINTER), Bits(base), {})
SDRAMDeAllocApp(x, y, app) ==
  Command(x, y, "ALLOC", Shl(Bits(app), 8) \cup Bits(FREE_SDRAM_BY_APP_ID), {}, {})

(* Flood fills; the argument words of the three commands differ in layout.      *)
FloodFillStart(nnid, blocks) ==
  ToAll("NNP", Shl(Bits(6), 24) \cup Shl(Bits(nnid), 16) \cup Shl(Bits(blocks), 8),
        0..15, {31} \cup Shl(0..5, 8) \cup Bits(26))
FloodFillData(nnid, block, base, data) ==
  LET size == Len(data) \div 4 - 1 IN
  [ToAll("FFD", Shl(0..5, 24) \cup Shl(Bits(30), 16) \cup Bits(nnid),
         Shl(Bits(block), 16) \cup (IF size < 0 THEN {-1} ELSE Shl(Bits(size), 8)), Bits(base))
     EXCEPT !.data = data]
FloodFillEnd(nnid, app, processors, wait) ==
  ToAll("NNP", Shl(Bits(15), 24) \cup Bits(nnid),
        Shl(Bits(app), 24) \cup processors \cup (IF wait THEN WAIT_FLAG ELSE {}),
        Shl(0..5, 8) \cup Bits(26))

(* Routing                                                                      *)
RouterAlloc(x, y, app, n) ==
  Command(x, y, "ALLOC", Shl(Bits(app), 8) \cup Bits(ALLOC_ROUTING), Bits(n), {})
\* The constructor raises otherwise.
CanInit(n, table, base) == n >= 1 /\ base >= 0 /\ table >= 0
RouterInit(x, y, n, table, base, app) ==
  Command(x, y, "RTR", Shl(Bits(n), 16) \cup Shl(Bits(app), 8) \cup Bits(2), Bits(table), Bits(base))
RouterClear(x, y) == Command(x, y, "RTR", {}, {}, {})
FixedRouteInit(x, y, entry, app) == Command(x, y, "RTR", Shl(Bits(app), 8) \cup Bits(3), entry, {})
FixedRouteRead(x, y, app) == Command(x, y, "RTR", Shl(Bits(app), 8) \cup Bits(3), {31}, {})

(* IP tags                                                                      *)
IPTAG_SET == 1
IPTAG_GET == 2
IPTAG_CLEAR == 3
IPTAG_INFO == 4
IPTagSet(x, y, host, port, tag, strip, sender) ==
  Command(x, y, "IPTAG",
          (IF strip THEN {28} ELSE {}) \cup (IF sender THEN {30} ELSE {})
            \cup Shl(Bits(IPTAG_SET), 16) \cup Bits(tag),
          Bits(port),
          UNION {Shl(Bits(host[i]), 8 * (i - 1)) : i \in 1..4})
ReverseIPTagSet(x, y, dx, dy, p, port, tag, sdp_port) ==
  Command(x, y, "IPTAG",
          {28, 29} \cup Shl(Bits(IPTAG_SET), 16) \cup Shl(Bits(sdp_port), 13)
            \cup Shl(Bits(p), 8) \cup Bits(tag),
          Shl(Bits(dx), 24) \cup Shl(Bits(dy), 16) \cup Bits(port), {})
IPTagClear(x, y, tag) == Command(x, y, "IPTAG", Shl(Bits(IPTAG_CLEAR), 16) \cup Bits(tag), {}, {})
IPTagGet(x, y, tag) == Command(x, y, "IPTAG", Shl(Bits(IPTAG_GET), 16) \cup Bits(tag), {0}, {})
IPTagGetInfo(x, y) == Command(x, y, "IPTAG", Shl(Bits(IPTAG_INFO), 16), 0..7, {})

(* The chip and its parts                                                       *)
GetVersion(x, y, p) == AbstractSCPRequest(x, y, p, "VER", {}, {}, {}, <<>>)
GetChipInfo(x, y) == Command(x, y, "INFO", {0, 1, 2, 3, 4, 6}, {}, {})
LEDState(s) == CASE s = 0 -> 2 [] s = 1 -> 3 [] s = 2 -> 1
SetLED(x, y, cpu, states) ==
  AbstractSCPRequest(x, y, cpu, "LED",
     UNION {Shl(Bits(LEDState(states[l])), 2 * l) : l \in DOMAIN states}, {}, {}, <<>>)

(* The BMP: the frame's controller finds the board in the cpu of the header.    *)
FirstBoard(boards) == CHOOSE b \in boards : \A c \in boards : b <= c
BMPRequest(boards, command, a1, a2, a3, data) ==
  AbstractSCPRequest(0, 0, FirstBoard(boards), command, a1, a2, a3, data)
\* The delay between boards is in thousandths of a second.
SetPower(on, boards, delay) ==
  BMPRequest({0}, "BMP_POWER", Shl(Bits(delay), 16) \cup (IF on THEN {0} ELSE {}), boards, {}, <<>>)
BMPGetVersion(board) == BMPRequest({board}, "VER", {}, {}, {}, <<>>)
ReadFPGARegister(fpga, register, board) ==
  BMPRequest({board}, "LINK_READ", Bits(register) \ {0, 1}, Bits(4), Bits(fpga), <<>>)
WriteFPGARegister(fpga, register, value, board) ==
  BMPRequest({board}, "LINK_WRITE", Bits(register) \ {0, 1}, Bits(4), Bits(fpga), Bytes(value, 4))
BMPSetLed(leds, action, boards) ==
  BMPRequest(boards, "LED", UNION {Shl(Bits(action), 2 * l) : l \in leds}, boards, {}, <<>>)
ReadADC(board) == BMPRequest({board}, "BMP_INFO", Bits(3), {}, {}, <<>>)

(* Replies.  A reply that is not OK raises, but the count of a state may be that *)
(* of the boards that answered.                                                 *)
Word(data, i) == Number(data, 4 * i, 4)
CheckOKResponse(rc) == rc = "RC_OK"
CountStateResponse(rc) == rc \in {"RC_OK", "RC_P2P_NOREPLY"}
\* No block was allocated, or none was freed.
AllocResponse(data) == Word(data, 0) # 0
DeAllocResponse(data) == Word(data, 0) # 0
FixedRouteResponse(data) == Bits(Word(data, 0))
IPTagGetInfoResponse(d) == d.pool_size + d.fixed_size
IPTagGetResponse(d) ==
  [in_use |-> 15 \in d.flags, is_reverse |-> 9 \in d.flags, strip_sdp |-> 8 \in d.flags,
   ip |-> d.ip, port |-> d.port, rx_port |-> d.rx_port, chip |-> d.chip,
   cpu |-> d.cpu % 32, sdp_port |-> d.cpu \div 32]
FPGARegisterResponse(data) == Word(data, 0)
================================================================================
