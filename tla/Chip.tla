--------------------------------- MODULE Chip ---------------------------------
(* The machine at the other end, as the messages and the replies of the host    *)
(* suppose it: SCAMP on every chip, the router, the SDRAM heap, the tags of the *)
(* Ethernet chips and the BMP of the boards.  It only sees the datagrams, which *)
(* it takes apart by itself; a request carried out twice has its effect twice.  *)
EXTENDS SCPMessages, TLC

CONSTANTS
    Chips,      \* coordinates <<x, y>>
    Ethernets,  \* the chips with a cable, one for each board
    BoardOf,    \* the Ethernet chip of each chip
    OverLink,   \* [chip, link] |-> the chip at the other end
    Cores,      \* the cores of a chip
    Memory      \* what a chip's memory holds at first; 0 where not in its domain

NTags == 2
RouterSize == 4               \* multicast entries of a router, the first is SCAMP's
SdramSlots == {400, 408}      \* where a block of up to 8 bytes can be allocated

\* Small addresses stand for those of constants.py; a core's record is 20 bytes here.
CPU_INFO_OFFSET == 16
CPU_INFO_BYTES == 20
CPU_USER_START_ADDRESS == 4
CPU_USER_OFFSET == 4
CPU_MAX_USER == 3
ROUTER_FILTER_CONTROLS_OFFSET == 100
NO_ROUTER_DIAGNOSTIC_FILTERS == 16
SYSTEM_VARIABLE_BASE_ADDRESS == 200
HeapPointer == 8              \* offsets of system variables
TableCopyPointer == 12
Watchdog == 17
P2V_Map == 20
MapSize == 3
ROUTER_REGISTER_BASE_ADDRESS == 1000
ROUTER_REGISTER_P2P_ADDRESS == 2000
ROUTER_COUNTERS == 1100
SCP_SCAMP_PORT == 17893
UDP_BOOT_CONNECTION_DEFAULT_PORT == 54321
TableCopy == 300              \* where SCAMP keeps a copy of the router table

DEAD == 0
RTE == 2
WATCHDOG == 3
READY == 5
RUNNING == 7
SYNC0 == 8
PAUSED == 10
FINISHED == 11
IDLE == 15
CPUState == 0..15

Vcpu(p) == CPU_INFO_OFFSET + CPU_INFO_BYTES * p

-----------------------------------------------------------------------------
\* m.mem holds what has been written since.
Load(m, c, a, n) ==
  [i \in 1..n |-> IF <<c, a + i - 1>> \in DOMAIN m.mem THEN m.mem[c, a + i - 1]
                 ELSE IF <<c, a + i - 1>> \in DOMAIN Memory THEN Memory[c, a + i - 1] ELSE 0]
Written(m, chips, a, data) ==
  [m EXCEPT !.mem = [k \in chips \X (a .. a + Len(data) - 1) |-> data[k[2] - a + 1]] @@ @]

StateOf(m, c, p) == Load(m, c, Vcpu(p), 2)[1]
AppOf(m, c, p) == Load(m, c, Vcpu(p), 2)[2]
\* The cores of `which` take the state that `to` gives for theirs, and the app.
SetCores(m, which, to, app) ==
  [m EXCEPT !.mem =
     [k \in {<<q[1], Vcpu(q[2])>> : q \in which} |-> to[Load(m, k[1], k[2], 1)[1]]]
       @@ [k \in {<<q[1], Vcpu(q[2]) + 1>> : q \in which} |-> app] @@ @]
CoresOf(m, app) ==
  {q \in Chips \X Cores : AppOf(m, q[1], q[2]) = app /\ StateOf(m, q[1], q[2]) # IDLE}

Ok(m, data) == [machine |-> m, rc |-> "RC_OK", data |-> data]
Refused(m) == [machine |-> m, rc |-> "RC_REFUSED", data |-> <<>>]

(* The commands, from their three words                                        *)
Aligned(a, n, t) == a % 2^t = 0 /\ n % 2^t = 0
Access(m, c, a, n, t, new) ==
  CASE ~Aligned(a, n, t) -> Refused(m)
    [] new = <<>>        -> Ok(m, Load(m, c, a, n))
    [] OTHER             -> IF Len(new) = n THEN Ok(Written(m, {c}, a, new), <<>>) ELSE Refused(m)

\* A core of the signal's mask and application, moved on by the signal.
AfterSignal(signal, s) ==
  CASE signal = 3 /\ s = READY -> RUNNING
    [] signal = 4 /\ s = SYNC0 -> RUNNING
    [] signal = 8              -> FINISHED
    [] OTHER                   -> s
Signal(m, type, word, mask) ==
  LET signal == NumAt(word, 16, 8)
      app == NumAt(word, 0, 8)
      which == {q \in CoresOf(m, app) : q[2] \in mask}
  IN  IF type # (IF signal <= 2 THEN 2 ELSE 0) \/ NumAt(word, 8, 8) # 255 THEN m
      ELSE IF signal = 2 THEN SetCores(m, which, [s \in CPUState |-> IDLE], 0)
      ELSE SetCores(m, which, [s \in CPUState |-> AfterSignal(signal, s)], app)

\* The first run of n free entries of the router, 0 if there is none.
FreeEntries(m, c, n) ==
  LET runs == {b \in 1 .. RouterSize - n : \A i \in b .. b + n - 1 : m.owner[c, i] = 0}
  IN  IF runs = {} THEN 0 ELSE CHOOSE b \in runs : \A d \in runs : b <= d

Alloc(m, c, word, size, tag) ==
  LET app == NumAt(word, 8, 8)
      mine == {b \in m.blocks : b.chip = c /\ b.app = app}
      again == {b \in mine : b.tag = tag}
      free == SdramSlots \ {b.base : b \in {d \in m.blocks : d.chip = c}}
      base == CHOOSE s \in free : \A u \in free : s <= u
      entries == FreeEntries(m, c, size)
  IN  CASE NumAt(word, 0, 8) = ALLOC_SDRAM ->
             IF NumAt(word, 16, 8) = FLAG_RETRY_TAG /\ tag # 0 /\ again # {}
             THEN Ok(m, Bytes((CHOOSE b \in again : TRUE).base, 4))
             ELSE IF free = {} \/ size > 8 THEN Ok(m, Bytes(0, 4))
             ELSE Ok([m EXCEPT !.blocks = @ \cup {[chip |-> c, base |-> base, size |-> size,
                                                    app |-> app, tag |-> tag]}], Bytes(base, 4))
        [] NumAt(word, 0, 8) = FREE_SDRAM_BY_POINTER ->
             Ok([m EXCEPT !.blocks = {b \in @ : b.chip # c \/ b.base # size}], <<>>)
        [] NumAt(word, 0, 8) = FREE_SDRAM_BY_APP_ID ->
             Ok([m EXCEPT !.blocks = @ \ mine], Bytes(Cardinality(mine), 4))
        [] NumAt(word, 0, 8) = ALLOC_ROUTING ->
             Ok(IF entries = 0 THEN m
                ELSE [m EXCEPT !.owner = [k \in {c} \X (entries .. entries + size - 1) |-> app] @@ @],
                Bytes(entries, 4))

\* The router table in memory: 4 bytes of an entry are its app, route, key and mask
\* (the index, route, key and mask in the table it is loaded from).
Router(m, c, word, a2, a3) ==
  LET n == NumAt(word, 16, 16)
      app == NumAt(word, 8, 8)
      table == NumAt(a2, 0, 31)
      base == NumAt(a3, 0, 31)
      entry(i) == <<app>> \o SubSeq(Load(m, c, table + 4 * i, 4), 2, 4)
      Loaded[i \in 0..n] ==
        IF i = 0 THEN m ELSE Written(Loaded[i - 1], {c}, TableCopy + 4 * (base + i - 1), entry(i - 1))
  IN  CASE NumAt(word, 0, 8) = 0 ->
             Ok([Written(m, {c}, TableCopy, [i \in 1 .. 4 * RouterSize |-> 255])
                   EXCEPT !.owner = [k \in {c} \X (1 .. RouterSize - 1) |-> 0] @@ @], <<>>)
        [] NumAt(word, 0, 8) = 2 -> Ok(Loaded[n], <<>>)
        [] NumAt(word, 0, 8) = 3 ->
             IF 31 \in a2 THEN Ok(m, Bytes(Num(m.fixed[c]), 4)) ELSE Ok([m EXCEPT !.fixed[c] = a2], <<>>)

UnusedTag == [ip |-> 0, port |-> 0, flags |-> {}, rx_port |-> 0, chip |-> <<0, 0>>, cpu |-> 0]
IPTag(m, c, word, a2, a3) ==
  LET tag == NumAt(word, 0, 8)
      reverse == 29 \in word
      strip == IF 28 \in word THEN {8} ELSE {}
  IN  CASE NumAt(word, 16, 8) = IPTAG_SET /\ tag < NTags ->
             Ok([m EXCEPT !.tags[c, tag] =
                   IF reverse
                   THEN [ip |-> 0, port |-> 0, flags |-> {15, 9} \cup strip, rx_port |-> NumAt(a2, 0, 16),
                         chip |-> <<NumAt(a2, 24, 8), NumAt(a2, 16, 8)>>, cpu |-> NumAt(word, 8, 8)]
                   ELSE [UnusedTag EXCEPT !.ip = NumAt(a3, 0, 31), !.port = NumAt(a2, 0, 16),
                                          !.flags = {15} \cup strip]], <<>>)
        [] NumAt(word, 16, 8) = IPTAG_GET /\ tag < NTags -> Ok(m, m.tags[c, tag])
        [] NumAt(word, 16, 8) = IPTAG_CLEAR /\ tag < NTags ->
             Ok([m EXCEPT !.tags[c, tag] = UnusedTag], <<>>)
        [] NumAt(word, 16, 8) = IPTAG_INFO -> Ok(m, [pool_size |-> 1, fixed_size |-> NTags - 1])
        [] OTHER -> Refused(m)

\* A flood: announced, filled block by block in any order, and ended.
Flood(m, c, d) ==
  LET key == NumAt(d.arg[1], 24, 7) IN
  CASE d.command = "FFD" ->
         LET n == 4 * (NumAt(d.arg[2], 8, 8) + 1) IN
         IF m.flood.id # NumAt(d.arg[1], 0, 8) \/ Len(d.data) # n THEN Ok(m, <<>>)
         ELSE Ok([Written(m, Chips, NumAt(d.arg[3], 0, 31), d.data)
                    EXCEPT !.flood.got = @ \cup {NumAt(d.arg[2], 16, 8)}], <<>>)
    [] key = 6 -> Ok([m EXCEPT !.flood = [id |-> NumAt(d.arg[1], 16, 8), got |-> {},
                                          blocks |-> NumAt(d.arg[1], 8, 8)]], <<>>)
    [] key = 15 -> Ok([m EXCEPT !.flood.id = IF @ = NumAt(d.arg[1], 0, 8) THEN -1 ELSE @], <<>>)
    [] key = 0 -> Ok(Signal(m, 2, d.arg[2] \ (28..31), 0..15), <<>>)

\* Two bits for each LED: 1 toggles it, 2 is off and 3 is on.
Leds(lit, word) ==
  {l \in 0..3 : CASE NumAt(word, 2 * l, 2) = 3 -> TRUE
                  [] NumAt(word, 2 * l, 2) = 2 -> FALSE
                  [] NumAt(word, 2 * l, 2) = 1 -> l \notin lit
                  [] OTHER                     -> l \in lit}

Bmp(m, d) ==
  LET board == HeaderFrom(d.sdp, 0).destination_cpu
      reg == <<board, NumAt(d.arg[3], 0, 8), NumAt(d.arg[1], 0, 31)>>
  IN  CASE d.command = "BMP_POWER" ->
             Ok([m EXCEPT !.power = IF 0 \in d.arg[1] THEN @ \cup d.arg[2] ELSE @ \ d.arg[2]], <<>>)
        [] d.command = "VER" -> Ok(m, [p |-> board, name |-> "BMP"])
        [] d.command = "LINK_READ" -> Ok(m, Bytes(m.fpga[reg], 4))
        [] d.command = "LINK_WRITE" -> Ok([m EXCEPT !.fpga[reg] = Number(d.data, 0, 4)], <<>>)
        [] d.command = "LED" ->
             Ok([m EXCEPT !.bmp_leds = [b \in DOMAIN @ |->
                   IF b \in d.arg[2] THEN Leds(@[b], d.arg[1]) ELSE @[b]]], <<>>)
        [] d.command = "BMP_INFO" -> Ok(m, m.adc[board])

\* The three words of a datagram as numbers.
Words(d) == <<NumAt(d.arg[1], 0, 31), NumAt(d.arg[2], 0, 31), NumAt(d.arg[3], 0, 31)>>

\* The reply to a datagram with these words, and the machine after it.
Execute(m, via, d, a) ==
  LET h == HeaderFrom(d.sdp, 0)
      c == <<h.destination_chip_x, h.destination_chip_y>>
      run == {q \in {c} \X Cores : q[2] \in d.arg[1]}
  IN  CASE via = "bmp" -> Bmp(m, d)
        [] c \notin Chips \cup {<<255, 255>>} -> Refused(m)
        [] OTHER ->
           CASE d.command \in {"READ", "WRITE"} -> Access(m, c, a[1], a[2], a[3], d.data)
             [] d.command \in {"LINK_READ", "LINK_WRITE"} ->
                  Access(m, OverLink[c, a[3]], a[1], a[2], 0, d.data)
             [] d.command = "ALLOC" -> Alloc(m, c, d.arg[1], a[2], a[3])
             [] d.command = "RTR" -> Router(m, c, d.arg[1], d.arg[2], d.arg[3])
             [] d.command = "IPTAG" -> IPTag(m, c, d.arg[1], d.arg[2], d.arg[3])
             [] d.command \in {"NNP", "FFD"} -> Flood(m, c, d)
             [] d.command = "SIG" -> Ok(Signal(m, a[1], d.arg[2], d.arg[3]), <<>>)
             [] d.command = "SYNC" -> Ok([m EXCEPT !.sync = 0 \in d.arg[1]], <<>>)
             [] d.command = "AR" ->
                  Ok(SetCores(m, run, [s \in CPUState |-> IF 18 \in d.arg[1] THEN READY ELSE RUNNING],
                              NumAt(d.arg[1], 24, 7)), <<>>)
             [] d.command = "COUNT" ->
                  Ok(m, Bytes(Cardinality({q \in CoresOf(m, a[1]) :
                        BoardOf[q[1]] = BoardOf[c] /\ StateOf(m, q[1], q[2]) = a[2]}), 4))
             [] d.command = "VER" ->
                  Ok(m, [p |-> h.destination_cpu, x |-> c[1], y |-> c[2], name |-> "SC&MP"])
             [] d.command = "INFO" -> Ok(m, [m.info[c] EXCEPT !.source = c])
             [] d.command = "LED" -> Ok([m EXCEPT !.leds[c] = Leds(@, d.arg[1])], <<>>)
=============================================================================
