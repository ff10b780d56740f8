--------------------------- MODULE MCHostOperations ---------------------------
(* A machine of two boards, one of two chips, as a torus of which the chip (0, 1) *)
(* is missing, and the operations that are called on it.                          *)
EXTENDS HostOperations

Chips3 == {<<0, 0>>, <<1, 0>>, <<1, 1>>}
Ethernets2 == {<<0, 0>>, <<1, 0>>}
Boards2 == (<<0, 0>> :> <<0, 0>>) @@ (<<1, 0>> :> <<1, 0>>) @@ (<<1, 1>> :> <<1, 0>>)
Torus == {<<0, 0>>, <<0, 1>>, <<1, 0>>, <<1, 1>>}
Steps == <<<<1, 0>>, <<1, 1>>, <<0, 1>>, <<1, 0>>, <<1, 1>>, <<0, 1>>>>
TorusLinks == [k \in Torus \X (0..5) |->
  <<(k[1][1] + Steps[k[2] + 1][1]) % 2, (k[1][2] + Steps[k[2] + 1][2]) % 2>>]
TorusXY == [k \in Torus \X Torus |-> <<(k[1][1] + k[2][1]) % 2, (k[1][2] + k[2][2]) % 2>>]

c10 == <<1, 0>>
c11 == <<1, 1>>
Put(a, data) == [k \in a .. a + Len(data) - 1 |-> data[k - a + 1]]
CoreBytes(state, app) == <<state, app>> \o [i \in 1..18 |-> IF i = 3 THEN 9 ELSE IF i = 11 THEN 7 ELSE 0]
CoreStates == [p \in 0..2 |-> <<<<RUNNING, 16>>, <<READY, 17>>, <<SYNC0, 17>>>>[p + 1]]
HeapAt == 500
Filter1 == [interrupt |-> TRUE, incoming |-> FALSE,
            fields |-> <<{0, 8}, {1}, {0}, {0, 1}, {3}, {1, 2}>>]
ChipMemory ==
  Put(Vcpu(0), CoreBytes(RUNNING, 16)) @@ Put(Vcpu(1), CoreBytes(READY, 17))
    @@ Put(Vcpu(2), CoreBytes(SYNC0, 17))
    @@ Put(SYSTEM_VARIABLE_BASE_ADDRESS + HeapPointer, Bytes(HeapAt, 4))
    @@ Put(SYSTEM_VARIABLE_BASE_ADDRESS + TableCopyPointer, Bytes(TableCopy, 4))
    @@ Put(SYSTEM_VARIABLE_BASE_ADDRESS + P2V_Map, <<0, 255, 2>>)
    @@ Put(SYSTEM_VARIABLE_BASE_ADDRESS + Watchdog, <<3>>)
    @@ Put(TableCopy, <<16, 1, 5, 6>> \o <<0, 255, 0, 0>> \o <<17, 2, 8, 4>> \o <<0, 255, 0, 0>>)
    @@ Put(HeapAt, Bytes(0, 4) \o Bytes(HeapAt + 8, 4))
    @@ Put(HeapAt + 8, Bytes(HeapAt + 24, 4) \o <<3, 17, 255, 255>>)
    @@ Put(HeapAt + 24, Bytes(HeapAt + 48, 4) \o <<0, 0, 0, 0>>)
    @@ Put(HeapAt + 48, Bytes(0, 4) \o <<0, 0, 0, 0>>)
    @@ Put(ROUTER_REGISTER_BASE_ADDRESS, <<0, 4, 16, 200>>)
    @@ Put(ROUTER_REGISTER_BASE_ADDRESS + 20, <<5, 1, 0, 0>>)
    @@ Put(ROUTER_REGISTER_BASE_ADDRESS + 40, Bytes(11, 4) \o Bytes(12, 4) \o Bytes(300, 4))
    @@ Put(FilterAddress(12), Bytes(Num(FilterWord(Filter1)), 4))
    \* the routes to (0, 0), (0, 1), (1, 0) and (1, 1): 7 is here, 6 is no chip
    @@ Put(ROUTER_REGISTER_P2P_ADDRESS, Bytes(7 + 8 * 6, 4))
    @@ Put(ROUTER_REGISTER_P2P_ADDRESS + 128, Bytes(0 + 8 * 1, 4))
    @@ Put(600, [i \in 1..24 |-> i])
ChipInfo(c) ==
  [source |-> <<9, 9>>, flags |-> {0, 1} \cup Shl(CASE c = c11 -> 0..4 [] c = c10 -> (0..5) \ {2} [] OTHER -> 0..5, 8) \cup {25},
   states |-> <<RUNNING, IDLE, IF c = <<1, 1>> THEN RTE ELSE IDLE>>,
   nearest |-> Boards2[c], ip |-> CASE c = <<0, 0>> -> 1 [] c = <<1, 0>> -> 2 [] OTHER -> 0,
   parent |-> 7]
Memory3 == [k \in Chips3 \X DOMAIN ChipMemory |->
  ChipMemory[k[2]] + (IF k[2] \in 600..623 THEN 10 * k[1][1] + 20 * k[1][2] ELSE 0)]
TheMachine ==
  [mem |-> <<>>,
   blocks |-> {[chip |-> <<0, 0>>, base |-> 400, size |-> 4, app |-> 17, tag |-> 5]},
   heap |-> <<[block_address |-> HeapAt + 8, size |-> 8, is_free |-> FALSE, tag |-> 3, app_id |-> 17],
              [block_address |-> HeapAt + 24, size |-> 16, is_free |-> TRUE, tag |-> None, app_id |-> None]>>,
   owner |-> [k \in Chips3 \X (1 .. RouterSize - 1) |-> IF k[2] = 2 /\ k[1] # <<1, 1>> THEN 17 ELSE 0],
   fixed |-> [c \in Chips3 |-> {c[1], 7}],
   tags |-> [k \in Ethernets2 \X (0 .. NTags - 1) |->
      IF k[2] = 0 THEN UnusedTag
      ELSE IF k[1] = <<0, 0>> THEN [UnusedTag EXCEPT !.flags = {15, 8}, !.port = 77, !.ip = 300]
      ELSE [UnusedTag EXCEPT !.flags = {15, 9, 8}, !.rx_port = 78, !.chip = <<1, 1>>, !.cpu = 67]],
   flood |-> [id |-> -1, got |-> {}, blocks |-> 0],
   sync |-> FALSE, leds |-> [c \in Chips3 |-> {1}], power |-> {1},
   fpga |-> [k \in {0, 1} \X {0, 1} \X {4, 8} |-> k[1] + 2 * k[2] + k[3]],
   bmp_leds |-> [b \in {0, 1} |-> {2}], adc |-> [b \in {0, 1} |-> [board |-> b]],
   diagnostics |-> [mon |-> 4, wait_1 |-> 16, wait_2 |-> 200, error_status |-> 261,
                    registers |-> (0 :> 11) @@ (1 :> 12) @@ (2 :> 300)],
   filter |-> Filter1,
   info |-> [c \in Chips3 |-> ChipInfo(c)],
   info_read |-> [c \in Chips3 |-> ChipSummaryInfo(ChipInfo(c))]]

NoDown == [chips |-> <<>>, links |-> <<>>, cores |-> <<>>]
SomeDown ==
  [chips |-> <<>>,
   links |-> <<[chip |-> <<0, 0>>, ip |-> 2, link |-> 0], [chip |-> <<0, 0>>, ip |-> 9, link |-> 1]>>,
   cores |-> <<[chip |-> <<0, 0>>, ip |-> 0, p |-> 1], [chip |-> <<1, 0>>, ip |-> 0, p |-> -2],
               [chip |-> <<1, 1>>, ip |-> 0, p |-> -1]>>]
OneDown == [NoDown EXCEPT !.chips = <<[chip |-> <<0, 1>>, ip |-> 2], [chip |-> <<0, 1>>, ip |-> 0]>>]
Core(c, p) == <<c[1], c[2], p>>
Pairs(p) == <<<<<<0, 0>>, p>>, <<c11, p>>, <<c11, 2>>>>

Reads == <<
  [kind |-> "read", core |-> Core(c11, 1), base |-> 601, size |-> 19],
  [kind |-> "read", core |-> Core(c10, 0), base |-> 602, size |-> 6],
  [kind |-> "read_link", core |-> Core(<<0, 0>>, 0), link |-> 1, base |-> 600, size |-> 12],
  [kind |-> "read_user", chip |-> c11, p |-> 1, user |-> 2],
  [kind |-> "read_user", chip |-> c11, p |-> 1, user |-> 4],
  [kind |-> "cpu_infos", cores |-> Pairs(1), filter |-> "all", states |-> {}],
  [kind |-> "cpu_infos", cores |-> Pairs(1), filter |-> "include", states |-> {READY, RTE}],
  [kind |-> "cpu_infos", cores |-> Pairs(1), filter |-> "exclude", states |-> {READY}],
  [kind |-> "count", app |-> 17, state |-> READY],
  [kind |-> "heap", chip |-> c10],
  [kind |-> "get_routes", chip |-> c11, app |-> None],
  [kind |-> "get_routes", chip |-> c11, app |-> 17],
  [kind |-> "read_fixed_route", chip |-> c10, app |-> 0],
  [kind |-> "get_tags", board |-> Nowhere],
  [kind |-> "diagnostics", chip |-> c11],
  [kind |-> "get_filter", chip |-> c10, position |-> 12],
  [kind |-> "version", chip |-> c10],
  [kind |-> "bmp_version", board |-> 1],
  [kind |-> "read_fpga", fpga |-> 1, register |-> 4, board |-> 1],
  [kind |-> "read_adc", board |-> 1]>>
Writes == <<
  [kind |-> "write", core |-> Core(c11, 0), base |-> 606, data |-> [i \in 1..24 |-> 100 + i], offset |-> 2, n |-> 18],
  [kind |-> "write_link", core |-> Core(c11, 0), link |-> 0, base |-> 600, data |-> [i \in 1..12 |-> 50 + i],
   offset |-> 0, n |-> 12],
  [kind |-> "write_reader", core |-> Core(c10, 0), base |-> 604,
   pieces |-> <<<<91, 92, 93>>, <<94, 95, 96, 97, 98>>, <<99>>>>],
  [kind |-> "flood", nnid |-> 5, base |-> 604, data |-> <<81, 82, 83, 84, 85, 86, 87, 88, 89, 90, 91, 92>>],
  [kind |-> "write_user", chip |-> c11, p |-> 2, user |-> 0, value |-> 70],
  [kind |-> "set_watch_dog", value |-> 0],
  [kind |-> "set_filter", chip |-> c11, position |-> 13, word |-> Num({30, 16, 24, 14, 15, 12, 13, 10, 4, 5, 6, 7, 0}),
   diagnostic |-> [interrupt |-> TRUE, incoming |-> TRUE, fields |-> <<{0, 8}, {}, {}, {0}, {}, {0}>>]],
  [kind |-> "set_filter", chip |-> c11, position |-> 17, word |-> 0, diagnostic |-> Filter1],
  [kind |-> "run", app |-> 30, wait |-> TRUE, subsets |-> <<[chip |-> c10, cores |-> {1, 2}], [chip |-> c11, cores |-> {1}]>>],
  [kind |-> "run", app |-> 30, wait |-> FALSE, subsets |-> <<[chip |-> <<0, 0>>, cores |-> {1}]>>],
  [kind |-> "stop", app |-> 17, off |-> FALSE],
  [kind |-> "stop", app |-> 17, off |-> TRUE],
  [kind |-> "clear_counters", chip |-> c10],
  [kind |-> "execute", app |-> 17, cores |-> <<<<<<0, 0>>, 1>>, <<c10, 1>>, <<c11, 1>>>>],
  [kind |-> "signal", app |-> 17, signal |-> 3, type |-> 0],
  [kind |-> "signal", app |-> 17, signal |-> 4, type |-> 0],
  [kind |-> "signal", app |-> 256, signal |-> 4, type |-> 0],
  [kind |-> "sync", on |-> TRUE],
  [kind |-> "load_routes", chip |-> c11, app |-> 30, routes |-> <<<<1, 2, 3>>, <<4, 5, 6>>>>],
  [kind |-> "load_routes", chip |-> c10, app |-> 30, routes |-> <<<<1, 2, 3>>, <<4, 5, 6>>>>],
  [kind |-> "clear_routes", chip |-> c10],
  [kind |-> "load_fixed_route", chip |-> c11, entry |-> {0, 30}, app |-> 3],
  [kind |-> "malloc", chip |-> <<0, 0>>, app |-> 17, size |-> 8, tag |-> 6],
  [kind |-> "malloc", chip |-> c11, app |-> 17, size |-> 8, tag |-> 5],
  [kind |-> "malloc", chip |-> c11, app |-> 17, size |-> 9, tag |-> 5],
  [kind |-> "malloc", chip |-> c11, app |-> 17, size |-> 8, tag |-> 256],
  [kind |-> "free", chip |-> <<0, 0>>, base |-> 400],
  [kind |-> "free_all", chip |-> <<0, 0>>, app |-> 17],
  [kind |-> "set_ip_tag", board |-> Nowhere, tag |-> 0, ip |-> 1000, port |-> 500, strip |-> TRUE,
   wanted |-> [UnusedTag EXCEPT !.ip = 1000, !.port = 500, !.flags = {15, 8}]],
  [kind |-> "set_reverse_ip_tag", board |-> c10, tag |-> 1, chip |-> c11, p |-> 2, port |-> 600, sdp_port |-> 1,
   wanted |-> [UnusedTag EXCEPT !.rx_port = 600, !.flags = {15, 9, 8}, !.chip = c11, !.cpu = 34]],
  [kind |-> "set_reverse_ip_tag", board |-> c10, tag |-> 1, chip |-> c11, p |-> 2, port |-> 17893, sdp_port |-> 1,
   wanted |-> UnusedTag],
  [kind |-> "set_ip_tag", board |-> c11, tag |-> 0, ip |-> 1000, port |-> 500, strip |-> TRUE, wanted |-> UnusedTag],
  [kind |-> "clear_ip_tag", board |-> Nowhere, tag |-> 1, wanted |-> UnusedTag],
  [kind |-> "power", on |-> TRUE, boards |-> {0, 2}],
  [kind |-> "power", on |-> FALSE, boards |-> {0, 1}],
  [kind |-> "write_fpga", fpga |-> 1, register |-> 8, value |-> 99, board |-> 0],
  [kind |-> "set_leds", chip |-> c11, states |-> (0 :> 1) @@ (1 :> 0)],
  [kind |-> "set_led", leds |-> {1, 3}, action |-> 3, boards |-> {0, 1}]>>
Discoveries == <<
  [kind |-> "machine", chip |-> <<0, 0>>, width |-> 2, height |-> 2, down |-> SomeDown,
   unwanted |-> {<<<<0, 0>>, 1>>, <<c10, 2>>}],
  [kind |-> "machine", chip |-> <<0, 0>>, width |-> 2, height |-> 2, down |-> OneDown, unwanted |-> {}]>>
Waits == <<
  [kind |-> "wait", app |-> 17, cores |-> <<<<<<0, 0>>, 1>>, <<c11, 2>>>>, targets |-> <<PAUSED>>]>>
AllOps == Reads \o Writes \o Discoveries \o Waits
ToPaused == {<<READY, PAUSED>>, <<READY, RTE>>, <<SYNC0, PAUSED>>}

\* Waiting for one of two states, of which one follows the other.
WaitsTwo == <<[kind |-> "wait", app |-> 17, cores |-> <<<<<<0, 0>>, 1>>, <<c11, 1>>>>, targets |-> <<PAUSED, FINISHED>>]>>
ThroughPaused == {<<READY, PAUSED>>, <<PAUSED, FINISHED>>}
Fours == <<[kind |-> "free_by_app_id", chip |-> <<0, 0>>, app |-> 17]>>
==============================================================================
