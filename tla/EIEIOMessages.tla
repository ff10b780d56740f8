----------------------------- MODULE EIEIOMessages -----------------------------
(* EIEIO messages as bytes.  A data message is a header and keys, each perhaps  *)
(* with a payload; its reader keeps a cursor (read, offset) in the message.  A  *)
(* command message is its number and what that command carries.                 *)
EXTENDS SDPMessages

Raised == [kind |-> "raised"]
Enough(b, n) == Len(b) >= n    \* else struct.unpack_from raises
Or(a, c) == Num(Bits(a) \cup Bits(c))

(* EIEIOType: 0 KEY_16_BIT, 1 KEY_PAYLOAD_16_BIT, 2 KEY_32_BIT,                 *)
(* 3 KEY_PAYLOAD_32_BIT.                                                        *)
KeyBytes(type) == IF type < 2 THEN 2 ELSE 4
PayloadBytes(type) == (type % 2) * KeyBytes(type)
ElementBytes(type) == KeyBytes(type) + PayloadBytes(type)

(* EIEIODataHeader: a prefix of the keys and a base of the payloads, or NoneSet. *)
DataHeaderSize(h) ==
  2 + (IF h.prefix = NoneSet THEN 0 ELSE 2) + (IF h.base = NoneSet THEN 0 ELSE KeyBytes(h.type))
DataHeaderFlags(h) ==
  (IF h.prefix = NoneSet THEN {} ELSE {7} \cup (IF h.upper THEN {6} ELSE {}))
    \cup (IF h.base = NoneSet THEN {} ELSE {5}) \cup (IF h.is_time THEN {4} ELSE {})
    \cup Shl(Bits(h.type), 2) \cup Bits(h.tag)
DataHeaderBytes(h) ==
  <<h.count, Num(DataHeaderFlags(h))>>
    \o (IF h.prefix = NoneSet THEN <<>> ELSE Bytes(h.prefix, 2))
    \o (IF h.base = NoneSet THEN <<>> ELSE Bytes(h.base, KeyBytes(h.type)))
DataHeaderFrom(b, offset) ==
  LET flags == Bits(b[offset + 2])
      prefixed == 7 \in flags
      type == NumAt(flags, 2, 2)
  IN  [type |-> type, tag |-> NumAt(flags, 0, 2), upper |-> 6 \in flags,
       is_time |-> 4 \in flags, count |-> b[offset + 1],
       prefix |-> IF prefixed THEN Number(b, offset + 2, 2) ELSE NoneSet,
       base |-> IF 5 \in flags
                THEN Number(b, offset + (IF prefixed THEN 4 ELSE 2), KeyBytes(type)) ELSE NoneSet]
\* A header without prefix that has the bit of the upper half is a command's.
HeaderReads(b, offset) ==
  /\ Enough(b, offset + 2)
  /\ LET flags == Bits(b[offset + 2])
     IN  ~(7 \notin flags /\ 6 \in flags)
           /\ Enough(b, offset + 2 + (IF 7 \in flags THEN 2 ELSE 0)
                        + (IF 5 \in flags THEN KeyBytes(NumAt(flags, 2, 2)) ELSE 0))

(* EIEIODataMessage, written: the elements go after the header, which counts     *)
(* them.  A key or payload above the type's maximum, or an element with the      *)
(* wrong parts, raises and adds nothing.                                         *)
MaxValue(type) == IF KeyBytes(type) = 2 THEN 65535 ELSE 2147483647   \* 32 bits: what TLC can count
CanAdd(h, e) ==
  /\ e.key <= MaxValue(h.type) /\ e.payload <= MaxValue(h.type)
  /\ (e.payload = NoneSet) = (PayloadBytes(h.type) = 0)
AddElement(m, e) ==
  IF ~CanAdd(m.header, e) THEN m
  ELSE [m EXCEPT !.header.count = @ + 1,
                 !.elements = @ \o Bytes(e.key, KeyBytes(m.header.type))
                                \o Bytes(e.payload, PayloadBytes(m.header.type))]
DataMessage(h, elements) ==
  LET added[i \in 0 .. Len(elements)] ==
        IF i = 0 THEN [header |-> h, elements |-> <<>>] ELSE AddElement(added[i - 1], elements[i])
  IN  added[Len(elements)]
DataMessageBytes(h, elements) ==
  LET m == DataMessage(h, elements) IN DataHeaderBytes(m.header) \o m.elements

(* EIEIODataMessage, read.                                                       *)
DataMessageFrom(b, offset) ==
  IF ~HeaderReads(b, offset) THEN Raised
  ELSE LET h == DataHeaderFrom(b, offset)
       IN  [kind |-> "data", header |-> h, data |-> b,
            offset |-> offset + DataHeaderSize(h), read |-> 0]
IsNextElement(m) == m.read < m.header.count
PrefixedBelow(key, h) == IF h.prefix = NoneSet THEN key ELSE Or(key, h.prefix)
Prefixed(key, h) ==
  IF h.prefix = NoneSet THEN key
  ELSE IF h.upper THEN Num(Bits(key) \cup Shl(Bits(h.prefix), 16)) ELSE Or(key, h.prefix)
Based(payload, h) ==
  IF h.base = NoneSet THEN payload
  ELSE IF payload = NoneSet THEN h.base ELSE Or(payload, h.base)
KeyRead(m) == Prefixed(Number(m.data, m.offset, KeyBytes(m.header.type)), m.header)
PayloadRead(m) ==
  LET n == PayloadBytes(m.header.type)
  IN  Based(IF n = 0 THEN NoneSet ELSE Number(m.data, m.offset + KeyBytes(m.header.type), n), m.header)
NextElement(m) ==
  LET payload == PayloadRead(m)
  IN  [key |-> KeyRead(m), payload |-> payload, is_time |-> payload # NoneSet /\ m.header.is_time]
AfterElement(m) == [m EXCEPT !.read = @ + 1, !.offset = @ + ElementBytes(m.header.type)]
NextElementReads(m) == Enough(m.data, m.offset + ElementBytes(m.header.type))

(* The commands.                                                                 *)
DATABASE == 1
EVENT_PADDING == 2
EVENT_STOP == 3
STOP_SENDING_REQUESTS == 4
START_SENDING_REQUESTS == 5
SPINNAKER_REQUEST_BUFFERS == 6
HOST_SEND_SEQUENCED_DATA == 7
SPINNAKER_REQUEST_READ_DATA == 8
HOST_DATA_READ == 9
STOP_PAUSE_NOTIFICATION == 10
START_RESUME_NOTIFICATION == 11
HOST_DATA_READ_ACK == 12

CommandHeaderBytes(command) == Bytes(2^14 + command, 2)
CommandHeaderFrom(b, offset) == NumAt(Bits(Number(b, offset, 2)), 0, 14)

Command(n) == [kind |-> "command", command |-> n]
EIEIOCommandMessage(n, rest) == [kind |-> "command", command |-> n, rest |-> rest]
NotificationProtocolDatabaseLocation(path) ==
  [kind |-> "command", command |-> DATABASE, path |-> path]
PaddingRequest == Command(EVENT_PADDING)
EventStopRequest == Command(EVENT_STOP)
StopRequests == Command(STOP_SENDING_REQUESTS)
StartRequests == Command(START_SENDING_REQUESTS)
NotificationProtocolPauseStop == EIEIOCommandMessage(STOP_PAUSE_NOTIFICATION, <<>>)
NotificationProtocolStartResume == EIEIOCommandMessage(START_RESUME_NOTIFICATION, <<>>)
HostDataReadAck(sequence) == EIEIOCommandMessage(HOST_DATA_READ_ACK, <<sequence>>)
SpinnakerRequestBuffers(x, y, p, region, sequence, space) ==
  [kind |-> "command", command |-> SPINNAKER_REQUEST_BUFFERS,
   x |-> x, y |-> y, p |-> p, region |-> region, sequence |-> sequence, space |-> space]
HostSendSequencedData(region, sequence, data) ==
  [kind |-> "command", command |-> HOST_SEND_SEQUENCED_DATA,
   region |-> region, sequence |-> sequence, data |-> data]
\* requests and acks are sequences of [channel, region, start (of requests), space].
SpinnakerRequestReadData(x, y, p, sequence, requests) ==
  [kind |-> "command", command |-> SPINNAKER_REQUEST_READ_DATA,
   x |-> x, y |-> y, p |-> p, sequence |-> sequence, requests |-> requests]
HostDataRead(sequence, acks) ==
  [kind |-> "command", command |-> HOST_DATA_READ, sequence |-> sequence, acks |-> acks]

Joined(parts) ==
  LET join[i \in 0 .. Len(parts)] == IF i = 0 THEN <<>> ELSE join[i - 1] \o parts[i]
  IN  join[Len(parts)]

RequestBuffersBytes(c) ==
  <<c.y, c.x, c.p * 8, 0, c.region, c.sequence>> \o Bytes(c.space, 4)
RequestBuffersFrom(b, at) ==
  SpinnakerRequestBuffers(b[at + 2], b[at + 1], (b[at + 3] \div 8) % 32, b[at + 5] % 16,
                          b[at + 6], Number(b, at + 6, 4))

\* Every request is sent with the start of the first, and x before y.
RequestReadDataBytes(c) ==
  LET part(i) ==
        (IF i = 1 THEN <<c.p * 8 + Len(c.requests), c.sequence>> ELSE <<0, 0>>)
          \o <<c.requests[i].channel, c.requests[i].region>>
          \o Bytes(c.requests[1].start, 4) \o Bytes(c.requests[i].space, 4)
  IN  <<c.x, c.y>> \o Joined([i \in 1 .. Len(c.requests) |-> part(i)])
RequestReadDataFrom(b, at) ==
  LET n == b[at + 3] % 8
      part(i) == LET o == at + 4 + (i - 1) * 12
                 IN  [channel |-> b[o + 1], region |-> b[o + 2],
                      start |-> Number(b, o + 2, 4), space |-> Number(b, o + 6, 4)]
  IN  SpinnakerRequestReadData(b[at + 2], b[at + 1], b[at + 3] \div 8, b[at + 4],
                               [i \in 1..n |-> part(i)])

HostDataReadBytes(c) ==
  <<Len(c.acks), c.sequence>>
    \o Joined([i \in 1 .. Len(c.acks) |->
         <<0, 0, c.acks[i].channel, c.acks[i].region>> \o Bytes(c.acks[i].space, 4)])
HostDataReadFrom(b, at) ==
  LET part(i) == LET o == at + 2 + (i - 1) * 8
                 IN  [channel |-> b[o + 3], region |-> b[o + 4], space |-> Number(b, o + 4, 4)]
  IN  HostDataRead(b[at + 2], [i \in 1 .. (b[at + 1] % 8) |-> part(i)])

CommandBytes(c) ==
  CommandHeaderBytes(c.command) \o
  CASE c.command = DATABASE -> c.path
    [] c.command = SPINNAKER_REQUEST_BUFFERS -> RequestBuffersBytes(c)
    [] c.command = HOST_SEND_SEQUENCED_DATA ->
         <<c.region, c.sequence>> \o DataMessageBytes(c.data.header, c.data.elements)
    [] c.command = SPINNAKER_REQUEST_READ_DATA -> RequestReadDataBytes(c)
    [] c.command = HOST_DATA_READ -> HostDataReadBytes(c)
    [] c.command = HOST_DATA_READ_ACK -> c.rest
    [] OTHER -> <<>>

\* read_eieio_command_message: bytes that are missing raise.  A path that came as
\* bytes cannot be encoded again, and the data of a sequenced message is read from
\* where its region and number are.
CommandFrom(b, offset) ==
  LET n == CommandHeaderFrom(b, offset)
      at == offset + 2
      Read(bytes, message) == IF Enough(b, at + bytes) THEN message ELSE Raised
  IN  CASE n = DATABASE ->
             IF Len(b) > at THEN Raised ELSE NotificationProtocolDatabaseLocation(<<>>)
        [] n \in {EVENT_PADDING, EVENT_STOP, STOP_SENDING_REQUESTS, START_SENDING_REQUESTS} ->
             Command(n)
        [] n = SPINNAKER_REQUEST_BUFFERS -> Read(10, RequestBuffersFrom(b, at))
        [] n = HOST_SEND_SEQUENCED_DATA ->
             IF HeaderReads(b, at)
             THEN HostSendSequencedData(b[at + 1], b[at + 2], DataMessageFrom(b, at)) ELSE Raised
        [] n = SPINNAKER_REQUEST_READ_DATA ->
             Read(4, Read(4 + (b[at + 3] % 8) * 12 - (IF b[at + 3] % 8 = 0 THEN 0 ELSE 2),
                          RequestReadDataFrom(b, at)))
        [] n = HOST_DATA_READ -> Read(2, Read(2 + (b[at + 1] % 8) * 8, HostDataReadFrom(b, at)))
        [] OTHER -> EIEIOCommandMessage(n, SubSeq(b, at + 1, Len(b)))

(* EIEIOConnection                                                               *)
EIEIOBytes(m) ==
  IF m.kind = "command" THEN CommandBytes(m) ELSE DataMessageBytes(m.header, m.elements)
ReceiveEIEIO(b) ==
  IF ~Enough(b, 2) THEN Raised
  ELSE IF Part(Bits(Number(b, 0, 2)), 14, 2) = {0} THEN CommandFrom(b, 0)
  ELSE DataMessageFrom(b, 0)

(* SDPConnection: two bytes of padding go before a message, and only a message   *)
(* that wants a reply says where it comes from.                                  *)
SDPBytes(m, chip) ==
  <<0, 0>> \o SDPMessageBytes([m EXCEPT !.header =
    IF @.flags = REPLY_EXPECTED THEN UpdateForSend(@, chip[1], chip[2]) ELSE UpdateForSend(@, 0, 0)])
ReceiveSDP(b) ==
  IF ~Enough(b, 10) \/ b[3] \notin SDPFlag THEN Raised
  ELSE LET m == SDPMessageFrom(b, 2)
       IN  [kind |-> "sdp", header |-> m.header, data |-> m.data, offset |-> m.offset]
================================================================================
